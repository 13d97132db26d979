-------------------------- MODULE Learning_proofs ---------------------------
(***************************************************************************)
(* Theorems of what the system learns, for any processes, markets, hours,  *)
(* artifacts, requests and faults.  Universe: types, and that a closed     *)
(* market is dropped for good; a process that has cleaned up since a       *)
(* market closed knows it as past in every later pass, so only a process   *)
(* that still owes its clean-up can write a row of it.  Cerebro: types,    *)
(* and that promotions are the operator's to decide.  Promotion: types;    *)
(* what the weights in use are; that they come and go as WeightRegister    *)
(* says; and that a request acts once.  Last, with Outcomes, that the four *)
(* together keep their types.                                              *)
(***************************************************************************)
EXTENDS MC_Learning, Outcomes_proofs

-----------------------------------------------------------------------------
(* Universe.                                                               *)

Contracts == Listings \X Hours

\* what a pass s of process p knows of the markets that are over
Informed(p, s) ==
  /\ s.past \subseteq over
  /\ s.at # "idle" => \A m \in over : p \notin owed[m] => m \in s.past
  /\ \A c \in s.found \cup s.ranked \cup s.todo : c[1] \notin s.past

\* a row of a market that is over is somebody's to clean up
RowsOwed == \A m \in over : (\E r \in rowsOn : r[1] = m) => owed[m] # {}

UniverseInd ==
  /\ UniverseTypeOK /\ open \cap over = {}
  /\ \A p \in Scanners : Informed(p, pass[p])
  /\ RowsOwed

-----------------------------------------------------------------------------
LEMMA NoPassInformed == NoPass \in Passes /\ \A p : Informed(p, NoPass)
BY DEF NoPass, Passes, Informed

LEMMA UniverseInitInd == UniverseInit => UniverseInd
<1> SUFFICES ASSUME UniverseInit PROVE UniverseInd
  OBVIOUS
<1>1. 0 \in Hours
  BY UniverseAssumption DEF Hours
<1>2. UniverseTypeOK
  BY <1>1, NoPassInformed DEF UniverseInit, UniverseTypeOK
<1> QED
  BY <1>2, NoPassInformed DEF UniverseInit, UniverseInd, RowsOwed

-----------------------------------------------------------------------------
(* The exchange and the clock.                                             *)

\* markets that were not over close, and everybody owes them a clean-up
LEMMA ClosingKeepsInd ==
  ASSUME UniverseInd, NEW markets \in SUBSET (Listings \ over), ClosesNow(markets),
         hour' \in Hours, quotes' \in [Contracts -> {"none", "fresh", "stale"}],
         UNCHANGED <<closeAt, moved, eventsOn, rowsOn, settledRows, scans, slips>>
  PROVE  UniverseInd'
<1>1. /\ owed' \in [Listings -> SUBSET Scanners]
      /\ \A m \in markets : owed'[m] = Scanners
      /\ \A m \in over : owed'[m] = owed[m]
  BY DEF UniverseInd, UniverseTypeOK, ClosesNow
<1>2. UniverseTypeOK'
  BY <1>1 DEF UniverseInd, UniverseTypeOK, ClosesNow, scans, Contracts
<1>3. \A p \in Scanners : Informed(p, pass[p])'
  BY <1>1 DEF UniverseInd, UniverseTypeOK, Informed, ClosesNow, scans
<1>4. RowsOwed'
  BY <1>1, UniverseAssumption DEF UniverseInd, RowsOwed, ClosesNow
<1>5. (open \cap over = {})'
  BY DEF UniverseInd, ClosesNow
<1> QED
  BY <1>2, <1>3, <1>4, <1>5 DEF UniverseInd

LEMMA ExchangeKeepsInd ==
  ASSUME UniverseInd,
         \/ HourPasses
         \/ \E m \in Listings : Opens(m) \/ ClosesEarly(m) \/ \E h \in Hours : CloseMoves(m, h)
         \/ \E r \in Rows : Settles(r)
  PROVE  UniverseInd'
<1>1. CASE HourPasses
  <2>1. hour' \in Hours
    BY <1>1, UniverseAssumption DEF HourPasses, UniverseInd, UniverseTypeOK, Hours
  <2>2. quotes' \in [Contracts -> {"none", "fresh", "stale"}]
    BY <1>1 DEF HourPasses, UniverseInd, UniverseTypeOK, Contracts
  <2> QED
    BY <1>1, <2>1, <2>2, ClosingKeepsInd DEF HourPasses
<1>2. ASSUME NEW m \in Listings, Opens(m) PROVE UniverseInd'
  BY <1>2 DEF Opens, Unopened, UniverseInd, UniverseTypeOK, Informed, RowsOwed, tables, scans
<1>3. ASSUME NEW m \in Listings, ClosesEarly(m) PROVE UniverseInd'
  <2>1. {m} \in SUBSET (Listings \ over) /\ ClosesNow({m}) /\ hour' \in Hours
        /\ quotes' \in [Contracts -> {"none", "fresh", "stale"}]
        /\ UNCHANGED <<closeAt, moved, eventsOn, rowsOn, settledRows, scans, slips>>
    BY <1>3 DEF ClosesEarly, UniverseInd, UniverseTypeOK, tables, Contracts
  <2> QED
    BY <2>1, ClosingKeepsInd
<1>4. ASSUME NEW m \in Listings, NEW h \in Hours, CloseMoves(m, h) PROVE UniverseInd'
  BY <1>4 DEF CloseMoves, UniverseInd, UniverseTypeOK, Informed, RowsOwed, tables, scans
<1>5. ASSUME NEW r \in Rows, Settles(r) PROVE UniverseInd'
  BY <1>5 DEF Settles, UniverseInd, UniverseTypeOK, Informed, RowsOwed, exchange, scans
<1> QED
  BY <1>1, <1>2, <1>3, <1>4, <1>5

-----------------------------------------------------------------------------
(* The passes.                                                             *)

\* a pass goes on, informed, and writes rows only of markets it does not know
\* as past
LEMMA PassKeepsInd ==
  ASSUME UniverseInd, NEW p \in Scanners, NEW s \in Passes, pass' = [pass EXCEPT ![p] = s],
         Informed(p, s), UNCHANGED <<exchange, settledRows, owed>>,
         eventsOn' \subseteq Events, rowsOn' \subseteq Rows,
         \A r \in rowsOn' : r \in rowsOn \/ (s.at # "idle" /\ r[1] \notin s.past),
         quotes' \in [Contracts -> {"none", "fresh", "stale"}],
         evaluated' \in [Scanners -> SUBSET Contracts], slips' \in Nat
  PROVE  UniverseInd'
<1>1. /\ pass' \in [Scanners -> Passes] /\ pass'[p] = s
      /\ \A q \in Scanners \ {p} : pass'[q] = pass[q]
  BY DEF UniverseInd, UniverseTypeOK
<1>2. UniverseTypeOK'
  BY <1>1 DEF UniverseInd, UniverseTypeOK, exchange, Contracts
<1>3. \A q \in Scanners : Informed(q, pass[q])'
  BY <1>1 DEF UniverseInd, Informed, exchange
<1>4. RowsOwed'
  BY DEF UniverseInd, RowsOwed, Informed, exchange
<1> QED
  BY <1>2, <1>3, <1>4 DEF UniverseInd, exchange

LEMMA PlaceTyped ==
  ASSUME UniverseInd, NEW p \in Scanners
  PROVE  /\ pass[p] \in Passes /\ Informed(p, pass[p])
         /\ \A at \in {"contracts", "expire", "quotes", "evaluate"} :
              /\ [pass[p] EXCEPT !.at = at] \in Passes
              /\ pass[p].at # "idle" => Informed(p, [pass[p] EXCEPT !.at = at])
<1>1. pass[p] \in Passes /\ Informed(p, pass[p])
  BY DEF UniverseInd, UniverseTypeOK
<1>2. ASSUME NEW at \in {"contracts", "expire", "quotes", "evaluate"}
      PROVE  /\ [pass[p] EXCEPT !.at = at] \in Passes
             /\ pass[p].at # "idle" => Informed(p, [pass[p] EXCEPT !.at = at])
  <2> DEFINE t == [pass[p] EXCEPT !.at = at]
  <2>1. /\ t \in Passes /\ t.at = at /\ t.past = pass[p].past /\ t.found = pass[p].found
        /\ t.ranked = pass[p].ranked /\ t.todo = pass[p].todo
    BY <1>1 DEF Passes
  <2> HIDE DEF t
  <2>2. pass[p].at # "idle" => Informed(p, t)
    BY <1>1, <2>1 DEF Informed
  <2> QED
    BY <2>1, <2>2 DEF t
<1> QED
  BY <1>1, <1>2

LEMMA SlipsTyped == ASSUME UniverseInd, Slip \/ NoSlip PROVE slips' \in Nat
BY UniverseAssumption DEF UniverseInd, UniverseTypeOK, Slip, NoSlip

LEMMA ListingKeepsInd ==
  ASSUME UniverseInd, NEW p \in Scanners,
         \/ BeginPass(p) \/ Disconnected(p) \/ ListingBreaks(p)
         \/ \E s \in AllSeries : ListSeries(p, s) \/ SeriesSkipped(p, s)
  PROVE  UniverseInd'
<1>1. pass[p] \in Passes /\ Informed(p, pass[p]) /\ open \subseteq Listings /\ over \subseteq Listings
      /\ open \cap over = {} /\ closeAt \in [Listings -> Hours]
  BY PlaceTyped DEF UniverseInd, UniverseTypeOK
<1>2. /\ eventsOn \subseteq Events /\ rowsOn \subseteq Rows
      /\ quotes \in [Contracts -> {"none", "fresh", "stale"}]
      /\ evaluated \in [Scanners -> SUBSET Contracts] /\ slips \in Nat
      /\ [evaluated EXCEPT ![p] = {}] \in [Scanners -> SUBSET Contracts]
  BY DEF UniverseInd, UniverseTypeOK, Contracts
<1>3. CASE BeginPass(p)
  <2> DEFINE s == [NoPass EXCEPT !.at = "list", !.series = AllSeries, !.past = over]
  <2>1. s \in Passes /\ Informed(p, s)
    BY <1>1, NoPassInformed DEF Passes, NoPass, Informed
  <2>2. pass' = [pass EXCEPT ![p] = s]
        /\ UNCHANGED <<exchange, settledRows, owed, eventsOn, rowsOn, quotes, slips>>
        /\ evaluated' = [evaluated EXCEPT ![p] = {}]
    BY <1>3 DEF BeginPass, tables
  <2> HIDE DEF s
  <2> QED
    BY <1>2, <2>1, <2>2, PassKeepsInd
<1>4. CASE Disconnected(p)
  <2>1. pass' = [pass EXCEPT ![p] = pass[p]]
    BY <1>4 DEF Disconnected, UniverseInd, UniverseTypeOK
  <2>2. /\ UNCHANGED <<exchange, settledRows, owed, eventsOn, quotes>> /\ rowsOn' \subseteq rowsOn
        /\ evaluated' = [evaluated EXCEPT ![p] = {}] /\ slips' \in Nat
    BY <1>4, SlipsTyped DEF Disconnected, Unexpired
  <2> QED
    BY <1>1, <1>2, <2>1, <2>2, PassKeepsInd
<1>5. ASSUME NEW s \in AllSeries, ListSeries(p, s) PROVE UniverseInd'
  <2> DEFINE found == pass[p].found \cup {<<m, closeAt[m]>> : m \in open \cap InSeries(s)}
             stubs == pass[p].stubs \cup {EventOf[m] : m \in Unopened \cap InSeries(s)}
             t == [pass[p] EXCEPT !.series = @ \ {s}, !.found = found, !.stubs = stubs]
  <2>1. found \subseteq Contracts /\ stubs \subseteq Events
    BY <1>1 DEF Passes, Contracts, Events, Unopened
  <2>2. \A c \in found : c[1] \notin pass[p].past
    BY <1>1 DEF Informed
  <2> HIDE DEF found, stubs
  <2>3. t \in Passes /\ Informed(p, t)
    BY <1>1, <2>1, <2>2 DEF Passes, Informed, Contracts
  <2>4. pass' = [pass EXCEPT ![p] = t]
        /\ UNCHANGED <<exchange, settledRows, owed, eventsOn, rowsOn, quotes, evaluated, slips>>
    BY <1>5 DEF ListSeries, tables, found, stubs, UniverseInd, UniverseTypeOK
  <2> HIDE DEF t
  <2> QED
    BY <1>2, <2>3, <2>4, PassKeepsInd
<1>6. ASSUME NEW left \in SUBSET pass[p].series, pass' = [pass EXCEPT ![p].series = left], Slip,
             UNCHANGED <<exchange, tables, evaluated, owed>>
      PROVE  UniverseInd'
  <2> DEFINE t == [pass[p] EXCEPT !.series = left]
  <2>1. t \in Passes /\ Informed(p, t)
    BY <1>1 DEF Passes, Informed
  <2>2. pass' = [pass EXCEPT ![p] = t] /\ slips' \in Nat
    BY <1>6, SlipsTyped DEF UniverseInd, UniverseTypeOK
  <2> HIDE DEF t
  <2> QED
    BY <1>2, <1>6, <2>1, <2>2, PassKeepsInd DEF tables
<1>7. ASSUME NEW s \in AllSeries, SeriesSkipped(p, s) PROVE UniverseInd'
  <2>1. pass' = [pass EXCEPT ![p].series = pass[p].series \ {s}]
    BY <1>7 DEF SeriesSkipped, UniverseInd, UniverseTypeOK
  <2>2. pass[p].series \ {s} \in SUBSET pass[p].series
    OBVIOUS
  <2> QED
    BY <1>6, <1>7, <2>1, <2>2 DEF SeriesSkipped
<1>8. CASE ListingBreaks(p)
  <2>1. {} \in SUBSET pass[p].series
    OBVIOUS
  <2> QED
    BY <1>6, <1>8, <2>1 DEF ListingBreaks
<1> QED
  BY <1>3, <1>4, <1>5, <1>7, <1>8

LEMMA PersistingKeepsInd ==
  ASSUME UniverseInd, NEW p \in Scanners,
         \/ Rank(p)
         \/ \E c \in pass[p].todo, sides \in SUBSET Rights : Persist(p, c, sides)
  PROVE  UniverseInd'
<1>1. pass[p] \in Passes /\ Informed(p, pass[p])
  BY PlaceTyped
<1>2. /\ eventsOn \subseteq Events /\ rowsOn \subseteq Rows
      /\ quotes \in [Contracts -> {"none", "fresh", "stale"}]
      /\ evaluated \in [Scanners -> SUBSET Contracts]
  BY DEF UniverseInd, UniverseTypeOK, Contracts
<1>3. CASE Rank(p)
  <2> DEFINE ranked == {c \in pass[p].found : InWindow(c[2])}
             t == [pass[p] EXCEPT !.at = "persist", !.ranked = ranked, !.todo = ranked]
  <2>1. ranked \subseteq pass[p].found
    OBVIOUS
  <2> HIDE DEF ranked
  <2>2. t \in Passes /\ Informed(p, t)
    BY <1>1, <1>3, <2>1 DEF Passes, Informed, Rank
  <2>3. pass' = [pass EXCEPT ![p] = t] /\ UNCHANGED <<exchange, settledRows, owed, rowsOn, quotes, evaluated>>
    BY <1>3 DEF Rank, ranked, UniverseInd, UniverseTypeOK
  <2>4. eventsOn' \subseteq Events /\ slips' \in Nat
    BY <1>1, <1>2, <1>3, SlipsTyped DEF Rank, Passes
  <2> HIDE DEF t
  <2> QED
    BY <1>2, <2>2, <2>3, <2>4, PassKeepsInd
<1>4. ASSUME NEW c \in pass[p].todo, NEW sides \in SUBSET Rights, Persist(p, c, sides) PROVE UniverseInd'
  <2> DEFINE t == [pass[p] EXCEPT !.todo = @ \ {c}]
  <2>1. c \in Contracts /\ c[1] \notin pass[p].past /\ c[1] \in Listings /\ c[2] \in Hours
    BY <1>1 DEF Passes, Informed, Contracts
  <2>2. t \in Passes /\ Informed(p, t) /\ t.at # "idle" /\ t.past = pass[p].past
    BY <1>1, <1>4 DEF Passes, Informed, Persist
  <2>3. pass' = [pass EXCEPT ![p] = t] /\ UNCHANGED <<exchange, settledRows, owed, quotes, evaluated>>
    BY <1>4 DEF Persist, UniverseInd, UniverseTypeOK
  <2>4. eventsOn' \subseteq Events
    BY <1>2, <1>4, <2>1 DEF Persist, Events, EventUpserted
  <2>5. slips' \in Nat
    BY <1>4, SlipsTyped DEF Persist
  <2>6. Written(c, sides) \subseteq Rows /\ \A r \in Written(c, sides) : r[1] = c[1]
    BY <2>1 DEF Written, Rows
  <2>7. rowsOn' = rowsOn \cup Written(c, sides)
    BY <1>4 DEF Persist
  <2> HIDE DEF t
  <2> QED
    BY <1>2, <2>1, <2>2, <2>3, <2>4, <2>5, <2>6, <2>7, PassKeepsInd
<1> QED
  BY <1>3, <1>4

\* who cleans up takes every row of a market that was over when it began
LEMMA CleaningKeepsInd ==
  ASSUME UniverseInd, NEW p \in Scanners, CleanContracts(p)
  PROVE  UniverseInd'
<1> DEFINE t == [pass[p] EXCEPT !.at = "expire"]
<1>1. pass[p] \in Passes /\ Informed(p, pass[p]) /\ t \in Passes /\ Informed(p, t)
  BY PlaceTyped DEF CleanContracts
<1>2. /\ pass' = [pass EXCEPT ![p] = t] /\ rowsOn' = Kept(p)
      /\ UNCHANGED <<exchange, eventsOn, settledRows, quotes, evaluated, slips>>
  BY DEF CleanContracts, GoTo, UniverseInd, UniverseTypeOK
<1>3. /\ owed' \in [Listings -> SUBSET Scanners]
      /\ \A m \in Listings : owed'[m] = IF m \in pass[p].past THEN owed[m] \ {p} ELSE owed[m]
  BY DEF CleanContracts, UniverseInd, UniverseTypeOK
<1>4. /\ pass' \in [Scanners -> Passes] /\ pass'[p] = t
      /\ \A q \in Scanners \ {p} : pass'[q] = pass[q]
  BY <1>1, <1>2 DEF UniverseInd, UniverseTypeOK
<1>5. t.past = pass[p].past /\ t.found = pass[p].found /\ t.ranked = pass[p].ranked
      /\ t.todo = pass[p].todo /\ t.at = "expire"
  BY <1>1 DEF Passes
<1> HIDE DEF t
<1>6. \A r \in Kept(p) : r \in rowsOn /\ r[1] \notin pass[p].past
  BY <1>1 DEF Kept, SeenMarkets, Informed
<1>7. UniverseTypeOK'
  BY <1>2, <1>3, <1>4, <1>6 DEF UniverseInd, UniverseTypeOK, exchange
<1>8. \A q \in Scanners : Informed(q, pass[q])'
  <2> TAKE q \in Scanners
  <2>1. over \subseteq Listings /\ over' = over
    BY <1>2 DEF UniverseInd, UniverseTypeOK, exchange
  <2>2. CASE q = p
    BY <1>1, <1>3, <1>4, <1>5, <2>1, <2>2 DEF Informed
  <2>3. CASE q # p
    BY <1>3, <1>4, <2>1, <2>3 DEF UniverseInd, Informed
  <2> QED
    BY <2>2, <2>3
<1>9. RowsOwed'
  BY <1>2, <1>3, <1>6 DEF UniverseInd, UniverseTypeOK, RowsOwed, exchange
<1> QED
  BY <1>2, <1>7, <1>8, <1>9 DEF UniverseInd, exchange

LEMMA RestOfPassKeepsInd ==
  ASSUME UniverseInd, NEW p \in Scanners,
         \/ CleanEvents(p) \/ NotCleaned(p) \/ ExpireRows(p) \/ EvaluateMarkets(p) \/ NoEntries(p)
         \/ \E answered \in Replies : PollQuotes(p, answered)
  PROVE  UniverseInd'
<1>1. /\ eventsOn \subseteq Events /\ rowsOn \subseteq Rows
      /\ quotes \in [Contracts -> {"none", "fresh", "stale"}]
      /\ evaluated \in [Scanners -> SUBSET Contracts] /\ slips \in Nat
  BY DEF UniverseInd, UniverseTypeOK, Contracts
<1>2. CASE CleanEvents(p)
  <2>1. pass' = [pass EXCEPT ![p] = [pass[p] EXCEPT !.at = "contracts"]] /\ pass[p].at # "idle"
    BY <1>2 DEF CleanEvents, GoTo, Persisted, UniverseInd, UniverseTypeOK
  <2> QED
    BY <1>1, <1>2, <2>1, PlaceTyped, PassKeepsInd DEF CleanEvents
<1>3. CASE NotCleaned(p)
  <2>1. pass' = [pass EXCEPT ![p] = [pass[p] EXCEPT !.at = "expire"]] /\ pass[p].at # "idle"
    BY <1>3 DEF NotCleaned, GoTo, Persisted, UniverseInd, UniverseTypeOK
  <2>2. slips' \in Nat
    BY <1>3, SlipsTyped DEF NotCleaned
  <2> QED
    BY <1>1, <1>3, <2>1, <2>2, PlaceTyped, PassKeepsInd DEF NotCleaned, tables
<1>4. CASE ExpireRows(p)
  <2>1. pass' = [pass EXCEPT ![p] = [pass[p] EXCEPT !.at = "quotes"]] /\ pass[p].at # "idle"
    BY <1>4 DEF ExpireRows, GoTo, UniverseInd, UniverseTypeOK
  <2>2. rowsOn' \subseteq rowsOn
    BY <1>4 DEF ExpireRows, Unexpired
  <2> QED
    BY <1>1, <1>4, <2>1, <2>2, PlaceTyped, PassKeepsInd DEF ExpireRows
<1>5. ASSUME NEW answered \in Replies, PollQuotes(p, answered) PROVE UniverseInd'
  <2>1. pass' = [pass EXCEPT ![p] = [pass[p] EXCEPT !.at = "evaluate"]] /\ pass[p].at # "idle"
    BY <1>5 DEF PollQuotes, GoTo, UniverseInd, UniverseTypeOK
  <2>2. quotes' \in [Contracts -> {"none", "fresh", "stale"}]
    BY <1>1, <1>5 DEF PollQuotes, Quoted
  <2>3. slips' \in Nat
    BY <1>5, SlipsTyped DEF PollQuotes
  <2> QED
    BY <1>1, <1>5, <2>1, <2>2, <2>3, PlaceTyped, PassKeepsInd DEF PollQuotes
<1>6. CASE EvaluateMarkets(p)
  <2>1. Evaluable \subseteq Contracts
    BY DEF Evaluable, Snapshots, ActiveContracts, Contracts
  <2>2. evaluated' \in [Scanners -> SUBSET Contracts]
    BY <1>1, <1>6, <2>1 DEF EvaluateMarkets
  <2> QED
    BY <1>1, <1>6, <2>2, NoPassInformed, PassKeepsInd DEF EvaluateMarkets, tables
<1>7. CASE NoEntries(p)
  BY <1>1, <1>7, SlipsTyped, NoPassInformed, PassKeepsInd DEF NoEntries, tables
<1> QED
  BY <1>2, <1>3, <1>4, <1>5, <1>6, <1>7

-----------------------------------------------------------------------------
LEMMA UniverseStepInd == UniverseInd /\ [UniverseNext]_universeVars => UniverseInd'
<1> SUFFICES ASSUME UniverseInd, [UniverseNext]_universeVars PROVE UniverseInd'
  OBVIOUS
<1>1. ASSUME NEW p \in Scanners,
             \/ PassOn(p) \/ Disconnected(p) \/ ListingBreaks(p) \/ NoEntries(p)
             \/ \E s \in AllSeries : SeriesSkipped(p, s)
             \/ \E c \in pass[p].todo, sides \in SUBSET Rights : Persist(p, c, sides)
             \/ \E answered \in Replies : PollQuotes(p, answered)
      PROVE  UniverseInd'
  BY <1>1, ListingKeepsInd, PersistingKeepsInd, CleaningKeepsInd, RestOfPassKeepsInd
  DEF PassOn, Replies
<1>2. CASE UNCHANGED universeVars
  BY <1>2 DEF universeVars, exchange, tables, scans, UniverseInd, UniverseTypeOK, Informed, RowsOwed
<1> QED
  BY <1>1, <1>2, ExchangeKeepsInd DEF UniverseNext

THEOREM UniverseInvariant == UniverseSpec => []UniverseInd
BY UniverseInitInd, UniverseStepInd, PTL DEF UniverseSpec

\* Markets, tables and passes keep their types.
THEOREM UniverseTypes == UniverseSpec => []UniverseTypeOK
<1>1. UniverseInd => UniverseTypeOK
  BY DEF UniverseInd
<1> QED
  BY <1>1, UniverseInvariant, PTL

\* With any number of processes, markets and faults, a market that has closed is
\* dropped by the clean-ups begun since, and stays dropped (discovery.py:262).
THEOREM ClosedStaysDropped == UniverseSpec => []ClosedIsDropped
<1>1. UniverseInd => ClosedIsDropped
  BY DEF UniverseInd, RowsOwed, ClosedIsDropped
<1> QED
  BY <1>1, UniverseInvariant, PTL

-----------------------------------------------------------------------------
(* Cerebro.                                                                *)

CyclePlaces == {"idle", "insights", "rows", "ask", "asked"}
Statuses == OpenStatuses \cup Completed
Asks == [by : {"cerebro", "agent"}, status : {"pending", "approved", "rejected"}]
\* what a cycle has in hand of some of the experiments
OfSome(V) == UNION {[S -> V] : S \in SUBSET Experiments}
Cycles == [at : CyclePlaces, rows : OfSome(Verdicts), staged : OfSome(Statuses)]

TablesOK ==
  /\ champion \in Challengers \cup {FirstChampion} /\ decided \subseteq Challengers
  /\ threadDeaths \in 0..MaxThreadDeaths
  /\ insight \in [Experiments -> Verdicts \cup {"none"}]
  /\ experiment \in [Experiments -> Statuses \cup {"none"}]
  /\ opened \in Seq(Experiments)
  /\ proposals \in [Challengers -> Seq(Asks)]
CyclesOK == cycle \in [Cyclers -> Cycles]

\* who reigns, and who was refused, is so by the operator's decision
AnswersCount ==
  /\ champion \in Challengers => champion \in decided
  /\ \A a \in Challengers : \A i \in DOMAIN proposals[a] :
       proposals[a][i].status = "rejected" => a \in decided

\* what an experiment may say of a challenger, and when
Justified(e, status) ==
  e \in Challengers => /\ status = "ACTION_PENDING" => proposals[e] # <<>>
                       /\ status = "COMPLETED_CONFIRMED" => e \in decided
ExperimentsJustified ==
  \A e \in Experiments : /\ Justified(e, experiment[e])
                         /\ experiment[e] # "none" => insight[e] # "none"

\* a cycle works on experiments there are, and its updates would be as justified;
\* the one it has asked for has a request
CycleJustified(c) ==
  /\ \A e \in DOMAIN cycle[c].rows : experiment[e] # "none"
  /\ \A e \in DOMAIN cycle[c].staged :
       experiment[e] # "none" /\ Justified(e, cycle[c].staged[e])
  /\ cycle[c].at = "asked" => \A e \in Challengers : Ahead(c, e) => proposals[e] # <<>>
CyclesJustified == \A c \in Cyclers : CycleJustified(c)

CerebroInd ==
  TablesOK /\ CyclesOK /\ AnswersCount /\ ExperimentsJustified /\ CyclesJustified

LEMMA NoRowsTyped == NoCycle \in Cycles /\ DOMAIN NoRows = {} /\ NoCycle.rows = NoRows
                     /\ NoCycle.staged = NoRows /\ NoCycle.at = "idle"
<1>1. \A V : NoRows \in [{} -> V]
  BY DEF NoRows
<1>2. \A V : NoRows \in OfSome(V)
  BY <1>1 DEF OfSome
<1> QED
  BY <1>2 DEF NoCycle, Cycles, CyclePlaces, NoRows

LEMMA SomeTyped ==
  ASSUME NEW V, NEW f \in OfSome(V)
  PROVE  DOMAIN f \subseteq Experiments /\ \A e \in DOMAIN f : f[e] \in V
BY DEF OfSome

LEMMA CerebroInitInd == CerebroInit => CerebroInd
<1> SUFFICES ASSUME CerebroInit PROVE CerebroInd
  OBVIOUS
<1>1. TablesOK
  <2>1. <<>> \in Seq(Experiments) /\ <<>> \in Seq(Asks) /\ 0 \in 0..MaxThreadDeaths
    BY CerebroAssumption
  <2> QED
    BY <2>1 DEF CerebroInit, TablesOK
<1>2. CyclesOK /\ CyclesJustified
  BY NoRowsTyped DEF CerebroInit, CyclesOK, CyclesJustified, CycleJustified
<1>3. AnswersCount /\ ExperimentsJustified
  BY CerebroAssumption DEF CerebroInit, AnswersCount, ExperimentsJustified, Justified
<1> QED
  BY <1>1, <1>2, <1>3 DEF CerebroInd

\* the experiment that is ahead, there is one
LEMMA OneIsAhead ==
  ASSUME TablesOK, NEW c \in Cyclers, NEW e, NEW f, Ahead(c, e), Ahead(c, f)
  PROVE  e = f
<1>1. PICK i \in DOMAIN opened : opened[i] = e /\
        \A k \in 1..(i - 1) : opened[k] \notin DOMAIN cycle[c].rows
  BY DEF Ahead
<1>2. PICK j \in DOMAIN opened : opened[j] = f /\
        \A k \in 1..(j - 1) : opened[k] \notin DOMAIN cycle[c].rows
  BY DEF Ahead
<1>3. /\ e \in DOMAIN cycle[c].rows /\ f \in DOMAIN cycle[c].rows
      /\ i \in 1..Len(opened) /\ j \in 1..Len(opened) /\ Len(opened) \in Nat
  BY DEF Ahead, TablesOK
<1>4. ~(i < j)
  <2>1. i < j => i \in 1..(j - 1)
    BY <1>3
  <2> QED
    BY <1>1, <1>2, <1>3, <2>1
<1>5. ~(j < i)
  <2>1. j < i => j \in 1..(i - 1)
    BY <1>3
  <2> QED
    BY <1>1, <1>2, <1>3, <2>1
<1>6. i = j
  BY <1>3, <1>4, <1>5
<1> QED
  BY <1>1, <1>2, <1>6

\* requests and decisions stand: what they justified stays justified
Stands ==
  /\ decided \subseteq decided'
  /\ \A a \in Challengers : proposals[a] # <<>> => proposals'[a] # <<>>

LEMMA StaysJustified ==
  ASSUME Stands, NEW e, NEW status, Justified(e, status)
  PROVE  Justified(e, status)'
BY DEF Stands, Justified

\* a step that leaves the cycles and the experiments alone
LEMMA CyclesStay ==
  ASSUME CerebroInd, Stands, UNCHANGED <<experiment, opened, cycle>>
  PROVE  CyclesOK' /\ CyclesJustified'
<1> USE DEF CerebroInd
<1>1. CyclesOK'
  BY DEF CyclesOK
<1>2. ASSUME NEW c \in Cyclers PROVE CycleJustified(c)'
  <2>1. \A e : Ahead(c, e)' <=> Ahead(c, e)
    BY DEF Ahead
  <2>2. \A e \in DOMAIN cycle[c].staged : Justified(e, cycle[c].staged[e])'
    BY StaysJustified DEF CyclesJustified, CycleJustified
  <2>3. (\A e \in DOMAIN cycle[c].staged :
           experiment[e] # "none" /\ Justified(e, cycle[c].staged[e]))'
    BY <2>2 DEF CyclesJustified, CycleJustified
  <2>4. cycle[c].at = "asked" => \A e \in Challengers : Ahead(c, e) => proposals[e] # <<>>
    BY DEF CyclesJustified, CycleJustified
  <2>5. (cycle[c].at = "asked" => \A e \in Challengers : Ahead(c, e) => proposals[e] # <<>>)'
    BY <2>1, <2>4 DEF Stands
  <2>6. (\A e \in DOMAIN cycle[c].rows : experiment[e] # "none")'
    BY DEF CyclesJustified, CycleJustified
  <2> QED
    BY <2>3, <2>5, <2>6 DEF CycleJustified
<1> QED
  BY <1>1, <1>2 DEF CyclesJustified

LEMMA InsightsKeep ==
  ASSUME CerebroInd, NEW c \in Cyclers, NEW e \in Experiments, NEW v \in Verdicts,
         Score(c, e, v) \/ Notice(c, e)
  PROVE  CerebroInd'
<1> USE DEF CerebroInd
<1>1. PICK w \in Verdicts : insight' = [insight EXCEPT ![e] = w]
  BY DEF Score, Notice, Verdicts
<1>2. UNCHANGED <<champion, decided, experiment, opened, proposals, cycle, threadDeaths>>
  BY DEF Score, Notice
<1>3. TablesOK'
  BY <1>1, <1>2 DEF TablesOK
<1>4. AnswersCount'
  BY <1>2 DEF AnswersCount
<1>5. ExperimentsJustified'
  <2>1. \A f \in Experiments : insight[f] # "none" => insight'[f] # "none"
    BY <1>1 DEF TablesOK, Verdicts
  <2> QED
    BY <1>2, <2>1 DEF ExperimentsJustified, Justified
<1> QED
  BY <1>2, <1>3, <1>4, <1>5, CyclesStay DEF Stands

LEMMA CreateKeeps ==
  ASSUME CerebroInd, NEW e \in Experiments, CreateExperiment(e)
  PROVE  CerebroInd'
<1> USE DEF CerebroInd
<1>1. /\ insight[e] # "none" /\ experiment[e] = "none"
      /\ experiment' = [experiment EXCEPT ![e] = "APPROVED_FOR_SHADOW"]
      /\ opened' = Append(opened, e)
      /\ UNCHANGED <<champion, decided, insight, proposals, cycle, threadDeaths>>
  BY DEF CreateExperiment
<1>2. /\ experiment'[e] = "APPROVED_FOR_SHADOW"
      /\ \A f \in Experiments : f # e => experiment'[f] = experiment[f]
  BY <1>1 DEF TablesOK
<1>3. TablesOK'
  BY <1>1 DEF TablesOK, Statuses, OpenStatuses
<1>4. AnswersCount'
  BY <1>1 DEF AnswersCount
<1>5. ExperimentsJustified'
  BY <1>1, <1>2 DEF ExperimentsJustified, Justified
<1>6. CyclesOK'
  BY <1>1 DEF CyclesOK
<1>7. ASSUME NEW c \in Cyclers PROVE CycleJustified(c)'
  <2>1. DOMAIN cycle[c].rows \subseteq Experiments /\ CycleJustified(c)
    BY SomeTyped DEF CyclesOK, Cycles, CyclesJustified
  <2>2. e \notin DOMAIN cycle[c].rows
    BY <1>1, <2>1 DEF CycleJustified
  <2>3. ASSUME NEW f \in Challengers, Ahead(c, f)' PROVE Ahead(c, f)
    <3>1. PICK i \in DOMAIN opened' : opened'[i] = f /\
            \A k \in 1..(i - 1) : opened'[k] \notin DOMAIN cycle[c].rows
      BY <1>1, <2>3 DEF Ahead
    <3>2. f \in DOMAIN cycle[c].rows
      BY <1>1, <2>3 DEF Ahead
    <3>3. /\ DOMAIN opened' = 1..(Len(opened) + 1) /\ opened'[Len(opened) + 1] = e
          /\ DOMAIN opened = 1..Len(opened) /\ Len(opened) \in Nat
          /\ \A k \in 1..Len(opened) : opened'[k] = opened[k]
      BY <1>1 DEF TablesOK
    <3>4. i # Len(opened) + 1
      BY <2>2, <3>1, <3>2, <3>3
    <3>5. i \in DOMAIN opened /\ \A k \in 1..(i - 1) : k \in 1..Len(opened)
      BY <3>1, <3>3, <3>4
    <3> QED
      BY <3>1, <3>2, <3>3, <3>5 DEF Ahead
  <2> QED
    BY <1>1, <1>2, <2>1, <2>3 DEF CycleJustified, Justified
<1> QED
  BY <1>3, <1>4, <1>5, <1>6, <1>7 DEF CyclesJustified

\* a request more, and what it pushes out
LEMMA QueueKeeps ==
  ASSUME CerebroInd, NEW a \in Challengers, NEW by \in {"cerebro", "agent"}, Queue(a, by)
  PROVE  /\ proposals' \in [Challengers -> Seq(Asks)] /\ proposals'[a] # <<>>
         /\ \A b \in Challengers : b # a => proposals'[b] = proposals[b]
         /\ \A i \in DOMAIN proposals'[a] :
              proposals'[a][i].status = "rejected" => a \in decided
<1> DEFINE q == proposals[a]
<1>1. q \in Seq(Asks) /\ \A i \in DOMAIN q : q[i].status = "rejected" => a \in decided
  BY DEF CerebroInd, TablesOK, AnswersCount
<1>2. PICK kept : kept = Unsettled(a)
  OBVIOUS
<1>3. kept \in Seq(Asks) /\ \A i \in DOMAIN kept : kept[i].status = "rejected" => a \in decided
  <2>1. CASE kept = q
    BY <1>1, <2>1
  <2>2. CASE kept # q
    <3>1. kept = SubSeq(q, 1, Len(q) - 1) /\ q # <<>>
      BY <1>2, <2>2 DEF Unsettled, Latest
    <3>2. Len(q) \in Nat \ {0} /\ DOMAIN q = 1..Len(q)
      BY <1>1, <3>1
    <3> HIDE DEF q
    <3>3. /\ kept \in Seq(Asks) /\ Len(kept) = Len(q) - 1
          /\ \A i \in 1..(Len(q) - 1) : kept[i] = q[i]
      BY <1>1, <3>1, <3>2
    <3> QED
      BY <1>1, <3>2, <3>3
  <2> QED
    BY <2>1, <2>2
<1>4. PICK ask : ask = Proposal(by)
  OBVIOUS
<1>5. ask \in Asks /\ ask.status # "rejected"
  BY <1>4 DEF Proposal, Asks
<1>6. PICK next : next = Append(kept, ask)
  OBVIOUS
<1>7. /\ next \in Seq(Asks) /\ next # <<>>
      /\ \A i \in DOMAIN next : next[i].status = "rejected" => a \in decided
  BY <1>3, <1>5, <1>6
<1>8. proposals' = [proposals EXCEPT ![a] = next]
  BY <1>2, <1>4, <1>6 DEF Queue
<1> QED
  BY <1>7, <1>8 DEF CerebroInd, TablesOK

LEMMA AgentKeeps ==
  ASSUME CerebroInd, NEW a \in Challengers, AgentProposes(a)
  PROVE  CerebroInd'
<1>1. /\ Queue(a, "agent")
      /\ UNCHANGED <<champion, decided, insight, experiment, opened, cycle, threadDeaths>>
  BY DEF AgentProposes, research
<1>2. /\ proposals' \in [Challengers -> Seq(Asks)] /\ proposals'[a] # <<>>
      /\ \A b \in Challengers : b # a => proposals'[b] = proposals[b]
      /\ \A i \in DOMAIN proposals'[a] : proposals'[a][i].status = "rejected" => a \in decided
  BY <1>1, QueueKeeps
<1>3. Stands
  BY <1>1, <1>2 DEF Stands
<1>4. TablesOK' /\ AnswersCount'
  BY <1>1, <1>2 DEF CerebroInd, TablesOK, AnswersCount
<1>5. ExperimentsJustified'
  BY <1>1, <1>3 DEF CerebroInd, ExperimentsJustified, Justified, Stands
<1> QED
  BY <1>1, <1>3, <1>4, <1>5, CyclesStay DEF CerebroInd

LEMMA AnswerKeeps ==
  ASSUME CerebroInd, NEW a \in Challengers, NEW i \in DOMAIN proposals[a],
         NEW verdict \in {"approved", "rejected"}, NEW promoted \in BOOLEAN,
         Answer(a, i, verdict, promoted)
  PROVE  CerebroInd'
<1> DEFINE q == proposals[a]
<1>1. /\ q \in Seq(Asks) /\ proposals \in [Challengers -> Seq(Asks)]
      /\ \A k \in DOMAIN q : q[k].status = "rejected" => a \in decided
      /\ decided \subseteq Challengers
  BY DEF CerebroInd, TablesOK, AnswersCount
<1>2. /\ UNCHANGED <<insight, experiment, opened, cycle, threadDeaths>>
      /\ champion' = IF promoted THEN a ELSE champion
      /\ decided' = IF promoted \/ verdict = "rejected" THEN decided \cup {a} ELSE decided
  BY DEF Answer, research
<1>3. PICK next : next = AfterAnswer(q, i, verdict)
  OBVIOUS
<1>4. proposals' = [proposals EXCEPT ![a] = next]
  BY <1>3 DEF Answer
<1>5. i \in 1..Len(q) /\ Len(q) \in Nat
  BY <1>1
<1>6. /\ next \in Seq(Asks) /\ next # <<>>
      /\ \A k \in DOMAIN next : next[k].status = "rejected" => a \in decided'
  <2>1. CASE i = Len(q)
    <3>1. next = [q EXCEPT ![i].status = verdict]
      BY <1>3, <2>1 DEF AfterAnswer
    <3>2. PICK r \in Asks : r = q[i]
      BY <1>1, <1>5
    <3>3. PICK n : n = [r EXCEPT !.status = verdict]
      OBVIOUS
    <3>4. n \in Asks /\ n.status = verdict
      BY <3>2, <3>3 DEF Asks
    <3>5. next = [q EXCEPT ![i] = n]
      BY <3>1, <3>2, <3>3
    <3> HIDE DEF q
    <3>6. /\ next \in Seq(Asks) /\ Len(next) = Len(q) /\ DOMAIN next = 1..Len(q)
          /\ next[i] = n /\ \A k \in 1..Len(q) : k # i => next[k] = q[k]
      BY <1>1, <1>5, <3>4, <3>5
    <3>7. next # <<>>
      BY <1>5, <3>6
    <3>8. ASSUME NEW k \in DOMAIN next, next[k].status = "rejected" PROVE a \in decided'
      <4>1. CASE k = i
        BY <1>2, <3>4, <3>6, <3>8, <4>1
      <4>2. CASE k # i
        BY <1>1, <1>2, <3>6, <3>8, <4>2
      <4> QED
        BY <4>1, <4>2
    <3> QED
      BY <3>6, <3>7, <3>8
  <2>2. CASE i # Len(q)
    <3>1. next = SubSeq(q, 1, i - 1) \o SubSeq(q, i + 1, Len(q))
      BY <1>3, <2>2 DEF AfterAnswer
    <3> HIDE DEF q
    <3>2. /\ 1 \in 1..(Len(q) + 1) /\ i - 1 \in (1 - 1)..Len(q)
          /\ i + 1 \in 1..(Len(q) + 1) /\ Len(q) \in ((i + 1) - 1)..Len(q)
      BY <1>5, <2>2
    <3>3. PICK u, v : u = SubSeq(q, 1, i - 1) /\ v = SubSeq(q, i + 1, Len(q))
      OBVIOUS
    <3>4. /\ u \in Seq(Asks) /\ Len(u) = i - 1
          /\ \A k \in 1..(i - 1) : u[k] = q[k]
      BY <1>1, <1>5, <3>2, <3>3
    <3>5. /\ v \in Seq(Asks) /\ Len(v) = Len(q) - i
          /\ \A k \in 1..(Len(q) - i) : v[k] = q[k + i]
      BY <1>1, <1>5, <2>2, <3>2, <3>3
    <3>6. next = u \o v
      BY <3>1, <3>3
    <3>7. /\ next \in Seq(Asks) /\ Len(next) = Len(q) - 1 /\ DOMAIN next = 1..(Len(q) - 1)
          /\ \A k \in 1..(Len(q) - 1) : next[k] = IF k < i THEN q[k] ELSE q[k + 1]
      <4>1. /\ next \in Seq(Asks) /\ Len(next) = Len(u) + Len(v)
            /\ \A k \in 1..(Len(u) + Len(v)) :
                 next[k] = IF k <= Len(u) THEN u[k] ELSE v[k - Len(u)]
        BY <3>4, <3>5, <3>6, ConcatProperties
      <4>2. ASSUME NEW k \in 1..(Len(q) - 1)
            PROVE  next[k] = IF k < i THEN q[k] ELSE q[k + 1]
        <5>1. CASE k < i
          <6>1. k \in 1..(i - 1) /\ k <= Len(u) /\ k \in 1..(Len(u) + Len(v))
            BY <1>5, <3>4, <3>5, <5>1
          <6> QED
            BY <3>4, <4>1, <5>1, <6>1
        <5>2. CASE ~(k < i)
          <6>1. PICK j : j = k - Len(u)
            OBVIOUS
          <6>2. j \in 1..(Len(q) - i) /\ ~(k <= Len(u)) /\ k \in 1..(Len(u) + Len(v))
                /\ j + i = k + 1
            BY <1>5, <3>4, <3>5, <5>2, <6>1
          <6>3. next[k] = v[j] /\ v[j] = q[j + i]
            BY <3>5, <4>1, <6>1, <6>2
          <6> QED
            BY <5>2, <6>2, <6>3
        <5> QED
          BY <5>1, <5>2
      <4> QED
        BY <1>5, <3>4, <3>5, <4>1, <4>2
    <3>8. next # <<>>
      BY <1>5, <2>2, <3>7
    <3>9. ASSUME NEW k \in DOMAIN next, next[k].status = "rejected" PROVE a \in decided'
      <4>1. PICK j \in DOMAIN q : next[k] = q[j]
        <5>1. k \in 1..Len(q) /\ k + 1 \in 1..Len(q)
          BY <1>5, <3>7
        <5> QED
          BY <1>1, <3>7, <5>1
      <4> QED
        BY <1>1, <1>2, <3>9, <4>1
    <3> QED
      BY <3>7, <3>8, <3>9
  <2> QED
    BY <2>1, <2>2
<1> HIDE DEF q
<1>7. /\ proposals' \in [Challengers -> Seq(Asks)] /\ proposals'[a] = next
      /\ \A b \in Challengers : b # a => proposals'[b] = proposals[b]
  BY <1>1, <1>4, <1>6
<1>8. Stands
  BY <1>2, <1>6, <1>7 DEF Stands
<1>9. TablesOK'
  BY <1>2, <1>7 DEF CerebroInd, TablesOK
<1>10. AnswersCount'
  <2>1. champion' \in Challengers => champion' \in decided'
    BY <1>2 DEF CerebroInd, AnswersCount
  <2>2. ASSUME NEW b \in Challengers, NEW k \in DOMAIN proposals'[b],
               proposals'[b][k].status = "rejected"
        PROVE  b \in decided'
    BY <1>2, <1>6, <1>7, <2>2 DEF CerebroInd, AnswersCount
  <2> QED
    BY <2>1, <2>2 DEF AnswersCount
<1>11. ExperimentsJustified'
  BY <1>2, <1>8 DEF CerebroInd, ExperimentsJustified, Justified, Stands
<1> QED
  BY <1>2, <1>8, <1>9, <1>10, <1>11, CyclesStay DEF CerebroInd

-----------------------------------------------------------------------------
\* a thread goes on alone: what it now has in hand is justified
LEMMA CycleMoves ==
  ASSUME CerebroInd, NEW c \in Cyclers, NEW n \in Cycles, cycle' = [cycle EXCEPT ![c] = n],
         UNCHANGED <<champion, decided, insight, experiment, opened, proposals>>,
         threadDeaths' \in 0..MaxThreadDeaths,
         \A e \in DOMAIN n.rows : experiment[e] # "none",
         \A e \in DOMAIN n.staged : experiment[e] # "none" /\ Justified(e, n.staged[e]),
         n.at = "asked" => n.rows = cycle[c].rows /\
                           \A e \in Challengers : Ahead(c, e) => proposals[e] # <<>>
  PROVE  CerebroInd'
<1> USE DEF CerebroInd
<1>1. CyclesOK' /\ cycle'[c] = n /\ \A d \in Cyclers : d # c => cycle'[d] = cycle[d]
  BY DEF CyclesOK
<1>2. TablesOK' /\ AnswersCount' /\ ExperimentsJustified'
  BY DEF TablesOK, AnswersCount, ExperimentsJustified, Justified
<1>3. ASSUME NEW d \in Cyclers PROVE CycleJustified(d)'
  <2>1. CASE d # c
    <3>1. CycleJustified(d) /\ cycle'[d] = cycle[d]
      BY <1>1, <2>1 DEF CyclesJustified
    <3>2. \A e : Ahead(d, e)' <=> Ahead(d, e)
      BY <3>1 DEF Ahead
    <3> QED
      BY <3>1, <3>2 DEF CycleJustified, Justified
  <2>2. CASE d = c
    <3>1. ASSUME n.at = "asked", NEW e \in Challengers, Ahead(c, e)' PROVE proposals'[e] # <<>>
      <4>1. Ahead(c, e)
        BY <1>1, <3>1 DEF Ahead
      <4> QED
        BY <3>1, <4>1
    <3> QED
      BY <1>1, <2>2, <3>1 DEF CycleJustified, Justified
  <2> QED
    BY <2>1, <2>2
<1> QED
  BY <1>1, <1>2, <1>3 DEF CyclesJustified

LEMMA CycleOf ==
  ASSUME CerebroInd, NEW c \in Cyclers
  PROVE  /\ cycle \in [Cyclers -> Cycles] /\ cycle[c] \in Cycles /\ CycleJustified(c)
         /\ DOMAIN cycle[c].rows \subseteq Experiments
         /\ \A e \in DOMAIN cycle[c].rows : cycle[c].rows[e] \in Verdicts
         /\ DOMAIN cycle[c].staged \subseteq Experiments
         /\ \A e \in DOMAIN cycle[c].staged : cycle[c].staged[e] \in Statuses
<1>1. cycle \in [Cyclers -> Cycles] /\ cycle[c] \in Cycles /\ CycleJustified(c)
  BY DEF CerebroInd, CyclesOK, CyclesJustified
<1>2. cycle[c].rows \in OfSome(Verdicts) /\ cycle[c].staged \in OfSome(Statuses)
  BY <1>1 DEF Cycles
<1> QED
  BY <1>1, <1>2, SomeTyped

LEMMA RestKeeps ==
  ASSUME CerebroInd, NEW c \in Cyclers,
         BeginCycle(c) \/ LockedOut(c) \/ CyclerDies(c) \/ BeginProcessing(c)
  PROVE  CerebroInd'
<1>1. UNCHANGED <<champion, decided, insight, experiment, opened, proposals>>
  BY DEF BeginCycle, LockedOut, CyclerDies, BeginProcessing, research
<1>2. threadDeaths' \in 0..MaxThreadDeaths /\ threadDeaths \in 0..MaxThreadDeaths
  BY CerebroAssumption DEF BeginCycle, LockedOut, CyclerDies, BeginProcessing, CerebroInd,
     TablesOK
<1>3. CASE BeginCycle(c)
  <2>1. PICK n : n = [cycle[c] EXCEPT !.at = "insights"]
    OBVIOUS
  <2>2. n \in Cycles /\ n.at = "insights" /\ n.rows = cycle[c].rows
        /\ n.staged = cycle[c].staged
    BY <2>1, CycleOf DEF Cycles, CyclePlaces
  <2>3. cycle' = [cycle EXCEPT ![c] = n]
    BY <1>3, <2>1, CycleOf DEF BeginCycle
  <2> QED
    BY <1>1, <1>2, <2>2, <2>3, CycleOf, CycleMoves DEF CycleJustified
<1>4. CASE LockedOut(c) \/ CyclerDies(c)
  <2>1. cycle' = [cycle EXCEPT ![c] = NoCycle]
    BY <1>4 DEF LockedOut, CyclerDies
  <2> QED
    BY <1>1, <1>2, <2>1, NoRowsTyped, CycleMoves
<1>5. CASE BeginProcessing(c)
  <2>1. PICK rows : rows = [e \in OpenExperiments |-> insight[e]]
    OBVIOUS
  <2>2. PICK n : n = [at |-> "rows", rows |-> rows, staged |-> NoRows]
    OBVIOUS
  <2>3. DOMAIN rows = OpenExperiments /\ \A e \in OpenExperiments : experiment[e] # "none"
    BY <2>1 DEF OpenExperiments, OpenStatuses
  <2>4. rows \in OfSome(Verdicts)
    <3>1. \A e \in OpenExperiments : insight[e] \in Verdicts
      BY <2>3 DEF CerebroInd, TablesOK, ExperimentsJustified, OpenExperiments
    <3>2. rows \in [OpenExperiments -> Verdicts] /\ OpenExperiments \in SUBSET Experiments
      BY <2>1, <3>1 DEF OpenExperiments
    <3> QED
      BY <3>2 DEF OfSome
  <2>5. n \in Cycles /\ n.at = "rows" /\ n.rows = rows /\ n.staged = NoRows
    BY <2>2, <2>4, NoRowsTyped DEF Cycles, CyclePlaces, NoCycle
  <2>6. cycle' = [cycle EXCEPT ![c] = n]
    BY <1>5, <2>1, <2>2 DEF BeginProcessing
  <2> QED
    BY <1>1, <1>2, <2>3, <2>5, <2>6, NoRowsTyped, CycleMoves
<1> QED
  BY <1>3, <1>4, <1>5

LEMMA StageKeeps ==
  ASSUME CerebroInd, NEW c \in Cyclers, NEW e \in Experiments, NEW status \in Statuses,
         Stage(c, e, status), experiment[e] # "none", Justified(e, status),
         UNCHANGED <<champion, decided, insight, experiment, opened, proposals, threadDeaths>>
  PROVE  CerebroInd'
<1> DEFINE old == cycle[c]
<1>1. PICK rows : rows = [f \in DOMAIN old.rows \ {e} |-> old.rows[f]]
  OBVIOUS
<1>2. PICK staged : staged = [f \in DOMAIN old.staged \cup {e} |->
                                IF f = e THEN status ELSE old.staged[f]]
  OBVIOUS
<1>3. PICK n : n = [at |-> "rows", rows |-> rows, staged |-> staged]
  OBVIOUS
<1>4. cycle' = [cycle EXCEPT ![c] = n]
  BY <1>1, <1>2, <1>3, CycleOf DEF Stage
<1>5. rows \in OfSome(Verdicts)
  <2>1. rows \in [DOMAIN old.rows \ {e} -> Verdicts]
        /\ DOMAIN old.rows \ {e} \in SUBSET Experiments
    BY <1>1, CycleOf
  <2> QED
    BY <2>1 DEF OfSome
<1>6. staged \in OfSome(Statuses)
  <2>1. staged \in [DOMAIN old.staged \cup {e} -> Statuses]
        /\ DOMAIN old.staged \cup {e} \in SUBSET Experiments
    BY <1>2, CycleOf
  <2> QED
    BY <2>1 DEF OfSome
<1>7. n \in Cycles /\ n.at = "rows" /\ n.rows = rows /\ n.staged = staged
  BY <1>3, <1>5, <1>6 DEF Cycles, CyclePlaces
<1>8. \A f \in DOMAIN rows : experiment[f] # "none"
  BY <1>1, CycleOf DEF CycleJustified
<1>9. \A f \in DOMAIN staged : experiment[f] # "none" /\ Justified(f, staged[f])
  BY <1>2, CycleOf DEF CycleJustified
<1>10. threadDeaths' \in 0..MaxThreadDeaths
  BY DEF CerebroInd, TablesOK
<1> HIDE DEF old
<1> QED
  BY <1>4, <1>7, <1>8, <1>9, <1>10, CycleMoves

LEMMA PlaceKeeps ==
  ASSUME CerebroInd, NEW c \in Cyclers, NEW place \in CyclePlaces,
         cycle' = [cycle EXCEPT ![c].at = place],
         UNCHANGED <<champion, decided, insight, experiment, opened, proposals, threadDeaths>>,
         place = "asked" => \A e \in Challengers : Ahead(c, e) => proposals[e] # <<>>
  PROVE  CerebroInd'
<1>1. PICK n : n = [cycle[c] EXCEPT !.at = place]
  OBVIOUS
<1>2. n \in Cycles /\ n.at = place /\ n.rows = cycle[c].rows /\ n.staged = cycle[c].staged
  BY <1>1, CycleOf DEF Cycles
<1>3. cycle' = [cycle EXCEPT ![c] = n]
  BY <1>1, CycleOf
<1>4. threadDeaths' \in 0..MaxThreadDeaths
  BY DEF CerebroInd, TablesOK
<1> QED
  BY <1>2, <1>3, <1>4, CycleOf, CycleMoves DEF CycleJustified

\* what was proposed before is among the requests
LEMMA ProposedIsThere ==
  ASSUME CerebroInd, NEW e \in Challengers, ProposedBefore(e)
  PROVE  proposals[e] # <<>>
<1>1. \E i : i \in DOMAIN proposals[e]
  BY DEF ProposedBefore
<1> QED
  BY <1>1

LEMMA ProcessRowKeeps ==
  ASSUME CerebroInd, NEW c \in Cyclers, NEW e \in Experiments, ProcessRow(c, e)
  PROVE  CerebroInd'
<1>1. /\ cycle[c].at = "rows" /\ Ahead(c, e) /\ e \in DOMAIN cycle[c].rows
      /\ UNCHANGED <<champion, decided, insight, experiment, opened, proposals, threadDeaths>>
  BY DEF ProcessRow, Ahead, research
<1>2. PICK verdict \in Verdicts : verdict = cycle[c].rows[e]
  BY <1>1, CycleOf
<1>3. CASE MustAsk(e, verdict)
  <2>1. PICK place : place = IF ProposedBefore(e) THEN "asked" ELSE "ask"
    OBVIOUS
  <2>2. cycle' = [cycle EXCEPT ![c].at = place] /\ place \in CyclePlaces
    BY <1>2, <1>3, <2>1 DEF ProcessRow, CyclePlaces
  <2>3. ASSUME place = "asked", NEW f \in Challengers, Ahead(c, f) PROVE proposals[f] # <<>>
    <3>1. f = e
      BY <1>1, <2>3, OneIsAhead DEF CerebroInd
    <3>2. ProposedBefore(e)
      BY <2>1, <2>3
    <3> QED
      BY <3>1, <3>2, ProposedIsThere
  <2> QED
    BY <1>1, <2>2, <2>3, PlaceKeeps
<1>4. CASE ~MustAsk(e, verdict)
  <2>1. PICK status : status = NextStatus(e, verdict)
    OBVIOUS
  <2>2. Stage(c, e, status)
    BY <1>2, <1>4, <2>1 DEF ProcessRow
  <2>3. status \in Statuses
    BY <2>1 DEF NextStatus, Statuses, OpenStatuses, Completed
  <2>4. Justified(e, status)
    <3>1. ASSUME e \in Challengers, status = "ACTION_PENDING" PROVE proposals[e] # <<>>
      <4>1. Latest(e) = "pending"
        BY <2>1, <3>1 DEF NextStatus
      <4> QED
        BY <4>1 DEF Latest
    <3>2. ASSUME e \in Challengers, status = "COMPLETED_CONFIRMED" PROVE e \in decided
      <4>1. verdict = "CONFIRMED" /\ (e = champion \/ Latest(e) # "pending")
        BY <1>2, <2>1, <3>2 DEF NextStatus, Verdicts
      <4>2. CASE e = champion
        BY <3>2, <4>2 DEF CerebroInd, AnswersCount
      <4>3. CASE e # champion
        <5>1. Latest(e) = "rejected"
          BY <1>4, <3>2, <4>1, <4>3 DEF MustAsk
        <5>2. proposals[e] \in Seq(Asks) /\ proposals[e] # <<>>
              /\ proposals[e][Len(proposals[e])].status = "rejected"
          BY <3>2, <5>1 DEF Latest, CerebroInd, TablesOK
        <5>3. Len(proposals[e]) \in DOMAIN proposals[e]
          BY <5>2
        <5> QED
          BY <3>2, <5>2, <5>3 DEF CerebroInd, AnswersCount
      <4> QED
        BY <4>2, <4>3
    <3> QED
      BY <3>1, <3>2 DEF Justified
  <2> QED
    BY <1>1, <2>2, <2>3, <2>4, CycleOf, StageKeeps DEF CycleJustified
<1> QED
  BY <1>3, <1>4

LEMMA AskKeeps ==
  ASSUME CerebroInd, NEW c \in Cyclers, NEW e \in Challengers,
         Propose(c, e) \/ ProposedAlready(c, e)
  PROVE  CerebroInd'
<1>1. CASE ProposedAlready(c, e)
  <2>1. /\ Ahead(c, e) /\ ProposedBefore(e) /\ cycle' = [cycle EXCEPT ![c].at = "asked"]
        /\ UNCHANGED <<champion, decided, insight, experiment, opened, proposals, threadDeaths>>
    BY <1>1 DEF ProposedAlready, research
  <2>2. \A f \in Challengers : Ahead(c, f) => proposals[f] # <<>>
    BY <2>1, OneIsAhead, ProposedIsThere DEF CerebroInd
  <2> QED
    BY <2>1, <2>2, PlaceKeeps DEF CyclePlaces
<1>2. CASE Propose(c, e)
  <2>1. /\ Ahead(c, e) /\ Queue(e, "cerebro") /\ cycle' = [cycle EXCEPT ![c].at = "asked"]
        /\ UNCHANGED <<champion, decided, insight, experiment, opened, threadDeaths>>
    BY <1>2 DEF Propose, research
  <2>2. /\ proposals' \in [Challengers -> Seq(Asks)] /\ proposals'[e] # <<>>
        /\ \A b \in Challengers : b # e => proposals'[b] = proposals[b]
        /\ \A i \in DOMAIN proposals'[e] : proposals'[e][i].status = "rejected" => e \in decided
    BY <2>1, QueueKeeps
  <2>3. Stands
    BY <2>1, <2>2 DEF Stands
  <2>4. TablesOK' /\ AnswersCount'
    BY <2>1, <2>2 DEF CerebroInd, TablesOK, AnswersCount
  <2>5. ExperimentsJustified'
    BY <2>1, <2>3 DEF CerebroInd, ExperimentsJustified, Justified, Stands
  <2>6. PICK n : n = [cycle[c] EXCEPT !.at = "asked"]
    OBVIOUS
  <2>7. n \in Cycles /\ n.at = "asked" /\ n.rows = cycle[c].rows /\ n.staged = cycle[c].staged
    BY <2>6, CycleOf DEF Cycles, CyclePlaces
  <2>8. cycle' = [cycle EXCEPT ![c] = n]
    BY <2>1, <2>6, CycleOf
  <2>9. CyclesOK' /\ cycle'[c] = n /\ \A d \in Cyclers : d # c => cycle'[d] = cycle[d]
    BY <2>7, <2>8 DEF CerebroInd, CyclesOK
  <2>10. ASSUME NEW d \in Cyclers PROVE CycleJustified(d)'
    <3>1. /\ cycle'[d].rows = cycle[d].rows /\ cycle'[d].staged = cycle[d].staged
          /\ CycleJustified(d)
      BY <2>7, <2>9, CycleOf
    <3>2. \A f : Ahead(d, f)' <=> Ahead(d, f)
      BY <2>1, <3>1 DEF Ahead
    <3>3. ASSUME NEW f \in Challengers, cycle'[d].at = "asked", Ahead(d, f)
          PROVE  proposals'[f] # <<>>
      <4>1. CASE d = c
        <5>1. f = e
          BY <2>1, <3>3, <4>1, OneIsAhead DEF CerebroInd
        <5> QED
          BY <2>2, <5>1
      <4>2. CASE d # c
        BY <2>3, <2>9, <3>1, <3>3, <4>2 DEF CycleJustified, Stands
      <4> QED
        BY <4>1, <4>2
    <3>4. \A f \in DOMAIN cycle[d].staged : Justified(f, cycle[d].staged[f])'
      BY <2>3, <3>1, StaysJustified DEF CycleJustified
    <3>5. (\A f \in DOMAIN cycle[d].staged :
             experiment[f] # "none" /\ Justified(f, cycle[d].staged[f]))'
      BY <2>1, <3>1, <3>4 DEF CycleJustified, Justified
    <3>6. (\A f \in DOMAIN cycle[d].rows : experiment[f] # "none")'
      BY <2>1, <3>1 DEF CycleJustified
    <3>7. (cycle[d].at = "asked" => \A f \in Challengers : Ahead(d, f) => proposals[f] # <<>>)'
      BY <3>2, <3>3
    <3> QED
      BY <3>5, <3>6, <3>7 DEF CycleJustified
  <2> QED
    BY <2>4, <2>5, <2>9, <2>10 DEF CerebroInd, CyclesJustified
<1> QED
  BY <1>1, <1>2

LEMMA MarkKeeps ==
  ASSUME CerebroInd, NEW c \in Cyclers, NEW e \in Experiments, MarkPending(c, e)
  PROVE  CerebroInd'
<1>1. /\ cycle[c].at = "asked" /\ Ahead(c, e) /\ Stage(c, e, "ACTION_PENDING")
      /\ UNCHANGED <<champion, decided, insight, experiment, opened, proposals, threadDeaths>>
  BY DEF MarkPending, research
<1>2. Justified(e, "ACTION_PENDING")
  BY <1>1, CycleOf DEF CycleJustified, Justified
<1>3. "ACTION_PENDING" \in Statuses /\ experiment[e] # "none"
  BY <1>1, CycleOf DEF Statuses, OpenStatuses, Ahead, CycleJustified
<1> QED
  BY <1>1, <1>2, <1>3, StageKeeps

LEMMA EndKeeps ==
  ASSUME CerebroInd, NEW c \in Cyclers, EndCycle(c)
  PROVE  CerebroInd'
<1>1. /\ UNCHANGED <<champion, decided, insight, opened, proposals, threadDeaths>>
      /\ cycle' = [cycle EXCEPT ![c] = NoCycle]
      /\ experiment' = [e \in Experiments |-> IF e \in DOMAIN cycle[c].staged
                                              THEN cycle[c].staged[e] ELSE experiment[e]]
  BY DEF EndCycle
<1>2. "none" \notin Statuses
  BY DEF Statuses, OpenStatuses, Completed
<1>3. \A e \in Experiments : experiment[e] # "none" => experiment'[e] # "none"
  BY <1>1, <1>2, CycleOf
<1>4. TablesOK' /\ AnswersCount'
  BY <1>1, CycleOf DEF CerebroInd, TablesOK, AnswersCount
<1>5. ExperimentsJustified'
  BY <1>1, CycleOf DEF CerebroInd, ExperimentsJustified, Justified, CycleJustified
<1>6. CyclesOK' /\ cycle'[c] = NoCycle /\ \A d \in Cyclers : d # c => cycle'[d] = cycle[d]
  BY <1>1, NoRowsTyped, CycleOf DEF CyclesOK
<1>7. ASSUME NEW d \in Cyclers PROVE CycleJustified(d)'
  <2>1. CASE d = c
    BY <1>6, <2>1, NoRowsTyped DEF CycleJustified
  <2>2. CASE d # c
    <3>1. CycleJustified(d) /\ cycle'[d] = cycle[d]
          /\ DOMAIN cycle[d].rows \subseteq Experiments
          /\ DOMAIN cycle[d].staged \subseteq Experiments
      BY <1>6, <2>2, CycleOf
    <3>2. \A e : Ahead(d, e)' <=> Ahead(d, e)
      BY <1>1, <3>1 DEF Ahead
    <3> QED
      BY <1>1, <1>3, <3>1, <3>2 DEF CycleJustified, Justified
  <2> QED
    BY <2>1, <2>2
<1> QED
  BY <1>4, <1>5, <1>6, <1>7 DEF CerebroInd, CyclesJustified

LEMMA CerebroStepInd == CerebroInd /\ [CerebroNext]_cerebroVars => CerebroInd'
<1> SUFFICES ASSUME CerebroInd, [CerebroNext]_cerebroVars PROVE CerebroInd'
  OBVIOUS
<1>1. CASE UNCHANGED cerebroVars
  <2>1. UNCHANGED <<champion, decided, insight, experiment, opened, proposals, cycle,
                    threadDeaths>>
    BY <1>1 DEF cerebroVars, research
  <2>2. TablesOK' /\ AnswersCount' /\ ExperimentsJustified'
    BY <2>1 DEF CerebroInd, TablesOK, AnswersCount, ExperimentsJustified, Justified
  <2> QED
    BY <2>1, <2>2, CyclesStay DEF CerebroInd, Stands
<1>2. ASSUME NEW c \in Cyclers, CycleStep(c) \/ CyclerDies(c) PROVE CerebroInd'
  BY <1>2, RestKeeps, EndKeeps, ProcessRowKeeps, MarkKeeps, AskKeeps DEF CycleStep
<1>3. ASSUME NEW a \in Challengers, NEW v \in {"approved", "rejected"},
             NEW promoted \in BOOLEAN, NEW i \in DOMAIN proposals[a],
             Answer(a, i, v, promoted)
      PROVE  CerebroInd'
  BY <1>3, AnswerKeeps
<1>4. ASSUME NEW c \in Cyclers, NEW e \in Experiments, Notice(c, e) PROVE CerebroInd'
  BY <1>4, InsightsKeep DEF Verdicts
<1> QED
  BY <1>1, <1>2, <1>3, <1>4, InsightsKeep, CreateKeeps, AgentKeeps DEF CerebroNext

LEMMA CerebroInvariant == CerebroSpec => []CerebroInd
BY CerebroInitInd, CerebroStepInd, PTL DEF CerebroSpec

LEMMA CerebroIndTypes == CerebroInd => CerebroTypeOK
<1> SUFFICES ASSUME CerebroInd PROVE CerebroTypeOK
  OBVIOUS
<1>1. \A c \in Cyclers : cycle[c].at \in CyclePlaces
  BY CycleOf DEF Cycles
<1> QED
  BY <1>1, CycleOf DEF CerebroInd, TablesOK, CerebroTypeOK, CyclePlaces, Statuses, Asks

(* The tables of the intelligence thread, and what each thread has read of *)
(* them and staged in its open transaction, keep their types: an           *)
(* experiment never takes over a status that is an insight's.              *)
THEOREM CerebroTypes == CerebroSpec => []CerebroTypeOK
BY CerebroIndTypes, CerebroInvariant, PTL

(* process_experiments, in any number of threads that die, lock each other *)
(* out or ask twice: an experiment waits for the operator only with a      *)
(* request before him, and is closed as confirmed only on his decision.    *)
THEOREM PromotionIsTheOperators == CerebroSpec => []OperatorDecides
<1>1. CerebroInd => OperatorDecides
  BY DEF CerebroInd, ExperimentsJustified, Justified, OperatorDecides, Experiments
<1> QED
  BY <1>1, CerebroInvariant, PTL

-----------------------------------------------------------------------------
(* Promotion.                                                              *)

SessionPlaces == {"idle", "execute", "promote", "mark"}
Sessions == [at : SessionPlaces, request : Nat, verdict : {"none", "approved", "rejected"}]
Records == [standing : Standings, passed : BOOLEAN, epoch : 0..MaxEpochs]

\* what a session in a place has done about its request
Sound(r) ==
  LET q == requests[session[r].request] IN
  /\ session[r].at \in {"execute", "promote"} => session[r].verdict = "approved"
  /\ session[r].at = "promote" => q.artifact \in vetted /\ q.runs > 0
SessionsSound == \A r \in Resolvers : Sound(r)

\* the champion: there is one, it was vetted, and a request asked for it
OneChampion == \E m \in Models : Champions = {m}
Asked(m) == \E i \in DOMAIN requests : requests[i].artifact = m /\ requests[i].runs > 0
ChampionVetted == \A m \in Champions : m = Baseline \/ (m \in vetted /\ Asked(m))

\* a request that was neither contested nor interrupted: one session at most is
\* on it, and what has been done about it shows in its status or that session
RunsAs(q, verdict) == q.runs = IF verdict = "approved" THEN 1 ELSE 0
Clean(i) == ~requests[i].contested /\ ~requests[i].interrupted
Alone(i) == \A r, s \in Resolvers : On(r, i) /\ On(s, i) => r = s
Idle(i) == \A r \in Resolvers : ~On(r, i)
Answered(i) == LET q == requests[i] IN
  q.status # "pending" => Idle(i) /\ RunsAs(q, q.status)
Untouched(i) == LET q == requests[i] IN
  q.status = "pending" /\ Idle(i) => q.runs = 0
InProgress(i) == \A r \in Resolvers :
  On(r, i) => IF session[r].at = "execute" THEN requests[i].runs = 0
              ELSE RunsAs(requests[i], session[r].verdict)
Accounted(i) == Clean(i) => Alone(i) /\ Answered(i) /\ Untouched(i) /\ InProgress(i)
RequestsAccounted == \A i \in DOMAIN requests : Accounted(i)

PromotionInd ==
  /\ PromotionTypeOK /\ SessionsSound /\ OneChampion /\ ChampionVetted
  /\ RequestsAccounted

-----------------------------------------------------------------------------
(* Type correctness.                                                       *)

LEMMA RequestTyped ==
  ASSUME PromotionTypeOK
  PROVE  /\ DOMAIN requests = 1..Len(requests) /\ Len(requests) \in Nat
         /\ \A i \in DOMAIN requests : requests[i] \in Requests
BY DEF PromotionTypeOK

\* a table of the same length, with rows, is a table
LEMMA TableTyped ==
  ASSUME PromotionTypeOK, NEW table, DOMAIN table = DOMAIN requests,
         table = [i \in DOMAIN requests |-> table[i]],
         \A i \in DOMAIN requests : table[i] \in Requests
  PROVE  table \in Seq(Requests)
<1>1. table \in [1..Len(requests) -> Requests] /\ Len(requests) \in Nat
  BY RequestTyped
<1> QED
  BY <1>1, SeqDef

LEMMA PromotionInitTyped == PromotionInit => PromotionTypeOK
BY PromotionAssumption
DEF PromotionInit, PromotionTypeOK, Models, Standings, NoSession, Requests

LEMMA PromotionStepTyped == PromotionTypeOK /\ [PromotionNext]_promotionVars => PromotionTypeOK'
<1> SUFFICES ASSUME PromotionTypeOK, [PromotionNext]_promotionVars PROVE PromotionTypeOK'
  OBVIOUS
<1> USE DEF models
<1>1. CASE UNCHANGED promotionVars
  BY <1>1 DEF promotionVars, PromotionTypeOK
<1>2. ASSUME NEW a \in Artifacts, NEW passed \in BOOLEAN, Train(a, passed)
      PROVE  PromotionTypeOK'
  <2>1. model' \in [Models -> Records]
    BY <1>2 DEF Train, PromotionTypeOK, Records, Standings, Models
  <2> QED
    BY <1>2, <2>1 DEF Train, PromotionTypeOK, Records
<1>3. ASSUME NEW a \in Artifacts, RequestChange(a) PROVE PromotionTypeOK'
  <2>1. Request(a) \in Requests
    BY DEF Request, Requests
  <2>2. requests' \in Seq(Requests) /\ DOMAIN requests \subseteq DOMAIN requests'
    BY <1>3, <2>1, AppendProperties DEF RequestChange, PromotionTypeOK
  <2> QED
    BY <1>3, <2>2 DEF RequestChange, PromotionTypeOK
<1>4. ASSUME NEW r \in Resolvers, NEW i \in DOMAIN requests,
             NEW v \in {"approved", "rejected"}, Resolve(r, i, v)
      PROVE  PromotionTypeOK'
  <2>1. requests' = [requests EXCEPT ![i] = [requests[i] EXCEPT !.contested =
                       requests[i].contested \/ \E s \in Resolvers : On(s, i)]]
    BY <1>4 DEF Resolve
  <2>2. [requests[i] EXCEPT !.contested =
           requests[i].contested \/ \E s \in Resolvers : On(s, i)] \in Requests
    BY RequestTyped DEF Requests
  <2>3. requests' \in Seq(Requests) /\ DOMAIN requests' = DOMAIN requests
    BY <2>1, <2>2, RequestTyped, TableTyped
  <2>4. i \in Nat
    BY RequestTyped
  <2>5. session' \in [Resolvers -> Sessions]
    BY <1>4, <2>4 DEF Resolve, PromotionTypeOK, Sessions, SessionPlaces
  <2> QED
    BY <1>4, <2>3, <2>5 DEF Resolve, PromotionTypeOK, Sessions, SessionPlaces
<1>5. ASSUME NEW r \in Resolvers, Execute(r) PROVE PromotionTypeOK'
  <2> DEFINE i == session[r].request
  <2>1. i \in DOMAIN requests /\ requests[i] \in Requests
    BY <1>5, RequestTyped DEF Execute, PromotionTypeOK
  <2>2. requests' = [requests EXCEPT ![i] = [requests[i] EXCEPT !.runs = requests[i].runs + 1]]
    BY <1>5, <2>1 DEF Execute
  <2>3. [requests[i] EXCEPT !.runs = requests[i].runs + 1] \in Requests
    BY <2>1 DEF Requests
  <2>4. requests' \in Seq(Requests) /\ DOMAIN requests' = DOMAIN requests
    BY <2>1, <2>2, <2>3, RequestTyped, TableTyped
  <2>5. vetted' \subseteq Models
    BY <1>5, <2>1 DEF Execute, PromotionTypeOK, Requests, Models
  <2>6. session' \in [Resolvers -> Sessions] /\ \A s \in Resolvers :
          session'[s].request = session[s].request
          /\ (session'[s].at # "idle" => session[s].at # "idle")
    BY <1>5 DEF Execute, PromotionTypeOK, Sessions, SessionPlaces
  <2> QED
    BY <1>5, <2>4, <2>5, <2>6 DEF Execute, PromotionTypeOK, Sessions, SessionPlaces
<1>6. ASSUME NEW r \in Resolvers, Promote(r) PROVE PromotionTypeOK'
  <2>1. model' \in [Models -> Records]
    BY <1>6 DEF Promote, Crowned, PromotionTypeOK, Records, Standings
  <2>2. session' \in [Resolvers -> Sessions] /\ \A s \in Resolvers :
          session'[s].request = session[s].request
          /\ (session'[s].at # "idle" => session[s].at # "idle")
    BY <1>6 DEF Promote, PromotionTypeOK, Sessions, SessionPlaces
  <2> QED
    BY <1>6, <2>1, <2>2 DEF Promote, PromotionTypeOK, Records, Sessions, SessionPlaces
<1>7. ASSUME NEW r \in Resolvers, Mark(r) \/ ResolverDies(r) PROVE PromotionTypeOK'
  <2> DEFINE i == session[r].request
  <2>1. i \in DOMAIN requests /\ requests[i] \in Requests
    BY <1>7, RequestTyped DEF Mark, ResolverDies, PromotionTypeOK
  <2>2. PICK q \in Requests : requests' = [requests EXCEPT ![i] = q]
    <3>1. CASE Mark(r)
      <4>1. session[r].verdict \in {"approved", "rejected"}
        BY <3>1 DEF Mark, PromotionTypeOK
      <4>2. [requests[i] EXCEPT !.status = session[r].verdict] \in Requests
        BY <2>1, <4>1 DEF Requests
      <4>3. requests' = [requests EXCEPT ![i] = [requests[i] EXCEPT !.status = session[r].verdict]]
        BY <2>1, <3>1 DEF Mark
      <4> QED
        BY <4>2, <4>3
    <3>2. CASE ResolverDies(r)
      BY <2>1, <3>2 DEF ResolverDies, Requests
    <3> QED
      BY <1>7, <3>1, <3>2
  <2>3. requests' \in Seq(Requests) /\ DOMAIN requests' = DOMAIN requests
    BY <2>1, <2>2, RequestTyped, TableTyped
  <2>4. session' = [session EXCEPT ![r] = NoSession] /\ UNCHANGED <<model, epoch, vetted>>
    BY <1>7 DEF Mark, ResolverDies
  <2>5. deaths' \in 0..MaxDeaths
    BY <1>7, PromotionAssumption DEF Mark, ResolverDies, PromotionTypeOK
  <2> QED
    BY <2>3, <2>4, <2>5 DEF PromotionTypeOK, NoSession
<1>8. ASSUME NewEpoch PROVE PromotionTypeOK'
  <2>1. /\ requests' \in Seq(Requests)
    BY <1>8, RequestTyped, TableTyped DEF NewEpoch, Requests
  <2>2. epoch' \in 0..MaxEpochs
    BY <1>8, PromotionAssumption DEF NewEpoch, PromotionTypeOK
  <2> QED
    BY <1>8, <2>1, <2>2 DEF NewEpoch, PromotionTypeOK, NoSession
<1>9. CASE StillLearning
  BY <1>1, <1>9 DEF StillLearning
<1> QED
  BY <1>1, <1>2, <1>3, <1>4, <1>5, <1>6, <1>7, <1>8, <1>9 DEF PromotionNext

\* Artifacts, requests and sessions are what they seem, and a session that is
\* not idle is on a request there is.
THEOREM PromotionTypes == PromotionSpec => []PromotionTypeOK
BY PromotionInitTyped, PromotionStepTyped, PTL DEF PromotionSpec

-----------------------------------------------------------------------------
(* What is in use.                                                         *)

\* requests are never forgotten, nor what was done about them
LEMMA NothingForgotten ==
  ASSUME PromotionTypeOK, PromotionNext
  PROVE  /\ DOMAIN requests \subseteq DOMAIN requests' /\ vetted \subseteq vetted'
         /\ \A i \in DOMAIN requests :
              /\ requests'[i].artifact = requests[i].artifact
              /\ requests[i].runs > 0 => requests'[i].runs > 0
<1> USE DEF models
<1>1. ASSUME NEW a \in Artifacts, RequestChange(a)
      PROVE  /\ DOMAIN requests \subseteq DOMAIN requests'
             /\ \A i \in DOMAIN requests : requests'[i] = requests[i]
  <2>1. requests' = Append(requests, Request(a)) /\ Request(a) \in Requests
    BY <1>1 DEF RequestChange, Request, Requests
  <2> QED
    BY <2>1, AppendProperties DEF PromotionTypeOK
<1>2. ASSUME NEW r \in Resolvers, NEW i \in DOMAIN requests,
             NEW v \in {"approved", "rejected"}, Resolve(r, i, v)
      PROVE  DOMAIN requests' = DOMAIN requests /\ UNCHANGED vetted
             /\ \A j \in DOMAIN requests : requests'[j].artifact = requests[j].artifact
                                           /\ requests'[j].runs = requests[j].runs
  <2>1. requests' = [requests EXCEPT ![i] = [requests[i] EXCEPT !.contested =
                       requests[i].contested \/ \E s \in Resolvers : On(s, i)]]
    BY <1>2 DEF Resolve
  <2> QED
    BY <1>2, <2>1, RequestTyped DEF Resolve, Requests
<1>3. ASSUME NEW r \in Resolvers, Execute(r)
      PROVE  DOMAIN requests' = DOMAIN requests /\ vetted \subseteq vetted'
             /\ \A j \in DOMAIN requests : requests'[j].artifact = requests[j].artifact
                                           /\ (requests[j].runs > 0 => requests'[j].runs > 0)
  <2> DEFINE i == session[r].request
  <2>1. i \in DOMAIN requests
    BY <1>3 DEF Execute, PromotionTypeOK
  <2>2. requests' = [requests EXCEPT ![i] = [requests[i] EXCEPT !.runs = requests[i].runs + 1]]
    BY <1>3, <2>1 DEF Execute
  <2> QED
    BY <1>3, <2>1, <2>2, RequestTyped DEF Execute, Requests
<1>4. ASSUME NEW r \in Resolvers, Mark(r) \/ ResolverDies(r)
      PROVE  DOMAIN requests' = DOMAIN requests /\ UNCHANGED vetted
             /\ \A j \in DOMAIN requests : requests'[j].artifact = requests[j].artifact
                                           /\ requests'[j].runs = requests[j].runs
  <2> DEFINE i == session[r].request
  <2>1. i \in DOMAIN requests
    BY <1>4 DEF Mark, ResolverDies, PromotionTypeOK
  <2>2. \/ requests' = [requests EXCEPT ![i] =
             [requests[i] EXCEPT !.status = session[r].verdict]]
        \/ requests' = [requests EXCEPT ![i] =
             [requests[i] EXCEPT !.interrupted = requests[i].interrupted \/ Begun(r)]]
    BY <1>4, <2>1 DEF Mark, ResolverDies
  <2> QED
    BY <1>4, <2>1, <2>2, RequestTyped DEF Mark, ResolverDies, Requests
<1>5. ASSUME NewEpoch
      PROVE  DOMAIN requests' = DOMAIN requests /\ UNCHANGED vetted
             /\ \A j \in DOMAIN requests : requests'[j].artifact = requests[j].artifact
                                           /\ requests'[j].runs = requests[j].runs
  BY <1>5, RequestTyped DEF NewEpoch, Requests
<1>6. ASSUME NEW a \in Artifacts, NEW passed \in BOOLEAN, Train(a, passed)
      PROVE  UNCHANGED <<requests, vetted>>
  BY <1>6 DEF Train
<1>7. ASSUME NEW r \in Resolvers, Promote(r) PROVE UNCHANGED <<requests, vetted>>
  BY <1>7 DEF Promote
<1>8. CASE StillLearning
  BY <1>8 DEF StillLearning, promotionVars
<1> QED
  BY <1>1, <1>2, <1>3, <1>4, <1>5, <1>6, <1>7, <1>8 DEF PromotionNext, RequestChange

LEMMA SessionsSoundStep ==
  ASSUME PromotionTypeOK, PromotionTypeOK', SessionsSound, PromotionNext
  PROVE  SessionsSound'
<1> SUFFICES ASSUME NEW s \in Resolvers PROVE Sound(s)'
  BY DEF SessionsSound
<1> USE DEF models
<1>1. Sound(s)
  BY DEF SessionsSound
<1>2. CASE session'[s] = session[s]
  <2>1. session[s].at # "idle" => session[s].request \in DOMAIN requests
    BY DEF PromotionTypeOK
  <2> QED
    BY <1>1, <1>2, <2>1, NothingForgotten DEF Sound
<1>3. CASE session'[s].at \in {"idle", "mark"}
  BY <1>3 DEF Sound
<1>4. ASSUME NEW i \in DOMAIN requests, NEW v \in {"approved", "rejected"}, Resolve(s, i, v)
      PROVE  Sound(s)'
  <2>1. session'[s] = [at |-> IF v = "approved" THEN "execute" ELSE "mark",
                       request |-> i, verdict |-> v]
    BY <1>4 DEF Resolve, PromotionTypeOK
  <2> QED
    BY <2>1 DEF Sound
<1>5. CASE Execute(s)
  <2> DEFINE i == session[s].request
             a == requests[i].artifact
  <2>1. i \in DOMAIN requests /\ session[s].verdict = "approved"
    BY <1>1, <1>5 DEF Execute, Sound, PromotionTypeOK
  <2>2. /\ session'[s].at = IF Fit(a) THEN "promote" ELSE "mark"
        /\ session'[s].request = i /\ session'[s].verdict = "approved"
    BY <1>5, <2>1 DEF Execute, PromotionTypeOK
  <2>3. requests' = [requests EXCEPT ![i] = [requests[i] EXCEPT !.runs = requests[i].runs + 1]]
    BY <1>5, <2>1 DEF Execute
  <2>4. requests'[i].artifact = a /\ requests'[i].runs > 0
    BY <2>1, <2>3, RequestTyped DEF Requests
  <2>5. Fit(a) => a \in vetted'
    BY <1>5 DEF Execute, Fit
  <2> QED
    BY <2>2, <2>4, <2>5 DEF Sound
<1>6. \/ session'[s] = session[s] \/ session'[s].at \in {"idle", "mark"}
      \/ Execute(s) \/ \E i \in DOMAIN requests, v \in {"approved", "rejected"} : Resolve(s, i, v)
  <2>1. ASSUME NEW r \in Resolvers, r # s,
               Execute(r) \/ Promote(r) \/ Mark(r) \/ ResolverDies(r)
               \/ \E i \in DOMAIN requests, v \in {"approved", "rejected"} : Resolve(r, i, v)
        PROVE  session'[s] = session[s]
    BY <2>1 DEF Resolve, Execute, Promote, Mark, ResolverDies, PromotionTypeOK
  <2>2. Promote(s) \/ Mark(s) \/ ResolverDies(s) \/ NewEpoch
        => session'[s].at \in {"idle", "mark"}
    BY DEF Promote, Mark, ResolverDies, NewEpoch, NoSession, PromotionTypeOK
  <2>3. ASSUME NEW a \in Artifacts, NEW passed \in BOOLEAN, Train(a, passed) \/ RequestChange(a)
        PROVE  session'[s] = session[s]
    BY <2>3 DEF Train, RequestChange
  <2>4. StillLearning => session'[s] = session[s]
    BY DEF StillLearning, promotionVars
  <2> QED
    BY <2>1, <2>2, <2>3, <2>4 DEF PromotionNext
<1> QED
  BY <1>2, <1>3, <1>4, <1>5, <1>6

LEMMA AskedStays ==
  ASSUME PromotionTypeOK, PromotionNext, NEW m, Asked(m)
  PROVE  Asked(m)'
BY NothingForgotten DEF Asked

LEMMA ChampionStep ==
  ASSUME PromotionTypeOK, SessionsSound, OneChampion, ChampionVetted, PromotionNext
  PROVE  OneChampion' /\ ChampionVetted'
<1> USE DEF models
<1>1. vetted \subseteq vetted'
  BY NothingForgotten
<1>2. CASE Champions' = Champions
  BY <1>1, <1>2, AskedStays DEF OneChampion, ChampionVetted
<1>3. ASSUME NEW r \in Resolvers, Promote(r) PROVE OneChampion' /\ ChampionVetted'
  <2>1. PICK a : a = requests[session[r].request].artifact
    OBVIOUS
  <2>2. session[r].request \in DOMAIN requests /\ a \in vetted /\ Asked(a)
    BY <1>3, <2>1 DEF Promote, PromotionTypeOK, SessionsSound, Sound, Asked
  <2>3. a \in Models
    BY <2>1, <2>2, RequestTyped DEF Requests, Models
  <2>4. model' = Crowned(a)
    BY <1>3, <2>1 DEF Promote
  <2>5. \A m \in Models : model'[m].standing = "champion" <=> m = a
    BY <2>3, <2>4 DEF Crowned, PromotionTypeOK
  <2>6. Champions' = {a}
    BY <2>3, <2>5 DEF Champions
  <2>7. Asked(a)'
    BY <2>2, AskedStays
  <2> QED
    BY <1>1, <2>2, <2>3, <2>6, <2>7 DEF OneChampion, ChampionVetted
<1>4. ASSUME NEW a \in Artifacts, NEW passed \in BOOLEAN, Train(a, passed)
      PROVE  Champions' = Champions
  BY <1>4 DEF Train, Champions, PromotionTypeOK, Models
<1>5. ASSUME UNCHANGED model PROVE Champions' = Champions
  BY <1>5 DEF Champions
<1>6. (\E r \in Resolvers : Promote(r))
      \/ (\E a \in Artifacts, passed \in BOOLEAN : Train(a, passed)) \/ UNCHANGED model
  BY DEF PromotionNext, RequestChange, Resolve, Execute, Mark, ResolverDies, NewEpoch,
     StillLearning, promotionVars
<1> QED
  BY <1>2, <1>3, <1>4, <1>5, <1>6

LEMMA GovernedFollows ==
  ASSUME PromotionTypeOK, OneChampion, ChampionVetted
  PROVE  InUseIsGoverned
<1>1. Cardinality(Champions) = 1
  BY FS_Singleton DEF OneChampion
<1>2. ASSUME InUse # Baseline
      PROVE  /\ model[InUse].epoch = epoch /\ InUse \in vetted
             /\ \E i \in About(InUse) : requests[i].runs > 0
  <2>1. InUse \in Champions /\ PassesGate(InUse)
    <3>1. \E m \in Champions : PassesGate(m)
      BY <1>2 DEF InUse
    <3>2. InUse = CHOOSE m \in Champions : PassesGate(m)
      BY <3>1 DEF InUse
    <3> QED
      BY <3>1, <3>2
  <2> QED
    BY <1>2, <2>1 DEF PassesGate, ChampionVetted, Asked, About
<1> QED
  BY <1>1, <1>2 DEF InUseIsGoverned

Governing == SessionsSound /\ OneChampion /\ ChampionVetted

LEMMA GoverningInitially == PromotionInit => Governing
<1> SUFFICES ASSUME PromotionInit PROVE Governing
  OBVIOUS
<1>1. Champions = {Baseline}
  BY DEF PromotionInit, Champions, Models
<1>2. SessionsSound
  BY DEF PromotionInit, SessionsSound, Sound, NoSession
<1>3. Baseline \in Models
  BY DEF Models
<1> QED
  BY <1>1, <1>2, <1>3 DEF Governing, OneChampion, ChampionVetted

LEMMA GoverningStep ==
  PromotionTypeOK /\ PromotionTypeOK' /\ Governing /\ [PromotionNext]_promotionVars => Governing'
<1>1. ASSUME UNCHANGED promotionVars, Governing PROVE Governing'
  BY <1>1 DEF promotionVars, models, Governing, SessionsSound, Sound, OneChampion, Champions,
     ChampionVetted, Asked
<1>2. ASSUME PromotionTypeOK, PromotionTypeOK', Governing, PromotionNext PROVE Governing'
  BY <1>2, SessionsSoundStep, ChampionStep DEF Governing
<1> QED
  BY <1>1, <1>2

\* The weights in production are the baseline's, or those of the one champion,
\* vetted by a promotion, of this epoch, on a request some operator approved,
\* however promotions, retraining, deaths and redeploys interleave.
THEOREM WeightsAreGoverned == PromotionSpec => []InUseIsGoverned
<1>1. PromotionSpec => []Governing
  BY PromotionTypes, GoverningInitially, GoverningStep, PTL DEF PromotionSpec
<1>2. PromotionTypeOK /\ Governing => InUseIsGoverned
  BY GovernedFollows DEF Governing
<1> QED
  BY <1>1, <1>2, PromotionTypes, PTL

-----------------------------------------------------------------------------
(* The weights in use implement WeightRegister.                            *)

\* no artifact is of an epoch to come, one that was vetted has a standing that
\* training leaves it, and one about to be promoted is of this epoch
EpochsPast == \A m \in Models : model[m].epoch <= epoch
VettedStand == \A m \in vetted : model[m].standing # "none"
PromotesOfEpoch == \A r \in Resolvers : session[r].at = "promote" =>
  model[requests[session[r].request].artifact].epoch = epoch
EpochsInd == PromotionTypeOK /\ Governing /\ EpochsPast /\ VettedStand /\ PromotesOfEpoch

\* whose weights are in use, of the one champion
LEMMA UsedIs ==
  ASSUME NEW c, Champions = {c}
  PROVE  InUse = IF c = Baseline \/ model[c].epoch = epoch THEN c ELSE Baseline
BY DEF InUse, PassesGate

LEMMA TrainKeepsEpochs ==
  ASSUME EpochsInd, NEW a \in Artifacts, NEW passed \in BOOLEAN, Train(a, passed)
  PROVE  /\ EpochsPast' /\ VettedStand' /\ PromotesOfEpoch'
         /\ \A m \in vetted : model'[m].epoch = model[m].epoch
         /\ Champions' = Champions
<1>1. /\ model \in [Models -> Records] /\ vetted \subseteq Models /\ epoch \in Nat
      /\ a \in Models /\ (model[a].standing = "none" \/ model[a].epoch = epoch)
      /\ UNCHANGED <<epoch, vetted, requests, session>>
      /\ SessionsSound /\ EpochsPast /\ VettedStand /\ PromotesOfEpoch
  BY PromotionAssumption
  DEF EpochsInd, PromotionTypeOK, Records, Models, Train, Governing, models
<1>2. /\ \A m \in Models \ {a} : model'[m] = model[m]
      /\ model'[a].epoch = epoch /\ model'[a].standing # "none"
      /\ model'[a].standing = "champion" <=> model[a].standing = "champion"
  BY <1>1 DEF Train, Records
<1>3. EpochsPast'
  BY <1>1, <1>2 DEF EpochsPast
<1>4. \A m \in vetted : model'[m].epoch = model[m].epoch /\ model'[m].standing # "none"
  BY <1>1, <1>2 DEF VettedStand
<1>5. PromotesOfEpoch'
  <2> SUFFICES ASSUME NEW r \in Resolvers, session[r].at = "promote"
               PROVE  model'[requests[session[r].request].artifact].epoch = epoch
    BY <1>1 DEF PromotesOfEpoch
  <2>1. requests[session[r].request].artifact \in vetted
    BY <1>1 DEF SessionsSound, Sound
  <2> QED
    BY <1>1, <1>4, <2>1 DEF PromotesOfEpoch
<1> QED
  BY <1>1, <1>2, <1>3, <1>4, <1>5 DEF VettedStand, Champions

\* who is in use stays so when neither the champion nor its epoch changes
LEMMA UsedStays ==
  ASSUME EpochsInd, Champions' = Champions, UNCHANGED epoch,
         \A m \in Champions : model'[m].epoch = model[m].epoch
  PROVE  InUse' = InUse
<1>1. PICK c : Champions = {c}
  BY DEF EpochsInd, Governing, OneChampion
<1>2. InUse = IF c = Baseline \/ model[c].epoch = epoch THEN c ELSE Baseline
  BY <1>1, UsedIs
<1>3. InUse' = IF c = Baseline \/ model'[c].epoch = epoch' THEN c ELSE Baseline
  BY <1>1 DEF InUse, PassesGate
<1> QED
  BY <1>1, <1>2, <1>3

LEMMA SameRequests ==
  ASSUME PromotionTypeOK, PromotionNext, \A a \in Artifacts : ~RequestChange(a)
  PROVE  Requested' = Requested
<1> USE DEF models
<1>1. DOMAIN requests' = DOMAIN requests
  <2>1. ASSUME NEW r \in Resolvers, NEW i \in DOMAIN requests,
               NEW v \in {"approved", "rejected"}, Resolve(r, i, v)
        PROVE  DOMAIN requests' = DOMAIN requests
    BY <2>1 DEF Resolve
  <2>2. ASSUME NEW r \in Resolvers, Execute(r) \/ Mark(r) \/ ResolverDies(r)
        PROVE  DOMAIN requests' = DOMAIN requests
    BY <2>2 DEF Execute, Mark, ResolverDies
  <2>3. NewEpoch => DOMAIN requests' = DOMAIN requests
    BY DEF NewEpoch
  <2> QED
    BY <2>1, <2>2, <2>3 DEF PromotionNext, Train, Promote, StillLearning, promotionVars
<1> QED
  BY <1>1, NothingForgotten DEF Requested

\* an execution clears the artifact it finds fit, and no other
LEMMA ExecuteClears ==
  ASSUME EpochsInd, NEW r \in Resolvers, Execute(r)
  PROVE  /\ EpochsPast' /\ VettedStand' /\ PromotesOfEpoch' /\ InUse' = InUse
         /\ \/ Cleared' = Cleared
            \/ \E a \in Artifacts : a \in Requested /\ Cleared' = Cleared \cup {a}
<1>1. PICK i, a : i = session[r].request /\ a = requests[i].artifact
  OBVIOUS
<1>2. i \in DOMAIN requests /\ a \in Artifacts /\ a # Baseline /\ a \in Models
  BY <1>1, RequestTyped, PromotionAssumption
  DEF EpochsInd, PromotionTypeOK, Execute, Requests, Models
<1>3. /\ session' = [session EXCEPT ![r].at = IF Fit(a) THEN "promote" ELSE "mark"]
      /\ vetted' = IF Fit(a) /\ model[a].passed THEN vetted \cup {a} ELSE vetted
      /\ UNCHANGED <<model, epoch>>
  BY <1>1 DEF Execute
<1>4. PromotionTypeOK /\ EpochsPast /\ VettedStand /\ PromotesOfEpoch
  BY DEF EpochsInd
<1>5. EpochsPast' /\ VettedStand'
  BY <1>3, <1>4 DEF EpochsPast, VettedStand, Fit
<1>6. InUse' = InUse
  BY <1>3, UsedStays DEF Champions
<1>7. PromotesOfEpoch'
  <2> SUFFICES ASSUME NEW s \in Resolvers, session'[s].at = "promote"
               PROVE  model[requests'[session'[s].request].artifact].epoch = epoch
    BY <1>3 DEF PromotesOfEpoch
  <2>1. requests' = [requests EXCEPT ![i] = [requests[i] EXCEPT !.runs = requests[i].runs + 1]]
    BY <1>1, <1>2 DEF Execute
  <2>2. \A j \in DOMAIN requests : requests'[j].artifact = requests[j].artifact
    BY <1>2, <1>4, <2>1, RequestTyped DEF Requests
  <2>3. CASE s = r
    <3>1. session'[s].request = i /\ Fit(a)
      BY <1>1, <1>3, <1>4, <2>3 DEF PromotionTypeOK
    <3> QED
      BY <1>1, <1>2, <2>2, <3>1 DEF Fit
  <2>4. CASE s # r
    <3>1. session'[s] = session[s]
      BY <1>3, <1>4, <2>4 DEF PromotionTypeOK
    <3>2. session[s].request \in DOMAIN requests
      BY <1>4, <3>1 DEF PromotionTypeOK
    <3> QED
      BY <1>4, <2>2, <3>1, <3>2 DEF PromotesOfEpoch
  <2> QED
    BY <2>3, <2>4
<1>8. CASE Fit(a) /\ model[a].passed
  <2>1. a \in Requested
    BY <1>1, <1>2 DEF Requested
  <2>2. Cleared' = Cleared \cup {a}
    BY <1>2, <1>3, <1>8 DEF Cleared, Fit
  <2> QED
    BY <1>2, <1>5, <1>6, <1>7, <2>1, <2>2
<1>9. CASE ~(Fit(a) /\ model[a].passed)
  BY <1>3, <1>5, <1>6, <1>7, <1>9 DEF Cleared
<1> QED
  BY <1>8, <1>9

\* a promotion puts to use what was cleared in this epoch
LEMMA PromoteUses ==
  ASSUME EpochsInd, NEW r \in Resolvers, Promote(r)
  PROVE  /\ EpochsPast' /\ VettedStand' /\ PromotesOfEpoch'
         /\ \E a \in Artifacts : a \in Cleared /\ InUse' = a
         /\ Cleared' = Cleared /\ UNCHANGED epoch
<1>1. PICK i, a : i = session[r].request /\ a = requests[i].artifact
  OBVIOUS
<1>2. /\ PromotionTypeOK /\ SessionsSound /\ EpochsPast /\ VettedStand /\ PromotesOfEpoch
      /\ model \in [Models -> Records] /\ vetted \subseteq Models
  BY DEF EpochsInd, Governing, PromotionTypeOK, Records
<1>3. i \in DOMAIN requests /\ a \in Artifacts /\ a # Baseline /\ a \in Models
  BY <1>1, <1>2, RequestTyped, PromotionAssumption DEF PromotionTypeOK, Promote, Requests, Models
<1>4. a \in vetted /\ model[a].epoch = epoch
  BY <1>1, <1>2 DEF Promote, SessionsSound, Sound, PromotesOfEpoch
<1>5. /\ model' = Crowned(a) /\ session' = [session EXCEPT ![r].at = "mark"]
      /\ UNCHANGED <<epoch, vetted, requests>>
  BY <1>1 DEF Promote
<1>6. \A m \in Models : /\ model'[m].epoch = model[m].epoch
                        /\ model[m].standing # "none" => model'[m].standing # "none"
                        /\ model'[m].standing = "champion" <=> m = a
  BY <1>2, <1>5 DEF Crowned, Records
<1>7. Champions' = {a}
  BY <1>3, <1>6 DEF Champions
<1>8. InUse' = a
  BY <1>3, <1>4, <1>5, <1>6, <1>7 DEF InUse, PassesGate
<1>9. Cleared' = Cleared /\ a \in Cleared
  BY <1>2, <1>3, <1>4, <1>5, <1>6 DEF Cleared
<1>10. EpochsPast' /\ VettedStand'
  BY <1>2, <1>5, <1>6 DEF EpochsPast, VettedStand
<1>11. PromotesOfEpoch'
  <2> SUFFICES ASSUME NEW s \in Resolvers, session'[s].at = "promote"
               PROVE  model'[requests[session'[s].request].artifact].epoch = epoch
    BY <1>5 DEF PromotesOfEpoch
  <2>1. s # r /\ session'[s] = session[s]
    BY <1>2, <1>5 DEF PromotionTypeOK
  <2>2. requests[session[s].request].artifact \in Models
    BY <1>2, <2>1 DEF SessionsSound, Sound
  <2> QED
    BY <1>2, <1>6, <2>1, <2>2 DEF PromotesOfEpoch
<1> QED
  BY <1>3, <1>5, <1>8, <1>9, <1>10, <1>11

\* nothing is cleared in an epoch that begins, and the baseline is in use
LEMMA NewEpochRedeploys ==
  ASSUME EpochsInd, NewEpoch
  PROVE  /\ EpochsPast' /\ VettedStand' /\ PromotesOfEpoch'
         /\ epoch' = epoch + 1 /\ Cleared' = {} /\ InUse' = Baseline
<1>1. /\ epoch' = epoch + 1 /\ UNCHANGED <<model, vetted>>
      /\ session' = [r \in Resolvers |-> NoSession]
      /\ epoch \in Nat /\ model \in [Models -> Records] /\ vetted \subseteq Models
      /\ EpochsPast /\ VettedStand
  BY PromotionAssumption DEF NewEpoch, EpochsInd, PromotionTypeOK, Records
<1>2. \A m \in Models : model[m].epoch \in Nat /\ model[m].epoch < epoch'
  BY <1>1, PromotionAssumption DEF EpochsPast, Records
<1>3. EpochsPast' /\ VettedStand' /\ PromotesOfEpoch'
  BY <1>1, <1>2 DEF EpochsPast, VettedStand, PromotesOfEpoch, NoSession
<1>4. Cleared' = {}
  BY <1>1, <1>2 DEF Cleared
<1>5. PICK c \in Models : Champions' = {c}
  BY <1>1 DEF EpochsInd, Governing, OneChampion, Champions
<1>6. InUse' = Baseline
  BY <1>1, <1>2, <1>5 DEF InUse, PassesGate
<1> QED
  BY <1>1, <1>3, <1>4, <1>6

\* what neither trains, executes, promotes nor redeploys
LEMMA RestKeepsEpochs ==
  ASSUME EpochsInd, UNCHANGED models,
         \A r \in Resolvers : session'[r].at = "promote" => session'[r] = session[r],
         \A i \in DOMAIN requests : requests'[i].artifact = requests[i].artifact
  PROVE  /\ EpochsPast' /\ VettedStand' /\ PromotesOfEpoch'
         /\ Cleared' = Cleared /\ InUse' = InUse
<1> USE DEF models
<1>1. PromotionTypeOK /\ EpochsPast /\ VettedStand /\ PromotesOfEpoch
  BY DEF EpochsInd
<1>2. EpochsPast' /\ VettedStand' /\ Cleared' = Cleared
  BY <1>1 DEF EpochsPast, VettedStand, Cleared
<1>3. InUse' = InUse
  BY UsedStays DEF Champions
<1>4. PromotesOfEpoch'
  BY <1>1 DEF PromotesOfEpoch, PromotionTypeOK
<1> QED
  BY <1>2, <1>3, <1>4

\* every step of the promotions is one of the register, or none
LEMMA PromotionIsOfRegister ==
  ASSUME EpochsInd, PromotionNext
  PROVE  /\ EpochsPast' /\ VettedStand' /\ PromotesOfEpoch'
         /\ [Weights!WeightsNext]_(Weights!weightsVars)
<1> USE DEF models, Weights!weightsVars
<1>1. PromotionTypeOK
  BY DEF EpochsInd
<1>2. ASSUME NEW a \in Artifacts, NEW passed \in BOOLEAN, Train(a, passed)
      PROVE  /\ EpochsPast' /\ VettedStand' /\ PromotesOfEpoch'
             /\ UNCHANGED Weights!weightsVars
  <2>1. /\ EpochsPast' /\ VettedStand' /\ PromotesOfEpoch' /\ Champions' = Champions
        /\ \A m \in vetted : model'[m].epoch = model[m].epoch
        /\ UNCHANGED <<epoch, vetted, requests>>
    BY <1>2, TrainKeepsEpochs DEF Train
  <2>2. \A m \in Champions : m # Baseline => m \in vetted
    BY DEF EpochsInd, Governing, ChampionVetted
  <2>3. \A m \in Champions : model'[m].epoch = model[m].epoch
    <3>1. a # Baseline /\ model' = [model EXCEPT ![a] = model'[a]]
      BY <1>1, <1>2, PromotionAssumption DEF Train, PromotionTypeOK
    <3> QED
      BY <2>1, <2>2, <3>1, <1>1 DEF PromotionTypeOK, Models
  <2>4. InUse' = InUse
    BY <2>1, <2>3, UsedStays
  <2>5. Cleared' = Cleared /\ Requested' = Requested
    BY <2>1 DEF Cleared, Requested
  <2> QED
    BY <2>1, <2>4, <2>5
<1>3. ASSUME NEW a \in Artifacts, RequestChange(a)
      PROVE  /\ EpochsPast' /\ VettedStand' /\ PromotesOfEpoch'
             /\ Weights!AskFor(a)
  <2>1. requests' = Append(requests, Request(a)) /\ UNCHANGED <<models, session>>
    BY <1>3 DEF RequestChange
  <2>2. \A i \in DOMAIN requests : requests'[i].artifact = requests[i].artifact
    BY <1>1, NothingForgotten
  <2>3. Requested' = Requested \cup {a}
    <3>1. /\ DOMAIN requests = 1..Len(requests) /\ Len(requests) \in Nat
          /\ DOMAIN requests' = 1..(Len(requests) + 1)
          /\ requests'[Len(requests) + 1].artifact = a
      BY <1>1, <2>1, RequestTyped, AppendProperties DEF PromotionTypeOK, Request, Requests
    <3>2. DOMAIN requests' = DOMAIN requests \cup {Len(requests) + 1}
      BY <3>1
    <3> QED
      BY <2>2, <3>1, <3>2 DEF Requested
  <2>4. /\ EpochsPast' /\ VettedStand' /\ PromotesOfEpoch'
        /\ Cleared' = Cleared /\ InUse' = InUse
    BY <2>1, <2>2, RestKeepsEpochs
  <2> QED
    BY <2>1, <2>3, <2>4 DEF Weights!AskFor
<1>4. ASSUME NEW r \in Resolvers, Execute(r)
      PROVE  /\ EpochsPast' /\ VettedStand' /\ PromotesOfEpoch'
             /\ (UNCHANGED Weights!weightsVars \/ \E a \in Artifacts : Weights!Clear(a))
  <2>1. Requested' = Requested /\ UNCHANGED epoch
    <3>1. \A a \in Artifacts : ~RequestChange(a)
      BY <1>1, <1>4 DEF Execute, RequestChange, PromotionTypeOK
    <3> QED
      BY <1>1, <1>4, <3>1, SameRequests DEF Execute
  <2> QED
    BY <1>4, <2>1, ExecuteClears DEF Weights!Clear
<1>5. ASSUME NEW r \in Resolvers, Promote(r)
      PROVE  /\ EpochsPast' /\ VettedStand' /\ PromotesOfEpoch'
             /\ \E a \in Artifacts : Weights!PutToUse(a)
  <2>1. Requested' = Requested
    BY <1>5 DEF Promote, Requested
  <2> QED
    BY <1>5, <2>1, PromoteUses DEF Weights!PutToUse
<1>6. ASSUME NewEpoch
      PROVE  /\ EpochsPast' /\ VettedStand' /\ PromotesOfEpoch' /\ Weights!Redeploy
  <2>1. Requested' = Requested
    BY <1>1, <1>6, RequestTyped DEF NewEpoch, Requested, Requests
  <2> QED
    BY <1>6, <2>1, NewEpochRedeploys DEF Weights!Redeploy
\* a session that takes a request, writes its verdict or dies
<1>7. ASSUME NEW r \in Resolvers,
             Mark(r) \/ ResolverDies(r)
             \/ \E i \in DOMAIN requests, v \in {"approved", "rejected"} : Resolve(r, i, v)
      PROVE  /\ EpochsPast' /\ VettedStand' /\ PromotesOfEpoch'
             /\ UNCHANGED Weights!weightsVars
  <2>1. UNCHANGED models
    BY <1>7 DEF Mark, ResolverDies, Resolve
  <2>2. \A s \in Resolvers : session'[s].at = "promote" => session'[s] = session[s]
    BY <1>7, <1>1 DEF Mark, ResolverDies, Resolve, NoSession, PromotionTypeOK
  <2>3. \A i \in DOMAIN requests : requests'[i].artifact = requests[i].artifact
    BY <1>1, NothingForgotten
  <2>4. DOMAIN requests' = DOMAIN requests
    BY <1>7 DEF Mark, ResolverDies, Resolve
  <2>5. Requested' = Requested
    BY <2>3, <2>4 DEF Requested
  <2> QED
    BY <2>1, <2>2, <2>3, <2>5, RestKeepsEpochs
<1>8. CASE StillLearning
  <2>1. UNCHANGED <<models, requests, session>>
    BY <1>8 DEF StillLearning, promotionVars
  <2> QED
    BY <2>1, RestKeepsEpochs DEF Requested
<1> QED
  BY <1>2, <1>3, <1>4, <1>5, <1>6, <1>7, <1>8 DEF PromotionNext, Weights!WeightsNext

LEMMA EpochsInitially == PromotionInit => EpochsInd /\ Weights!WeightsInit
<1> SUFFICES ASSUME PromotionInit PROVE EpochsInd /\ Weights!WeightsInit
  OBVIOUS
<1>1. PromotionTypeOK /\ Governing
  BY PromotionInitTyped, GoverningInitially
<1>2. EpochsPast /\ VettedStand /\ PromotesOfEpoch
  BY DEF PromotionInit, EpochsPast, VettedStand, PromotesOfEpoch, NoSession, Models
<1>3. Champions = {Baseline}
  BY DEF PromotionInit, Champions, Models
<1>4. InUse = Baseline
  BY <1>3, UsedIs
<1>5. Requested = {} /\ Cleared = {} /\ epoch = 0
  BY DEF PromotionInit, Requested, Cleared
<1> QED
  BY <1>1, <1>2, <1>4, <1>5 DEF EpochsInd, Weights!WeightsInit

LEMMA EpochsStep ==
  EpochsInd /\ [PromotionNext]_promotionVars =>
    EpochsInd' /\ [Weights!WeightsNext]_(Weights!weightsVars)
<1> SUFFICES ASSUME EpochsInd, [PromotionNext]_promotionVars
             PROVE  EpochsInd' /\ [Weights!WeightsNext]_(Weights!weightsVars)
  OBVIOUS
<1>1. PromotionTypeOK' /\ Governing'
  BY PromotionStepTyped, GoverningStep DEF EpochsInd
<1>2. CASE PromotionNext
  BY <1>1, <1>2, PromotionIsOfRegister DEF EpochsInd
<1>3. CASE UNCHANGED promotionVars
  <2>1. UNCHANGED <<models, requests, session>>
    BY <1>3 DEF promotionVars
  <2>2. /\ EpochsPast' /\ VettedStand' /\ PromotesOfEpoch'
        /\ Cleared' = Cleared /\ InUse' = InUse
    BY <2>1, RestKeepsEpochs
  <2>3. Requested' = Requested /\ UNCHANGED epoch
    BY <2>1 DEF Requested, models
  <2> QED
    BY <1>1, <2>2, <2>3 DEF EpochsInd, Weights!weightsVars
<1> QED
  BY <1>2, <1>3

\* For any artifacts, requests, sessions and deaths: the weights in use change
\* only for those of an artifact that was asked for and found fit in this epoch,
\* or for the baseline's at a redeploy; those of an earlier epoch never return.
THEOREM WeightsComeInOrder == PromotionSpec => ImplementsWeights
BY EpochsInitially, EpochsStep, PTL DEF PromotionSpec, ImplementsWeights, Weights!WeightsSpec

-----------------------------------------------------------------------------
(* A request acts once.                                                    *)

LEMMA RowExcept ==
  ASSUME PromotionTypeOK, NEW j \in DOMAIN requests, NEW row
  PROVE  /\ [requests EXCEPT ![j] = row][j] = row
         /\ \A i \in DOMAIN requests \ {j} : [requests EXCEPT ![j] = row][i] = requests[i]
         /\ DOMAIN [requests EXCEPT ![j] = row] = DOMAIN requests
BY RequestTyped

\* a request whose row and whose sessions stay as they are
LEMMA Undisturbed ==
  ASSUME NEW i \in DOMAIN requests, Accounted(i), requests'[i] = requests[i],
         \A r \in Resolvers : On(r, i)' <=> On(r, i),
         \A r \in Resolvers : On(r, i) => session'[r] = session[r]
  PROVE  Accounted(i)'
<1> SUFFICES ASSUME Clean(i)'
             PROVE  (Alone(i) /\ Answered(i) /\ Untouched(i) /\ InProgress(i))'
  BY DEF Accounted
<1>1. Clean(i) /\ Alone(i) /\ Answered(i) /\ Untouched(i) /\ InProgress(i)
  BY DEF Accounted, Clean
<1>2. Alone(i)'
  BY <1>1 DEF Alone
<1>3. Idle(i)' <=> Idle(i)
  BY DEF Idle
<1>4. Answered(i)' /\ Untouched(i)'
  BY <1>1, <1>3 DEF Answered, Untouched, RunsAs
<1>5. InProgress(i)'
  BY <1>1 DEF InProgress, RunsAs
<1> QED
  BY <1>2, <1>4, <1>5

\* one session moves about request j only: the other requests
LEMMA OneSessionMoves ==
  ASSUME PromotionTypeOK, NEW r \in Resolvers, NEW j, NEW s,
         session' = [session EXCEPT ![r] = s],
         session[r].at = "idle" \/ session[r].request = j,
         s.at = "idle" \/ s.request = j,
         NEW i \in DOMAIN requests, i # j, Accounted(i), requests'[i] = requests[i]
  PROVE  Accounted(i)'
<1>1. \A q \in Resolvers : session'[q] = IF q = r THEN s ELSE session[q]
  BY DEF PromotionTypeOK
<1>2. \A q \in Resolvers : (On(q, i)' <=> On(q, i)) /\ (On(q, i) => session'[q] = session[q])
  BY <1>1 DEF On
<1> QED
  BY <1>2, Undisturbed

LEMMA ResolveAccounted ==
  ASSUME PromotionInd, NEW r \in Resolvers, NEW j \in DOMAIN requests,
         NEW v \in {"approved", "rejected"}, Resolve(r, j, v), NEW i \in DOMAIN requests
  PROVE  Accounted(i)'
<1> DEFINE s == [at |-> IF v = "approved" THEN "execute" ELSE "mark", request |-> j, verdict |-> v]
           row == [requests[j] EXCEPT !.contested = @ \/ \E q \in Resolvers : On(q, j)]
<1>1. PromotionTypeOK /\ Accounted(i)
  BY DEF PromotionInd, RequestsAccounted
<1>2. /\ session[r].at = "idle" /\ requests[j].status = "pending"
      /\ session' = [session EXCEPT ![r] = s] /\ requests' = [requests EXCEPT ![j] = row]
  BY DEF Resolve, StillPending
<1>3. CASE i # j
  <2>1. requests'[i] = requests[i] /\ s.request = j
    BY <1>1, <1>2, <1>3, RowExcept
  <2> HIDE DEF s
  <2> QED
    BY <1>1, <1>2, <1>3, <2>1, OneSessionMoves
<1>4. CASE i = j
  <2>1. requests'[i] = row /\ requests[i] \in Requests
    BY <1>1, <1>2, <1>4, RowExcept, RequestTyped
  <2>2. /\ row.status = "pending" /\ row.runs = requests[i].runs
        /\ row.interrupted = requests[i].interrupted
        /\ row.contested = (requests[i].contested \/ \E q \in Resolvers : On(q, j))
    BY <1>2, <1>4, <2>1 DEF Requests
  <2> HIDE DEF row
  <2> SUFFICES ASSUME Clean(i)'
               PROVE  (Alone(i) /\ Answered(i) /\ Untouched(i) /\ InProgress(i))'
    BY DEF Accounted
  <2>3. Clean(i) /\ Idle(i)
    BY <1>4, <2>1, <2>2 DEF Clean, Idle
  <2>4. requests'[i].runs = 0 /\ requests'[i].status = "pending"
    BY <1>1, <1>2, <1>4, <2>1, <2>2, <2>3 DEF Accounted, Untouched
  <2>5. \A q \in Resolvers : session'[q] = IF q = r THEN s ELSE session[q]
    BY <1>1, <1>2 DEF PromotionTypeOK
  <2>6. \A q \in Resolvers : On(q, i)' <=> q = r
    BY <1>4, <2>3, <2>5 DEF On, Idle
  <2>7. Alone(i)' /\ Answered(i)'
    BY <2>4, <2>6 DEF Alone, Answered
  <2>8. Untouched(i)'
    BY <2>4 DEF Untouched
  <2>9. InProgress(i)'
    BY <2>4, <2>5, <2>6 DEF InProgress, RunsAs
  <2> QED
    BY <2>7, <2>8, <2>9
<1> QED
  BY <1>3, <1>4

LEMMA ExecuteAccounted ==
  ASSUME PromotionInd, NEW r \in Resolvers, Execute(r), NEW i \in DOMAIN requests
  PROVE  Accounted(i)'
<1>1. PromotionTypeOK /\ Accounted(i) /\ Sound(r)
  BY DEF PromotionInd, RequestsAccounted, SessionsSound
<1>2. PICK j \in DOMAIN requests : j = session[r].request
  BY DEF Execute, PromotionInd, PromotionTypeOK
<1> DEFINE row == [requests[j] EXCEPT !.runs = @ + 1]
           place == IF Fit(requests[j].artifact) THEN "promote" ELSE "mark"
           s == [session[r] EXCEPT !.at = place]
<1>3. /\ session[r].at = "execute" /\ session[r].verdict = "approved"
      /\ session' = [session EXCEPT ![r] = s] /\ requests' = [requests EXCEPT ![j] = row]
  BY <1>1, <1>2 DEF Execute, Sound
<1>4. s.at = place /\ s.request = j /\ s.verdict = "approved" /\ place \in {"promote", "mark"}
  BY <1>1, <1>2, <1>3 DEF PromotionTypeOK
<1> HIDE DEF s, place
<1>5. CASE i # j
  <2>1. requests'[i] = requests[i]
    BY <1>1, <1>3, <1>5, RowExcept
  <2> QED
    BY <1>1, <1>2, <1>3, <1>4, <1>5, <2>1, OneSessionMoves
<1>6. CASE i = j
  <2>1. requests'[i] = row /\ requests[i] \in Requests
    BY <1>1, <1>3, <1>6, RowExcept, RequestTyped
  <2>2. /\ row.status = requests[i].status /\ row.runs = requests[i].runs + 1
        /\ row.interrupted = requests[i].interrupted /\ row.contested = requests[i].contested
    BY <1>6, <2>1 DEF Requests
  <2> HIDE DEF row
  <2> SUFFICES ASSUME Clean(i)'
               PROVE  (Alone(i) /\ Answered(i) /\ Untouched(i) /\ InProgress(i))'
    BY DEF Accounted
  <2>3. Clean(i) /\ Alone(i) /\ Answered(i) /\ InProgress(i)
    BY <1>1, <2>1, <2>2 DEF Clean, Accounted
  <2>4. On(r, i)
    BY <1>2, <1>3, <1>6 DEF On
  <2>5. requests'[i].status = "pending" /\ requests'[i].runs = 1
    BY <1>3, <2>1, <2>2, <2>3, <2>4 DEF Answered, Idle, InProgress
  <2>6. \A q \in Resolvers : session'[q] = IF q = r THEN s ELSE session[q]
    BY <1>1, <1>3 DEF PromotionTypeOK
  <2>7. \A q \in Resolvers : On(q, i)' <=> q = r
    BY <1>4, <1>6, <2>3, <2>4, <2>6 DEF On, Alone
  <2>8. Alone(i)' /\ Answered(i)' /\ Untouched(i)'
    BY <2>5, <2>7 DEF Alone, Answered, Untouched, Idle
  <2>9. InProgress(i)'
    BY <1>4, <2>5, <2>6, <2>7 DEF InProgress, RunsAs
  <2> QED
    BY <2>8, <2>9
<1> QED
  BY <1>5, <1>6

LEMMA PromoteAccounted ==
  ASSUME PromotionInd, NEW r \in Resolvers, Promote(r), NEW i \in DOMAIN requests
  PROVE  Accounted(i)'
<1>1. PromotionTypeOK /\ Accounted(i) /\ UNCHANGED requests
  BY DEF PromotionInd, RequestsAccounted, Promote
<1>2. /\ session[r].at = "promote" /\ session'[r].at = "mark"
      /\ session'[r].request = session[r].request /\ session'[r].verdict = session[r].verdict
      /\ \A q \in Resolvers \ {r} : session'[q] = session[q]
  BY <1>1 DEF Promote, PromotionTypeOK
<1>3. \A q \in Resolvers : On(q, i)' <=> On(q, i)
  BY <1>2 DEF On
<1>4. Clean(i)' = Clean(i) /\ (Alone(i) => Alone(i)')
      /\ (Answered(i) => Answered(i)') /\ (Untouched(i) => Untouched(i)')
  BY <1>1, <1>3 DEF Clean, Alone, Answered, Untouched, Idle, RunsAs
<1>5. InProgress(i) => InProgress(i)'
  BY <1>1, <1>2, <1>3 DEF InProgress, RunsAs
<1> QED
  BY <1>1, <1>4, <1>5 DEF Accounted

\* a session that leaves, having acted on its verdict or not
LEMMA LeavesAccounted ==
  ASSUME PromotionInd, NEW r \in Resolvers, Mark(r) \/ ResolverDies(r), NEW i \in DOMAIN requests
  PROVE  Accounted(i)'
<1>1. PromotionTypeOK /\ Accounted(i) /\ Sound(r)
  BY DEF PromotionInd, RequestsAccounted, SessionsSound
<1>2. PICK j \in DOMAIN requests : j = session[r].request
  BY DEF Mark, ResolverDies, PromotionInd, PromotionTypeOK
<1> DEFINE marked == [requests[j] EXCEPT !.status = session[r].verdict]
           left == [requests[j] EXCEPT !.interrupted = @ \/ Begun(r)]
<1>3. /\ session[r].at # "idle" /\ session' = [session EXCEPT ![r] = NoSession]
      /\ \/ requests' = [requests EXCEPT ![j] = marked] /\ session[r].at = "mark"
         \/ requests' = [requests EXCEPT ![j] = left]
  BY <1>2 DEF Mark, ResolverDies
<1>4. CASE i # j
  <2>1. requests'[i] = requests[i] /\ NoSession.at = "idle"
    BY <1>1, <1>3, <1>4, RowExcept DEF NoSession
  <2> QED
    BY <1>1, <1>2, <1>3, <1>4, <2>1, OneSessionMoves
<1>5. CASE i = j
  <2>1. requests'[i] \in {marked, left} /\ (requests'[i] # left => requests'[i] = marked
          /\ session[r].at = "mark") /\ requests[i] \in Requests
    BY <1>1, <1>3, <1>5, RowExcept, RequestTyped
  <2>2. /\ requests'[i].runs = requests[i].runs /\ requests'[i].contested = requests[i].contested
        /\ \/ /\ session[r].at = "mark" /\ requests'[i].status = session[r].verdict
              /\ requests'[i].interrupted = requests[i].interrupted
           \/ /\ requests'[i].status = requests[i].status
              /\ requests'[i].interrupted = (requests[i].interrupted \/ Begun(r))
    BY <1>5, <2>1 DEF Requests
  <2> HIDE DEF marked, left
  <2> SUFFICES ASSUME Clean(i)'
               PROVE  (Alone(i) /\ Answered(i) /\ Untouched(i) /\ InProgress(i))'
    BY DEF Accounted
  <2>3. Clean(i) /\ Alone(i) /\ Answered(i) /\ InProgress(i)
    BY <1>1, <2>2 DEF Clean, Accounted
  <2>4. On(r, i) /\ requests[i].status = "pending"
    BY <1>2, <1>3, <1>5, <2>3 DEF On, Answered, Idle
  <2>5. \A q \in Resolvers : session'[q] = IF q = r THEN NoSession ELSE session[q]
    BY <1>1, <1>3 DEF PromotionTypeOK
  <2>6. Idle(i)'
    BY <2>3, <2>4, <2>5 DEF On, Idle, Alone, NoSession
  <2>7. Alone(i)' /\ InProgress(i)'
    BY <2>6 DEF Alone, Idle, InProgress
  <2>8. session[r].at \in SessionPlaces /\ session[r].verdict \in {"approved", "rejected"}
    BY <1>1, <1>3 DEF PromotionTypeOK, SessionPlaces
  <2>9. IF session[r].at = "execute" THEN requests[i].runs = 0
        ELSE RunsAs(requests[i], session[r].verdict)
    BY <2>3, <2>4 DEF InProgress
  <2>10. CASE session[r].at = "mark" /\ requests'[i].status = session[r].verdict
    <3>1. requests'[i].runs = IF session[r].verdict = "approved" THEN 1 ELSE 0
      BY <2>2, <2>9, <2>10 DEF RunsAs
    <3> QED
      BY <2>6, <2>7, <2>8, <2>10, <3>1 DEF Answered, Untouched, RunsAs
  <2>11. CASE requests'[i].status = requests[i].status
               /\ requests'[i].interrupted = (requests[i].interrupted \/ Begun(r))
    <3>1. ~Begun(r)
      BY <2>11 DEF Clean
    <3>2. requests'[i].runs = 0
      BY <1>1, <1>3, <2>2, <2>8, <2>9, <3>1 DEF Begun, Sound, RunsAs, SessionPlaces
    <3> QED
      BY <2>4, <2>7, <2>11, <3>2 DEF Answered, Untouched
  <2> QED
    BY <2>2, <2>10, <2>11
<1> QED
  BY <1>4, <1>5

LEMMA NewEpochAccounted ==
  ASSUME PromotionInd, NewEpoch, NEW i \in DOMAIN requests
  PROVE  Accounted(i)'
<1>1. PromotionTypeOK /\ Accounted(i) /\ SessionsSound /\ requests[i] \in Requests
  BY RequestTyped DEF PromotionInd, RequestsAccounted
<1>2. requests'[i] = [requests[i] EXCEPT !.interrupted = @ \/ \E r \in Resolvers : On(r, i) /\ Begun(r)]
  BY DEF NewEpoch
<1>3. /\ requests'[i].runs = requests[i].runs /\ requests'[i].status = requests[i].status
      /\ requests'[i].contested = requests[i].contested
      /\ requests'[i].interrupted = (requests[i].interrupted \/ \E r \in Resolvers : On(r, i) /\ Begun(r))
  BY <1>1, <1>2 DEF Requests
<1>4. \A r \in Resolvers : ~On(r, i)'
  BY DEF NewEpoch, On, NoSession
<1> SUFFICES ASSUME Clean(i)'
             PROVE  (Alone(i) /\ Answered(i) /\ Untouched(i) /\ InProgress(i))'
  BY DEF Accounted
<1>5. Clean(i) /\ Answered(i) /\ Untouched(i) /\ InProgress(i)
  BY <1>1, <1>3 DEF Clean, Accounted
<1>6. Alone(i)' /\ InProgress(i)' /\ Idle(i)'
  BY <1>4 DEF Alone, InProgress, Idle
<1>7. Answered(i)'
  BY <1>3, <1>5, <1>6 DEF Answered, RunsAs
<1>8. Untouched(i)'
  <2> SUFFICES ASSUME requests[i].status = "pending", NEW r \in Resolvers, On(r, i)
               PROVE  requests[i].runs = 0
    BY <1>3, <1>5 DEF Untouched, Idle
  <2>1. ~Begun(r) /\ Sound(r)
    BY <1>1, <1>3 DEF Clean, SessionsSound
  <2>2. session[r].at \in SessionPlaces \ {"idle"} /\ session[r].verdict \in {"approved", "rejected"}
    BY <1>1 DEF On, PromotionTypeOK, SessionPlaces
  <2>3. IF session[r].at = "execute" THEN requests[i].runs = 0
        ELSE RunsAs(requests[i], session[r].verdict)
    BY <1>5 DEF InProgress
  <2> QED
    BY <2>1, <2>2, <2>3 DEF Begun, Sound, RunsAs, SessionPlaces
<1> QED
  BY <1>6, <1>7, <1>8

LEMMA RequestChangeAccounted ==
  ASSUME PromotionInd, NEW a \in Artifacts, RequestChange(a), NEW i \in DOMAIN requests'
  PROVE  Accounted(i)'
<1>1. PromotionTypeOK /\ Len(requests) \in Nat /\ requests \in Seq(Requests)
  BY RequestTyped DEF PromotionInd, PromotionTypeOK
<1>2. requests' = Append(requests, Request(a)) /\ UNCHANGED session /\ Request(a) \in Requests
  BY DEF RequestChange, Request, Requests
<1>3. /\ DOMAIN requests = 1..Len(requests) /\ DOMAIN requests' = 1..(Len(requests) + 1)
      /\ \A j \in DOMAIN requests : requests'[j] = requests[j]
      /\ requests'[Len(requests) + 1] = Request(a)
  BY <1>1, <1>2, AppendProperties
<1>4. CASE i \in DOMAIN requests
  <2>1. Accounted(i) /\ requests'[i] = requests[i]
    BY <1>3, <1>4 DEF PromotionInd, RequestsAccounted
  <2>2. \A r \in Resolvers : On(r, i)' <=> On(r, i)
    BY <1>2 DEF On
  <2> QED
    BY <1>2, <1>4, <2>1, <2>2, Undisturbed
<1>5. CASE i = Len(requests) + 1
  <2>1. \A r \in Resolvers : ~On(r, i)'
    BY <1>1, <1>2, <1>3, <1>5 DEF On, PromotionTypeOK
  <2>2. requests'[i].runs = 0 /\ requests'[i].status = "pending"
    BY <1>3, <1>5 DEF Request
  <2> QED
    BY <2>1, <2>2 DEF Accounted, Alone, Answered, Untouched, InProgress, Idle
<1> QED
  BY <1>1, <1>3, <1>4, <1>5

LEMMA AccountedStep ==
  ASSUME PromotionInd, PromotionNext
  PROVE  RequestsAccounted'
<1> SUFFICES ASSUME NEW i \in DOMAIN requests' PROVE Accounted(i)'
  BY DEF RequestsAccounted
<1> USE DEF models
<1>1. ASSUME NEW a \in Artifacts, RequestChange(a) PROVE Accounted(i)'
  BY <1>1, RequestChangeAccounted
<1>2. CASE i \in DOMAIN requests
  <2>1. ASSUME UNCHANGED <<requests, session>> PROVE Accounted(i)'
    <3>1. \A r \in Resolvers : On(r, i)' <=> On(r, i)
      BY <2>1 DEF On
    <3> QED
      BY <1>2, <2>1, <3>1, Undisturbed DEF PromotionInd, RequestsAccounted
  <2>2. ASSUME NEW a \in Artifacts, NEW passed \in BOOLEAN, Train(a, passed)
        PROVE  Accounted(i)'
    BY <2>1, <2>2 DEF Train
  <2>3. CASE StillLearning
    BY <2>1, <2>3 DEF StillLearning, promotionVars
  <2>4. CASE NewEpoch
    BY <1>2, <2>4, NewEpochAccounted
  <2>5. ASSUME NEW r \in Resolvers,
               Execute(r) \/ Promote(r) \/ Mark(r) \/ ResolverDies(r)
        PROVE  Accounted(i)'
    BY <1>2, <2>5, ExecuteAccounted, PromoteAccounted, LeavesAccounted
  <2>6. ASSUME NEW r \in Resolvers, NEW j \in DOMAIN requests,
               NEW v \in {"approved", "rejected"}, Resolve(r, j, v)
        PROVE  Accounted(i)'
    BY <1>2, <2>6, ResolveAccounted
  <2> QED
    BY <1>1, <2>2, <2>3, <2>4, <2>5, <2>6 DEF PromotionNext
<1>3. CASE i \notin DOMAIN requests
  <2>1. \/ \E a \in Artifacts : RequestChange(a)
        \/ UNCHANGED requests
        \/ \E j \in DOMAIN requests : \E row : requests' = [requests EXCEPT ![j] = row]
        \/ DOMAIN requests' = DOMAIN requests
    <3>1. ASSUME NEW r \in Resolvers, Execute(r) \/ Mark(r) \/ ResolverDies(r)
          PROVE  \E j \in DOMAIN requests : \E row : requests' = [requests EXCEPT ![j] = row]
      BY <3>1 DEF Execute, Mark, ResolverDies, PromotionInd, PromotionTypeOK
    <3>2. ASSUME NEW r \in Resolvers, NEW j \in DOMAIN requests,
                 NEW v \in {"approved", "rejected"}, Resolve(r, j, v)
          PROVE  \E row : requests' = [requests EXCEPT ![j] = row]
      BY <3>2 DEF Resolve
    <3>3. NewEpoch => DOMAIN requests' = DOMAIN requests
      BY DEF NewEpoch
    <3> QED
      BY <3>1, <3>2, <3>3 DEF PromotionNext, Train, Promote, StillLearning, promotionVars
  <2> QED
    BY <1>1, <1>3, <2>1
<1> QED
  BY <1>2, <1>3

LEMMA PromotionInitInd == PromotionInit => PromotionInd
<1> SUFFICES ASSUME PromotionInit PROVE PromotionInd
  OBVIOUS
<1>1. RequestsAccounted
  BY DEF PromotionInit, RequestsAccounted
<1> QED
  BY <1>1, PromotionInitTyped, GoverningInitially DEF PromotionInd, Governing

LEMMA PromotionStepInd == PromotionInd /\ [PromotionNext]_promotionVars => PromotionInd'
<1> SUFFICES ASSUME PromotionInd, [PromotionNext]_promotionVars PROVE PromotionInd'
  OBVIOUS
<1>1. PromotionTypeOK' /\ Governing'
  BY PromotionStepTyped, GoverningStep DEF PromotionInd, Governing
<1>2. RequestsAccounted'
  <2>1. CASE UNCHANGED promotionVars
    BY <2>1 DEF promotionVars, PromotionInd, RequestsAccounted, Accounted, Clean, Alone, Answered,
       Untouched, InProgress, RunsAs, Idle, On
  <2> QED
    BY <2>1, AccountedStep
<1> QED
  BY <1>1, <1>2 DEF PromotionInd, Governing

LEMMA AccountedActsOnce == PromotionInd => ActsOnce
<1> SUFFICES ASSUME PromotionInd, NEW i \in DOMAIN requests, Clean(i)
             PROVE  LET q == requests[i] IN
                    /\ q.runs <= 1 /\ (q.status = "rejected" => q.runs = 0)
                    /\ (q.status = "approved" => q.runs = 1)
  BY DEF ActsOnce, Clean
<1>1. Answered(i) /\ Untouched(i) /\ InProgress(i)
  BY DEF PromotionInd, RequestsAccounted, Accounted
<1>2. requests[i].status # "pending" => RunsAs(requests[i], requests[i].status)
  BY <1>1 DEF Answered
<1>3. requests[i].status = "pending" =>
        requests[i].runs = 0 \/ \E v : RunsAs(requests[i], v)
  BY <1>1 DEF Untouched, Idle, InProgress
<1>4. requests[i].runs <= 1
  BY <1>2, <1>3 DEF RunsAs
<1> QED
  BY <1>2, <1>4 DEF RunsAs

\* A request to promote acts once: approved means executed once, rejected means
\* never executed.  Two sessions on one request, or one that dies between
\* executing and writing the verdict, are the only exceptions.
THEOREM RequestsActOnce == PromotionSpec => []ActsOnce
BY PromotionInitInd, PromotionStepInd, AccountedActsOnce, PTL DEF PromotionSpec

-----------------------------------------------------------------------------
(* The four together, one of them in focus.                                *)

\* a step of the whole is a step of the one in focus, and no step of the others
LEMMA StepsAreTheirs ==
  ASSUME [Next]_vars
  PROVE  /\ [UniverseNext]_universeVars /\ [OutcomesNext]_outcomesVars
         /\ [CerebroNext]_cerebroVars /\ [PromotionNext]_promotionVars
<1>1. CASE UNCHANGED vars
  BY <1>1 DEF vars
<1>2. CASE UniverseStep(UniverseNext)
  BY <1>2 DEF UniverseStep
<1>3. CASE OutcomesStep(OutcomesNext)
  BY <1>3 DEF OutcomesStep
<1>4. CASE CerebroStep(CerebroNext)
  BY <1>4 DEF CerebroStep
<1>5. CASE PromotionStep(PromotionNext)
  BY <1>5 DEF PromotionStep
<1> QED
  BY <1>1, <1>2, <1>3, <1>4, <1>5 DEF Next

(* A run of passes, sweeps, reviews and releases is a behaviour of each of *)
(* the universe, the outcomes, Cerebro and the promotions: the composition *)
(* restricts them and adds nothing, and so do its outcomes implement the   *)
(* register of resolutions and its promotions the register of weights.     *)
THEOREM LearningIsItsParts ==
  Spec => /\ UniverseSpec /\ OutcomesSpec /\ CerebroSpec /\ PromotionSpec
          /\ ImplementsRegister /\ ImplementsWeights
<1>1. Init => UniverseInit /\ OutcomesInit /\ CerebroInit /\ PromotionInit
  BY DEF Init
<1>2. Spec => UniverseSpec /\ OutcomesSpec /\ CerebroSpec /\ PromotionSpec
  BY <1>1, StepsAreTheirs, PTL
    DEF Spec, UniverseSpec, OutcomesSpec, CerebroSpec, PromotionSpec
<1> QED
  BY <1>2, OutcomesImplementsRegister, WeightsComeInOrder

(* What was proved of each module holds of the four that a run checks      *)
(* together, whatever becomes of the fairness of the run: the composition  *)
(* restricts them and adds nothing.                                        *)
THEOREM LearningTypes == Spec => []LearningTypeOK
<1> DEFINE AllInd == UniverseInd /\ OutcomesInd /\ CerebroInd /\ PromotionInd
<1>1. Init => AllInd
  BY UniverseInitInd, OutcomesInitInd, CerebroInitInd, PromotionInitInd DEF Init
<1>2. AllInd /\ [Next]_vars => AllInd'
  BY StepsAreTheirs, UniverseStepInd, OutcomesStepInd, CerebroStepInd, PromotionStepInd
<1>3. AllInd => LearningTypeOK
  BY CerebroIndTypes DEF UniverseInd, OutcomesInd, PromotionInd, LearningTypeOK
<1> QED
  BY <1>1, <1>2, <1>3, PTL DEF Spec
=============================================================================
