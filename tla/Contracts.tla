----------------------------- MODULE Contracts -----------------------------
(***************************************************************************)
(* What a daily temperature contract says and how it comes out: the bounds *)
(* that forecast/weather_contracts.py reads from a title or a ticker, the  *)
(* observed value data/kalshi_weather_monitor.py answers with, and the     *)
(* provisional resolutions forecast/resolution_sync.py writes from both.   *)
(*                                                                         *)
(* The contracts of one event are a ladder: "below a", then ranges, then   *)
(* "above b".  Temperatures are in half degrees, so a bound set half a     *)
(* degree off a displayed number is exact, and a whole degree is even.     *)
(***************************************************************************)
EXTENDS Integers, FiniteSets

CONSTANTS
  Bottom,     \* the degree of the lowest rung: "below Bottom"
  Bins,       \* how many ranges of two degrees follow
  Readings,   \* what the sources may show, in half degrees
  MaxRises,   \* bound: changes of what the sources show
  Unseen      \* no value

ASSUME ContractsAssumption ==
  /\ Bottom \in Int /\ Bins \in Nat /\ Readings \subseteq Int /\ Unseen \notin Readings
  /\ MaxRises \in Nat

VARIABLES
  titled,     \* the rows carry Kalshi's titles; else only ticker and strike
  due,        \* the ladder's deadline is over
  past,       \* the station's settlement day is over
  watermark,  \* the day's extreme seen by METAR; Unseen at first
  report,     \* the NWS climate report; Unseen until it is issued
  archive,    \* the Open-Meteo archive's value
  cached,     \* _OBSERVED_DAILY_CACHE of the day; Unseen when absent or too old
  rises,
  told        \* rung -> resolution row: its side, and the reading it rests on

contractsVars == <<titled, due, past, watermark, report, archive, cached, rises, told>>

Rungs == 0..(Bins + 1)
Untold == [side |-> "open", by |-> Unseen]

-----------------------------------------------------------------------------
(* What the contracts say.                                                 *)

HalfStep == 1  \* _contract_half_step of HIGH and LOW

\* degrees, as half degrees
Deg(n) == 2 * n

LowOf(r) == Bottom + 2 * (r - 1)
Between(low, high) == [is |-> "between", low |-> Deg(low) - HalfStep, high |-> Deg(high) + HalfStep]
Above(n) == [is |-> "gt", limit |-> Deg(n) + HalfStep]
Below(n) == [is |-> "lt", limit |-> Deg(n) - HalfStep]
Ambiguous == [is |-> "ambiguous"]

\* "be <79", "79 to 80", "be >82"
Titled(r) ==
  IF r = 0 THEN Below(Bottom)
  ELSE IF r = Bins + 1 THEN Above(LowOf(r) - 1)
  ELSE Between(LowOf(r), LowOf(r) + 1)
\* -B79.5 spans the degrees around its strike; a -T ticker may mean either end
FromTicker(r) ==
  IF r \in 1..Bins THEN Between(LowOf(r), LowOf(r) + 1) ELSE Ambiguous
\* resolve_weather_contract
Semantics(r) == IF titled THEN Titled(r) ELSE FromTicker(r)

\* mutant: both bounds of a range belong to it
SatisfiesClosed(value, s) ==
  CASE s.is = "between" -> s.low <= value /\ value <= s.high
    [] s.is = "gt"      -> value >= s.limit
    [] s.is = "lt"      -> value <= s.limit
\* member_satisfies_contract
Satisfies(value, s) ==
  CASE s.is = "between" -> s.low <= value /\ value < s.high
    [] s.is = "gt"      -> value >= s.limit
    [] s.is = "lt"      -> value <= s.limit

-----------------------------------------------------------------------------
(* The day and its sources.                                                *)

ContractsInit ==
  /\ titled \in BOOLEAN
  /\ due = FALSE /\ past = FALSE
  /\ watermark = Unseen /\ report = Unseen /\ archive = Unseen /\ cached = Unseen
  /\ rises = 0
  /\ told = [r \in Rungs |-> Untold]

DeadlinePasses ==
  /\ ~due /\ due' = TRUE
  /\ UNCHANGED <<titled, past, watermark, report, archive, cached, rises, told>>

DayEnds ==
  /\ ~past /\ past' = TRUE
  /\ UNCHANGED <<titled, due, watermark, report, archive, cached, rises, told>>

\* a new extreme of the day, a report or a value of the archive
SourceShows(value) ==
  /\ rises < MaxRises /\ rises' = rises + 1
  /\ \/ ~past /\ watermark' = value /\ UNCHANGED <<report, archive>>
     \/ past /\ report' = value /\ UNCHANGED <<watermark, archive>>
     \/ past /\ archive' = value /\ UNCHANGED <<watermark, report>>
  /\ UNCHANGED <<titled, due, past, cached, told>>

CacheExpires ==
  /\ cached # Unseen /\ cached' = Unseen
  /\ UNCHANGED <<titled, due, past, watermark, report, archive, rises, told>>

\* _fetch_observed_daily_summary past its cache: the report, or else the archive
Asked(unanswered) ==
  IF report # Unseen /\ "report" \notin unanswered THEN report
  ELSE IF "archive" \in unanswered THEN Unseen ELSE archive

\* get_contract_observed_weather_data
ObservedData(unanswered) ==
  IF ~past THEN watermark
  ELSE IF cached # Unseen THEN cached
  ELSE Asked(unanswered)

-----------------------------------------------------------------------------
(* sync_forecast_resolutions, one row at a time.                           *)

Side(r, value) == IF Satisfies(value, Semantics(r)) THEN "YES" ELSE "NO"

\* the row is due and has no resolution; either source may fail to answer
SyncRow(r, unanswered) ==
  LET value == ObservedData(unanswered) IN
  /\ due /\ told[r] = Untold /\ value # Unseen
  /\ cached' = IF past THEN value ELSE cached
  /\ told' = [told EXCEPT ![r] =
                IF Semantics(r) = Ambiguous THEN Untold   \* skipped_unsupported
                ELSE [side |-> Side(r, value), by |-> value]]
  /\ UNCHANGED <<titled, due, past, watermark, report, archive, rises>>

ContractsNext ==
  \/ DeadlinePasses \/ DayEnds \/ CacheExpires
  \/ \E v \in Readings : SourceShows(v)
  \/ \E r \in Rungs, unanswered \in SUBSET {"report", "archive"} : SyncRow(r, unanswered)

ContractsSpec == ContractsInit /\ [][ContractsNext]_contractsVars

-----------------------------------------------------------------------------
ContractsTypeOK ==
  /\ titled \in BOOLEAN /\ due \in BOOLEAN /\ past \in BOOLEAN /\ rises \in 0..MaxRises
  /\ {watermark, report, archive, cached} \subseteq Readings \cup {Unseen}
  /\ told \in [Rungs -> [side : {"open", "YES", "NO"}, by : Readings \cup {Unseen}]]

Won(value) == {r \in Rungs : told[r] = [side |-> "YES", by |-> value]}
ToldBy(value) == {r \in Rungs : told[r].by = value}
Edge == Deg(Bottom) - HalfStep

\* Of the contracts of an event, resolved on one reading, exactly one wins: no
\* reading falls between two rungs, and only one that lies on the very bound
\* between the lowest two, which no whole degree does, wins twice.
OneRungWins ==
  \A value \in Readings :
    /\ Cardinality(Won(value)) <= (IF value = Edge THEN 2 ELSE 1)
    /\ ToldBy(value) = Rungs => Won(value) # {}
=============================================================================
