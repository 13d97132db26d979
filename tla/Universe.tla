------------------------------ MODULE Universe ------------------------------
(***************************************************************************)
(* forecast/discovery.py, the broker's discover_markets, and the catalogue *)
(* tables of forecast/db.py: which markets a cycle evaluates.  A process   *)
(* that runs run_execution_cycle lists the exchange series by series,      *)
(* writes the events and contracts it found, takes off those it did not    *)
(* find, retires expired rows, polls the quotes of what is left and        *)
(* evaluates it.  Each write is a transaction of its own; _discovery_lock  *)
(* orders the passes of one process, nothing orders those of two.          *)
(*                                                                         *)
(* A contract row is keyed by market, close time and side: a market whose  *)
(* close time moves gets new rows, and its old rows stay active with it.   *)
(* A failed request, a locked database or an exception is a fault; the     *)
(* code goes on after each.                                                *)
(***************************************************************************)
EXTENDS Integers, FiniteSets

CONSTANTS
  Scanners,     \* the processes that run the cycle
  Listings,     \* markets of the exchange, by ticker
  EventOf,      \* the event a market belongs to
  SeriesOf,     \* and the series of that event
  MinLead,      \* MIN_HOURS_TO_RESOLUTION
  MaxLead,      \* MAX_DAYS_TO_RESOLUTION
  LastHour,     \* bound: hours that pass, and close times
  MaxMoved,     \* bound: close times moved
  MaxSlips      \* bound: faults

ASSUME UniverseAssumption ==
  /\ Scanners # {} /\ MinLead \in Nat /\ MaxLead \in Nat /\ LastHour \in Nat
  /\ MaxMoved \in Nat /\ MaxSlips \in Nat

VARIABLES
  hour,         \* the clock
  open,         \* exchange: the markets that are "active"
  over,         \* exchange: those that are closed, at their time or early
  closeAt,      \* exchange: close_time
  eventsOn,     \* forecast_markets: active
  rowsOn,       \* forecast_contracts: active
  settledRows,  \* the contracts with a row in forecast_resolutions
  quotes,       \* forecast_quotes: within the age limit, or older
  pass,         \* where a process is in its cycle
  evaluated,    \* what it evaluated in this cycle
  owed,         \* history: processes that have not cleaned up since a market closed
  moved, slips

exchange == <<hour, open, over, closeAt, moved>>
tables == <<eventsOn, rowsOn, settledRows, quotes>>
scans == <<pass, evaluated>>
universeVars == <<exchange, tables, scans, owed, slips>>

Rights == {"C", "P"}
Hours == 0 .. LastHour
Rows == Listings \X Hours \X Rights
Events == {EventOf[m] : m \in Listings}
AllSeries == {SeriesOf[m] : m \in Listings}
Unopened == Listings \ (open \cup over)
\* a pass: series or contracts still to do, contracts and stubs found, and the
\* markets that were over when it began
Passes == [at : {"idle", "list", "persist", "contracts", "expire", "quotes", "evaluate"},
           series : SUBSET AllSeries, found : SUBSET (Listings \X Hours),
           ranked : SUBSET (Listings \X Hours), stubs : SUBSET Events,
           todo : SUBSET (Listings \X Hours), past : SUBSET Listings]
NoPass == [at |-> "idle", series |-> {}, found |-> {}, ranked |-> {}, stubs |-> {},
           todo |-> {}, past |-> {}]

UniverseInit ==
  /\ hour = 0 /\ open = {} /\ over = {} /\ closeAt \in [Listings -> Hours \ {0}]
  /\ eventsOn = {} /\ rowsOn = {} /\ settledRows = {}
  /\ quotes = [r \in Listings \X Hours |-> "none"]
  /\ pass = [p \in Scanners |-> NoPass]
  /\ evaluated = [p \in Scanners |-> {}]
  /\ owed = [m \in Listings |-> {}] /\ moved = 0 /\ slips = 0

-----------------------------------------------------------------------------
(* The exchange and the clock.                                             *)

Opens(m) ==
  /\ m \in Unopened /\ hour < closeAt[m]
  /\ open' = open \cup {m}
  /\ UNCHANGED <<hour, over, closeAt, moved, tables, scans, owed, slips>>

ClosesNow(markets) ==
  /\ open' = open \ markets /\ over' = over \cup markets
  /\ owed' = [m \in Listings |-> IF m \in markets THEN Scanners ELSE owed[m]]

ClosesEarly(m) ==
  /\ m \in open /\ ClosesNow({m})
  /\ UNCHANGED <<hour, closeAt, moved, tables, scans, slips>>

CloseMoves(m, h) ==
  /\ m \in open /\ h \in Hours /\ h > hour /\ h # closeAt[m] /\ moved < MaxMoved
  /\ closeAt' = [closeAt EXCEPT ![m] = h] /\ moved' = moved + 1
  /\ UNCHANGED <<hour, open, over, tables, scans, owed, slips>>

HourPasses ==
  /\ hour < LastHour /\ hour' = hour + 1
  /\ ClosesNow({m \in Listings \ over : closeAt[m] <= hour + 1})
  /\ quotes' = [r \in DOMAIN quotes |-> IF quotes[r] = "none" THEN "none" ELSE "stale"]
  /\ UNCHANGED <<closeAt, moved, eventsOn, rowsOn, settledRows, scans, slips>>

\* resolution_sync gives a contract of a market that is over its result
Settles(r) ==
  /\ r[1] \in over /\ r \notin settledRows /\ r \in rowsOn
  /\ settledRows' = settledRows \cup {r}
  /\ UNCHANGED <<exchange, eventsOn, rowsOn, quotes, scans, owed, slips>>

-----------------------------------------------------------------------------
(* discover_markets                                                        *)

\* deactivate_expired_contracts
Unexpired == {r \in rowsOn : r[2] > hour /\ r \notin settledRows}

GoTo(p, place) == pass' = [pass EXCEPT ![p].at = place]
Slip == slips < MaxSlips /\ slips' = slips + 1
NoSlip == UNCHANGED slips

\* a cycle starts, connected; the series are those of the catalogue, or of
\* STATIONS when it cannot be read
BeginPass(p) ==
  /\ pass[p].at = "idle"
  /\ pass' = [pass EXCEPT ![p] = [NoPass EXCEPT !.at = "list", !.series = AllSeries,
                                                !.past = over]]
  /\ evaluated' = [evaluated EXCEPT ![p] = {}]
  /\ UNCHANGED <<exchange, tables, owed, slips>>

\* a cycle that cannot connect lists nothing, cleans nothing and polls nothing
Disconnected(p) ==
  /\ pass[p].at = "idle" /\ Slip
  /\ rowsOn' = Unexpired /\ evaluated' = [evaluated EXCEPT ![p] = {}]
  /\ UNCHANGED <<exchange, eventsOn, settledRows, quotes, pass, owed>>

InSeries(s) == {m \in Listings : SeriesOf[m] = s}
\* the events request of one series: contracts of active markets, and a stub for
\* an event with markets still initialized
ListSeries(p, s) ==
  /\ pass[p].at = "list" /\ s \in pass[p].series
  /\ pass' = [pass EXCEPT
       ![p].series = @ \ {s},
       ![p].found = @ \cup {<<m, closeAt[m]>> : m \in open \cap InSeries(s)},
       ![p].stubs = @ \cup {EventOf[m] : m \in Unopened \cap InSeries(s)}]
  /\ UNCHANGED <<exchange, tables, evaluated, owed, slips>>

\* the request fails and the series is skipped
SeriesSkipped(p, s) ==
  /\ pass[p].at = "list" /\ s \in pass[p].series /\ Slip
  /\ pass' = [pass EXCEPT ![p].series = @ \ {s}]
  /\ UNCHANGED <<exchange, tables, evaluated, owed>>

\* an exception ends the listing; what was found by then is returned
ListingBreaks(p) ==
  /\ pass[p].at = "list" /\ pass[p].series # {} /\ Slip
  /\ pass' = [pass EXCEPT ![p].series = {}]
  /\ UNCHANGED <<exchange, tables, evaluated, owed>>

-----------------------------------------------------------------------------
(* run_discovery                                                           *)

\* _rank_contracts: neither too close to its resolution nor too far from it
InWindow(h) == h - hour >= MinLead /\ h - hour <= MaxLead

\* the stubs are written (or not, on a fault), the contracts ranked
Rank(p) ==
  /\ pass[p].at = "list" /\ pass[p].series = {}
  /\ LET ranked == {c \in pass[p].found : InWindow(c[2])} IN
     pass' = [pass EXCEPT ![p].at = "persist", ![p].ranked = ranked, ![p].todo = ranked]
  /\ \/ eventsOn' = eventsOn \cup pass[p].stubs /\ NoSlip
     \/ pass[p].stubs # {} /\ UNCHANGED eventsOn /\ Slip
  /\ UNCHANGED <<exchange, rowsOn, settledRows, quotes, evaluated, owed>>

\* mutant: a row that was quoted exists, and is only stamped
WrittenOnce(c, sides) == {<<c[1], c[2], s>> : s \in IF quotes[c] = "none" THEN sides ELSE {}}
\* the rows are inserted, or made active again
Written(c, sides) == {<<c[1], c[2], s>> : s \in sides}

EventUpserted(e) == eventsOn \cup {e}

\* upsert_market, and upsert_contract for each side
Persist(p, c, sides) ==
  /\ pass[p].at = "persist" /\ c \in pass[p].todo /\ sides \subseteq Rights
  /\ pass' = [pass EXCEPT ![p].todo = @ \ {c}]
  /\ \/ eventsOn' = EventUpserted(EventOf[c[1]])
     \/ sides = {} /\ UNCHANGED eventsOn
  /\ rowsOn' = rowsOn \cup Written(c, sides)
  /\ IF sides = Rights THEN NoSlip ELSE Slip
  /\ UNCHANGED <<exchange, settledRows, quotes, evaluated, owed>>

SeenEvents(p) == pass[p].stubs \cup {EventOf[c[1]] : c \in pass[p].ranked}
SeenMarkets(p) == {c[1] : c \in pass[p].ranked}
Persisted(p) == pass[p].at = "persist" /\ pass[p].todo = {}

\* deactivate_markets_not_in_symbols
CleanEvents(p) ==
  /\ Persisted(p) /\ SeenEvents(p) # {}
  /\ eventsOn' = eventsOn \cap SeenEvents(p)
  /\ GoTo(p, "contracts")
  /\ UNCHANGED <<exchange, rowsOn, settledRows, quotes, evaluated, owed, slips>>

\* mutant: the rows of an event that was seen are kept
KeptOfEvent(p) == {r \in rowsOn : EventOf[r[1]] \in SeenEvents(p)}
Kept(p) == {r \in rowsOn : r[1] \in SeenMarkets(p)}

\* deactivate_contracts_not_in_symbols: by ticker, all of them if none was seen
CleanContracts(p) ==
  /\ pass[p].at = "contracts"
  /\ rowsOn' = Kept(p)
  /\ owed' = [m \in Listings |-> IF m \in pass[p].past THEN owed[m] \ {p} ELSE owed[m]]
  /\ GoTo(p, "expire")
  /\ UNCHANGED <<exchange, eventsOn, settledRows, quotes, evaluated, slips>>

\* nothing was seen, or the database is locked: the rest is left as it is
NotCleaned(p) ==
  /\ Persisted(p) \/ pass[p].at = "contracts"
  /\ IF SeenEvents(p) = {} THEN NoSlip ELSE Slip
  /\ GoTo(p, "expire")
  /\ UNCHANGED <<exchange, tables, evaluated, owed>>

-----------------------------------------------------------------------------
(* The rest of the cycle.                                                  *)

ExpireRows(p) ==
  /\ pass[p].at = "expire"
  /\ rowsOn' = Unexpired
  /\ GoTo(p, "quotes")
  /\ UNCHANGED <<exchange, eventsOn, settledRows, quotes, evaluated, owed, slips>>

\* get_active_contracts
ActiveRows == {r \in rowsOn : EventOf[r[1]] \in eventsOn /\ r \notin settledRows}
ActiveContracts == {c \in Listings \X Hours : \E s \in Rights : <<c[1], c[2], s>> \in ActiveRows}

\* get_quote: an orderbook gives a price to both sides of a contract, or to none
Replies == SUBSET ActiveContracts
Quoted(answered) == [c \in DOMAIN quotes |-> IF c \in answered THEN "fresh" ELSE quotes[c]]

\* _poll_and_build: the books are fetched in parallel, then written
PollQuotes(p, answered) ==
  /\ pass[p].at = "quotes" /\ answered \in Replies
  /\ IF \A c \in ActiveContracts \ answered : c[1] \notin open THEN NoSlip ELSE Slip
  /\ quotes' = Quoted(answered)
  /\ GoTo(p, "evaluate")
  /\ UNCHANGED <<exchange, eventsOn, rowsOn, settledRows, evaluated, owed>>

\* build_market_snapshots: both sides active
Snapshots == {c \in ActiveContracts :
                \A s \in Rights : <<c[1], c[2], s>> \in ActiveRows}
WithinAgeLimit(c) == quotes[c] = "fresh"
Evaluable == {c \in Snapshots : WithinAgeLimit(c)}
EvaluateMarkets(p) ==
  /\ pass[p].at = "evaluate"
  /\ evaluated' = [evaluated EXCEPT ![p] = Evaluable]
  /\ pass' = [pass EXCEPT ![p] = NoPass]
  /\ UNCHANGED <<exchange, tables, owed, slips>>

\* settlements or positions could not be read: no entries in this cycle
NoEntries(p) ==
  /\ pass[p].at = "evaluate" /\ Slip
  /\ pass' = [pass EXCEPT ![p] = NoPass]
  /\ UNCHANGED <<exchange, tables, evaluated, owed>>

-----------------------------------------------------------------------------
PassOn(p) ==
  \/ BeginPass(p) \/ Rank(p)
  \/ \E s \in AllSeries : ListSeries(p, s)
  \/ \E c \in pass[p].todo : Persist(p, c, Rights)
  \/ CleanEvents(p) \/ CleanContracts(p) \/ NotCleaned(p)
  \/ ExpireRows(p) \/ PollQuotes(p, ActiveContracts) \/ EvaluateMarkets(p)

UniverseNext ==
  \/ HourPasses
  \/ \E m \in Listings : Opens(m) \/ ClosesEarly(m) \/ \E h \in Hours : CloseMoves(m, h)
  \/ \E r \in Rows : Settles(r)
  \/ \E p \in Scanners :
       \/ PassOn(p) \/ Disconnected(p) \/ ListingBreaks(p) \/ NoEntries(p)
       \/ \E s \in AllSeries : SeriesSkipped(p, s)
       \/ \E c \in pass[p].todo, sides \in SUBSET Rights : Persist(p, c, sides)
       \/ \E answered \in Replies : PollQuotes(p, answered)

UniverseSpec == UniverseInit /\ [][UniverseNext]_universeVars

-----------------------------------------------------------------------------
UniverseTypeOK ==
  /\ hour \in Hours /\ open \subseteq Listings /\ over \subseteq Listings
  /\ closeAt \in [Listings -> Hours]
  /\ eventsOn \subseteq Events /\ rowsOn \subseteq Rows /\ settledRows \subseteq Rows
  /\ quotes \in [Listings \X Hours -> {"none", "fresh", "stale"}]
  /\ pass \in [Scanners -> Passes]
  /\ evaluated \in [Scanners -> SUBSET (Listings \X Hours)]
  /\ owed \in [Listings -> SUBSET Scanners] /\ moved \in Nat /\ slips \in Nat

\* Once every process has been through a clean-up of a pass it began after a
\* market closed, no row of that market is active any more, whatever requests
\* failed and whoever wrote in between: no listing older than the close can
\* bring it back (discovery.py:262-282).
ClosedIsDropped ==
  \A m \in over : owed[m] = {} => \A r \in rowsOn : r[1] # m

Tradable(m) == m \in open /\ InWindow(closeAt[m])
\* A market that stays tradable is evaluated again and again: neither a series
\* skipped, a listing cut short, a row half written, another process's older
\* listing nor a moved close time keeps it off the table for good
\* (discovery.py:203-257, db.py:670-735).
OpenIsEvaluated ==
  \A m \in Listings :
    []<>(Tradable(m) => \E p \in Scanners : <<m, closeAt[m]>> \in evaluated[p])
=============================================================================
