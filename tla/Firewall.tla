------------------------------ MODULE Firewall ------------------------------
(***************************************************************************)
(* The stateful entry firewall of forecast/firewall.py: the SQLite tables  *)
(* firewall_state, firewall_round_trips, firewall_realized_events and      *)
(* firewall_day_pnl, shared by every process of the bot, and the processes *)
(* that use them.  A trader (the execution daemon, or sniper_cron) runs    *)
(* cycles: official settlement sync, then exits and entry checks.  A       *)
(* watcher (scripts/watchdog.py) only asks whether entries are allowed     *)
(* today, a question that may itself reset the flag.                       *)
(*                                                                         *)
(* Every function opens its own connection, so each SQL transaction is one *)
(* step and anything may happen between two of them.  Time is counted in   *)
(* ticks; Day is the UTC day of a tick.  Money is in units of the smallest *)
(* profit or loss an exit makes here.                                      *)
(***************************************************************************)
EXTENDS Integers, Sequences, FiniteSets, FiniteSetsExt

CONSTANTS
  Traders,      \* processes that run execution cycles
  Watchers,     \* processes that only read the daily flag
  Daemon,       \* the trader that calls reset_daily_flag at its day turn
  Tickers,
  Expiry,       \* resolution_at known for a ticker, 0 when it is not known
  DayLength,    \* ticks in a UTC day
  Window,       \* the six hours of _OSCILLATION_WINDOW_HOURS, in ticks
  TripLimit,    \* _OSCILLATION_TRIP_LIMIT
  EdgeWindow,   \* the trailing 30 days, in ticks
  BankrollLimit,\* 3% of the bankroll
  Amounts,      \* realized profit or loss of an exit or a settlement
  MaxTime,      \* bound: the last tick
  MaxOrders,    \* bound: exit fills
  NoRow         \* absence of a row

Procs  == Traders \cup Watchers
Times  == 0..MaxTime
Orders == 1..MaxOrders

ASSUME ProcsAssumption ==
  /\ Traders \cap Watchers = {}
  /\ Daemon \in Traders
ASSUME TimeAssumption ==
  /\ DayLength \in Nat \ {0} /\ MaxTime \in Nat /\ MaxOrders \in Nat
  /\ Window \in Nat /\ EdgeWindow \in Nat /\ TripLimit \in Nat \ {0}
  /\ Expiry \in [Tickers -> Times]
ASSUME MoneyAssumption == BankrollLimit \in Nat /\ Amounts \subseteq Int

CheckPlaces == {"flag", "heal", "loss", "edge", "block", "halt", "lockout", "trips",
                "writeHalt"}
Places == CheckPlaces \cup {"idle", "record"}

ExitKinds == {"salvage", "take_profit", "swap", "partial_swap"}
NoFill == [order |-> 0, pnl |-> 0, kind |-> "none"]
Fills  == [order: Orders, pnl: Amounts, kind: ExitKinds] \cup {NoFill}

ExitRows     == [ticker: Tickers, at: Times, pnl: Amounts]
OfficialRows == [at: Times, pnl: Amounts]
ASSUME NoRowAssumption == NoRow \notin ExitRows \cup OfficialRows

VARIABLES
  clock,
  flag,         \* the __global__ row: entries_allowed and updated_at
  halted,       \* tickers whose row has entries_allowed = 0 and a reason
  lockout,      \* lockout_until of a ticker, 0 when empty or no row
  trips,        \* firewall_round_trips: how many closed at a tick
  exitRow,      \* provisional exit_fill events, by the order that filled
  officialRow,  \* kalshi_settlement events, by ticker
  dayPnl,       \* firewall_day_pnl
  settle,       \* the exchange: official settlement of a ticker
  orders,       \* exit fills so far
  phase,        \* where a trader is in its cycle
  lastDay,      \* last_utc_day of the daemon
  pc, target, lossRead,  \* an entry check in progress
  allowed,      \* the last check of a trader allowed its entry
  todo, fill,   \* the firewall writes an exit still has to make
  lossExited,   \* history: tickers with a committed loss-exit lockout
  standing      \* history: what has barred the target since the check began

tables  == <<flag, halted, lockout, trips, exitRow, officialRow, dayPnl>>
world   == <<clock, settle, orders>>
control == <<phase, lastDay, pc, target, lossRead, allowed, todo, fill>>
vars    == <<tables, world, control, lossExited, standing>>

Day(t) == t \div DayLength
Days   == {Day(t) : t \in Times}

-----------------------------------------------------------------------------
(* What the queries compute.                                               *)

ExitSum(rows, from, to) ==
  MapThenSumSet(LAMBDA o : rows[o].pnl,
    {o \in Orders : rows[o] # NoRow /\ rows[o].at \in from..to})
OfficialSum(rows, from, to) ==
  MapThenSumSet(LAMBDA t : rows[t].pnl,
    {t \in Tickers : rows[t] # NoRow /\ rows[t].at \in from..to})
\* SUM(pnl_usd) of the events between two ticks
PnlBetween(from, to) ==
  ExitSum(exitRow, from, to) + OfficialSum(officialRow, from, to)
PnlOfDay(d) == PnlBetween(d * DayLength, d * DayLength + DayLength - 1)

\* _get_today_day_loss
DayLoss(d) == IF PnlOfDay(d) < 0 THEN -PnlOfDay(d) ELSE 0

OverBankrollLimit(loss) == loss > 0 /\ loss > BankrollLimit

\* _get_trailing_30d_mean_daily_edge: the winning days' sums, and its test
EdgeSum(d)  == LET start == clock - EdgeWindow
                   first == d * DayLength
               IN  PnlBetween(IF start > first THEN start ELSE first,
                              first + DayLength - 1)
WinningDays == {d \in Days : EdgeSum(d) > 0}
ExceedsEdge(loss) ==
  /\ WinningDays # {}
  /\ loss * Cardinality(WinningDays) > 5 * MapThenSumSet(EdgeSum, WinningDays)

\* check_oscillation_breaker: round trips of the trailing window
TripsSince(row, since) == MapThenSumSet(LAMBDA x : row[x], {x \in Times : x >= since})
RecentTrips(t) == TripsSince(trips[t], clock - Window)

BlockedToday == ~flag.allowed /\ Day(flag.at) = Day(clock)

-----------------------------------------------------------------------------
(* What stands against an entry on t in this very state.  standing keeps,  *)
(* for each trader, the bars that have stood at every instant since its    *)
(* check began: a check that allows the entry must have missed none.       *)
Bars(t) ==
  {b \in {"blocked", "loss", "halted", "lockout", "oscillation"} :
     \/ b = "blocked"     /\ BlockedToday
     \/ b = "loss"        /\ OverBankrollLimit(DayLoss(Day(clock)))
     \/ b = "halted"      /\ t \in halted
     \/ b = "lockout"     /\ t \in lossExited /\ clock < Expiry[t]
     \/ b = "oscillation" /\ RecentTrips(t) >= TripLimit}

Init ==
  /\ clock = 0 /\ settle = [t \in Tickers |-> NoRow] /\ orders = 0
  /\ flag = [allowed |-> TRUE, at |-> 0]
  /\ halted = {} /\ lockout = [t \in Tickers |-> 0]
  /\ trips = [t \in Tickers |-> [x \in Times |-> 0]]
  /\ exitRow = [o \in Orders |-> NoRow]
  /\ officialRow = [t \in Tickers |-> NoRow]
  /\ dayPnl = [d \in Days |-> 0]
  /\ phase = [p \in Traders |-> "top"] /\ lastDay = 0
  /\ pc = [p \in Procs |-> "idle"]
  /\ target \in [Traders -> Tickers]
  /\ lossRead = [p \in Traders |-> 0]
  /\ allowed = [p \in Traders |-> FALSE]
  /\ todo = [p \in Traders |-> <<>>]
  /\ fill = [p \in Traders |-> NoFill]
  /\ lossExited = {} /\ standing = [p \in Traders |-> {}]

Goto(p, place) == pc' = [pc EXCEPT ![p] = place]
Decide(p, answer) ==
  /\ Goto(p, "idle")
  /\ allowed' = IF p \in Traders THEN [allowed EXCEPT ![p] = answer = "allow"]
                                   ELSE allowed
InCheck == UNCHANGED <<world, phase, lastDay, target, todo, fill, lossExited>>

-----------------------------------------------------------------------------
(* check_entry_firewall, gate by gate.                                     *)

StartCheck(p, t) ==
  /\ p \in Traders /\ pc[p] = "idle" /\ phase[p] = "strategy"
  /\ Goto(p, "flag")
  /\ target' = [target EXCEPT ![p] = t]
  /\ allowed' = [allowed EXCEPT ![p] = FALSE]
  /\ UNCHANGED <<tables, world, phase, lastDay, lossRead, todo, fill, lossExited>>

\* scripts/watchdog.py asks is_entries_allowed_today()
StartWatch(p) ==
  /\ p \in Watchers /\ pc[p] = "idle"
  /\ Goto(p, "flag")
  /\ UNCHANGED <<tables, world, phase, lastDay, target, lossRead, allowed, todo,
                 fill, lossExited>>

AfterFlag(p) ==
  IF p \in Watchers THEN Decide(p, "allow")
                    ELSE Goto(p, "loss") /\ UNCHANGED allowed

\* is_entries_allowed_today: the read
ReadFlag(p) ==
  /\ pc[p] = "flag"
  /\ \/ flag.allowed /\ AfterFlag(p)
     \/ BlockedToday /\ Decide(p, "veto")
     \/ /\ ~flag.allowed /\ Day(flag.at) # Day(clock)
        /\ Goto(p, "heal") /\ UNCHANGED allowed
  /\ UNCHANGED <<tables, lossRead>> /\ InCheck

\* reset_daily_flag
ResetDailyFlag == flag' = [allowed |-> TRUE, at |-> clock]

\* mutant: the healed flag answers for the whole firewall
HealFlagSkipsGates(p) ==
  /\ pc[p] = "heal"
  /\ ResetDailyFlag
  /\ Decide(p, "allow")
  /\ UNCHANGED <<halted, lockout, trips, exitRow, officialRow, dayPnl, lossRead>>
  /\ InCheck
\* is_entries_allowed_today: the self-healing reset, a later transaction
HealFlag(p) ==
  /\ pc[p] = "heal"
  /\ ResetDailyFlag
  /\ AfterFlag(p)
  /\ UNCHANGED <<halted, lockout, trips, exitRow, officialRow, dayPnl, lossRead>>
  /\ InCheck

\* check_kill_switch: today's loss, then the trailing edge
ReadLoss(p) ==
  /\ pc[p] = "loss"
  /\ lossRead' = [lossRead EXCEPT ![p] = DayLoss(Day(clock))]
  /\ Goto(p, IF DayLoss(Day(clock)) > 0 THEN "edge" ELSE "halt")
  /\ UNCHANGED <<tables, allowed>> /\ InCheck

CompareEdge(p) ==
  /\ pc[p] = "edge"
  /\ Goto(p, IF OverBankrollLimit(lossRead[p]) \/ ExceedsEdge(lossRead[p])
             THEN "block" ELSE "halt")
  /\ lossRead' = [lossRead EXCEPT ![p] = 0]  \* a local, not used again
  /\ UNCHANGED <<tables, allowed>> /\ InCheck

\* set_entries_blocked
BlockEntries(p) ==
  /\ pc[p] = "block"
  /\ flag' = [allowed |-> FALSE, at |-> clock]
  /\ Decide(p, "veto")
  /\ UNCHANGED <<halted, lockout, trips, exitRow, officialRow, dayPnl, lossRead>>
  /\ InCheck

\* is_ticker_halted
CheckHalt(p) ==
  /\ pc[p] = "halt"
  /\ IF target[p] \in halted THEN Decide(p, "veto")
                             ELSE Goto(p, "lockout") /\ UNCHANGED allowed
  /\ UNCHANGED <<tables, lossRead>> /\ InCheck

\* check_reentry_lockout
CheckLockout(p) ==
  /\ pc[p] = "lockout"
  /\ IF clock < lockout[target[p]] THEN Decide(p, "veto")
                                   ELSE Goto(p, "trips") /\ UNCHANGED allowed
  /\ UNCHANGED <<tables, lossRead>> /\ InCheck

\* check_oscillation_breaker: the count
CountTrips(p) ==
  /\ pc[p] = "trips"
  /\ IF RecentTrips(target[p]) >= TripLimit
     THEN Goto(p, "writeHalt") /\ UNCHANGED allowed
     ELSE Decide(p, "allow")
  /\ UNCHANGED <<tables, lossRead>> /\ InCheck

\* _write_halt_state
WriteHalt(p) ==
  /\ pc[p] = "writeHalt"
  /\ halted' = halted \cup {target[p]}
  /\ Decide(p, "veto")
  /\ UNCHANGED <<flag, lockout, trips, exitRow, officialRow, dayPnl, lossRead>>
  /\ InCheck

\* any database error in a check, or while it writes: no entry
CheckFails(p) ==
  /\ pc[p] \notin {"idle", "record"}
  /\ Decide(p, "veto")
  /\ lossRead' = IF p \in Traders THEN [lossRead EXCEPT ![p] = 0] ELSE lossRead
  /\ UNCHANGED tables /\ InCheck

-----------------------------------------------------------------------------
(* An exit fills at the exchange, and the runner then makes its firewall   *)
(* writes one by one.  The kind of exit decides which, and in what order.  *)

FirewallWrites(kind) ==
  CASE kind = "salvage"      -> <<"lockout", "roundTrip", "pnl">>
    [] kind = "take_profit"  -> <<"roundTrip", "pnl">>
    [] kind = "swap"         -> <<"pnl", "roundTrip">>
    [] kind = "partial_swap" -> <<"pnl">>

\* mutant: the event is named before the order is counted
ExitFillUncounted(p, t, kind, pnl) ==
  /\ p \in Traders /\ pc[p] = "idle" /\ phase[p] = "strategy"
  /\ settle[t] = NoRow /\ orders < MaxOrders
  /\ orders' = orders + 1
  /\ fill' = [fill EXCEPT ![p] = [order |-> orders, pnl |-> pnl, kind |-> kind]]
  /\ todo' = [todo EXCEPT ![p] = FirewallWrites(kind)]
  /\ target' = [target EXCEPT ![p] = t]
  /\ allowed' = [allowed EXCEPT ![p] = FALSE]
  /\ Goto(p, "record")
  /\ UNCHANGED <<tables, clock, settle, phase, lastDay, lossRead, lossExited>>
ExitFill(p, t, kind, pnl) ==
  /\ p \in Traders /\ pc[p] = "idle" /\ phase[p] = "strategy"
  /\ settle[t] = NoRow /\ orders < MaxOrders
  /\ orders' = orders + 1
  /\ fill' = [fill EXCEPT ![p] = [order |-> orders + 1, pnl |-> pnl, kind |-> kind]]
  /\ todo' = [todo EXCEPT ![p] = FirewallWrites(kind)]
  /\ target' = [target EXCEPT ![p] = t]
  /\ allowed' = [allowed EXCEPT ![p] = FALSE]
  /\ Goto(p, "record")
  /\ UNCHANGED <<tables, clock, settle, phase, lastDay, lossRead, lossExited>>

NextWrite(p, write) == /\ pc[p] = "record"
                       /\ todo[p] # <<>> /\ Head(todo[p]) = write
\* the writes left to p; with the last one its handler of the exit returns
Leave(p, writes) ==
  /\ todo' = [todo EXCEPT ![p] = writes]
  /\ Goto(p, IF writes = <<>> THEN "idle" ELSE "record")
  /\ fill' = IF writes = <<>> THEN [fill EXCEPT ![p] = NoFill] ELSE fill
  /\ UNCHANGED <<world, phase, lastDay, target, lossRead, allowed>>
Written(p) == Leave(p, Tail(todo[p]))

\* mutant: INSERT OR REPLACE, which writes the row's defaults over a halt
RecordExitLockoutReplaces(p) ==
  /\ NextWrite(p, "lockout") /\ Written(p)
  /\ lockout' = [lockout EXCEPT ![target[p]] = Expiry[target[p]]]
  /\ halted' = halted \ {target[p]}
  /\ lossExited' = lossExited \cup {target[p]}
  /\ UNCHANGED <<flag, trips, exitRow, officialRow, dayPnl>>
\* record_exit_lockout, of a loss-realizing exit
RecordExitLockout(p) ==
  /\ NextWrite(p, "lockout") /\ Written(p)
  /\ lockout' = [lockout EXCEPT ![target[p]] = Expiry[target[p]]]
  /\ lossExited' = lossExited \cup {target[p]}
  /\ UNCHANGED <<flag, halted, trips, exitRow, officialRow, dayPnl>>

\* record_round_trip
RecordRoundTrip(p) ==
  /\ NextWrite(p, "roundTrip") /\ Written(p)
  /\ trips' = [trips EXCEPT ![target[p]][clock] = @ + 1]
  /\ UNCHANGED <<flag, halted, lockout, exitRow, officialRow, dayPnl, lossExited>>

\* record_realized_pnl: the event, and the bucket of its day
RecordRealizedPnl(p) ==
  /\ NextWrite(p, "pnl") /\ Written(p)
  /\ exitRow' = [exitRow EXCEPT ![fill[p].order] =
                   [ticker |-> target[p], at |-> clock, pnl |-> fill[p].pnl]]
  /\ UNCHANGED <<flag, halted, lockout, trips, officialRow, lossExited>>
  /\ dayPnl' = [dayPnl EXCEPT ![Day(clock)] = PnlOfDay(Day(clock))']

\* a write raises: the writes of its try block after it are not made
WriteFails(p) ==
  /\ pc[p] = "record" /\ todo[p] # <<>>
  /\ Leave(p, IF fill[p].kind = "swap" THEN Tail(todo[p]) ELSE <<>>)
  /\ UNCHANGED <<tables, lossExited>>

-----------------------------------------------------------------------------
(* The cycle of a trader.                                                  *)

Moves(p, from, to) ==
  /\ p \in Traders /\ pc[p] = "idle" /\ phase[p] = from
  /\ phase' = [phase EXCEPT ![p] = to]
  /\ allowed' = [allowed EXCEPT ![p] = FALSE]
  /\ UNCHANGED <<world, pc, target, lossRead, todo, fill, lossExited>>

\* top of the daemon's loop: the reset at its UTC day turn may fail, and is
\* then tried again by the next cycle; sniper_cron has no such step
BeginCycle(p) ==
  /\ Moves(p, "top", "sync")
  /\ \/ /\ p = Daemon /\ Day(clock) # lastDay
        /\ ResetDailyFlag /\ lastDay' = Day(clock)
     \/ UNCHANGED <<flag, lastDay>>
  /\ UNCHANGED <<halted, lockout, trips, exitRow, officialRow, dayPnl>>

\* mutant: the official rows are added beside the provisional ones
SyncKeepsProvisional(p) ==
  /\ Moves(p, "sync", "strategy")
  /\ officialRow' = [t \in Tickers |-> IF settle[t] # NoRow THEN settle[t]
                                      ELSE officialRow[t]]
  /\ UNCHANGED <<flag, halted, lockout, trips, exitRow, lastDay>>
  /\ dayPnl' = [d \in Days |-> PnlOfDay(d)']
\* mutant: only the bucket of the present day is summed again
SyncRebuildsToday(p) ==
  /\ Moves(p, "sync", "strategy")
  /\ LET settled == {t \in Tickers : settle[t] # NoRow}
     IN  /\ exitRow' = [o \in Orders |->
                          IF exitRow[o] # NoRow /\ exitRow[o].ticker \in settled
                          THEN NoRow ELSE exitRow[o]]
         /\ officialRow' = [t \in Tickers |->
                              IF t \in settled THEN settle[t] ELSE officialRow[t]]
  /\ dayPnl' = [dayPnl EXCEPT ![Day(clock)] = PnlOfDay(Day(clock))']
  /\ UNCHANGED <<flag, halted, lockout, trips, lastDay>>
\* sync_official_settlement_pnl: one transaction over every settled ticker
SyncOfficialSettlementPnl(p) ==
  /\ Moves(p, "sync", "strategy")
  /\ LET settled == {t \in Tickers : settle[t] # NoRow}
     IN  /\ exitRow' = [o \in Orders |->
                          IF exitRow[o] # NoRow /\ exitRow[o].ticker \in settled
                          THEN NoRow ELSE exitRow[o]]
         /\ officialRow' = [t \in Tickers |->
                              IF t \in settled THEN settle[t] ELSE officialRow[t]]
  /\ dayPnl' = [d \in Days |-> PnlOfDay(d)']
  /\ UNCHANGED <<flag, halted, lockout, trips, lastDay>>

\* the settlements cannot be read: no strategy step in this cycle
SyncFails(p) == Moves(p, "sync", "monitor") /\ UNCHANGED <<tables, lastDay>>

\* run_position_monitor may find the quotes incoherent (check_quote_coherence)
CoherenceHalt(p, t) ==
  /\ Moves(p, "monitor", "monitor") /\ t \notin halted
  /\ halted' = halted \cup {t}
  /\ UNCHANGED <<flag, lockout, trips, exitRow, officialRow, dayPnl, lastDay>>

EndStrategy(p) == Moves(p, "strategy", "monitor") /\ UNCHANGED <<tables, lastDay>>
EndCycle(p)    == Moves(p, "monitor", "top") /\ UNCHANGED <<tables, lastDay>>

\* the process dies and is started again: what it had not written is lost,
\* and the daemon takes the present day for the one it has reset
Restart(p) ==
  /\ p \in Traders
  /\ Goto(p, "idle")
  /\ phase' = [phase EXCEPT ![p] = "top"]
  /\ todo' = [todo EXCEPT ![p] = <<>>]
  /\ allowed' = [allowed EXCEPT ![p] = FALSE]
  /\ lastDay' = IF p = Daemon THEN Day(clock) ELSE lastDay
  /\ fill' = [fill EXCEPT ![p] = NoFill]
  /\ lossRead' = [lossRead EXCEPT ![p] = 0]
  /\ UNCHANGED <<tables, world, target, lossExited>>

-----------------------------------------------------------------------------
(* The world: time passes, and the exchange settles expired markets.       *)

Tick ==
  /\ clock < MaxTime /\ clock' = clock + 1
  /\ UNCHANGED <<tables, settle, orders, control, lossExited>>

Settle(t, pnl) ==
  /\ settle[t] = NoRow /\ clock >= Expiry[t]
  /\ settle' = [settle EXCEPT ![t] = [at |-> clock, pnl |-> pnl]]
  /\ UNCHANGED <<tables, clock, orders, control, lossExited>>

Check(p) ==
  \/ ReadFlag(p) \/ HealFlag(p) \/ ReadLoss(p) \/ CompareEdge(p) \/ BlockEntries(p)
  \/ CheckHalt(p) \/ CheckLockout(p) \/ CountTrips(p) \/ WriteHalt(p) \/ CheckFails(p)
Exit(p) ==
  \/ RecordExitLockout(p) \/ RecordRoundTrip(p) \/ RecordRealizedPnl(p) \/ WriteFails(p)
Cycle(p) ==
  \/ BeginCycle(p) \/ SyncOfficialSettlementPnl(p) \/ SyncFails(p)
  \/ EndStrategy(p) \/ EndCycle(p) \/ Restart(p)
  \/ \E t \in Tickers : CoherenceHalt(p, t)

Step ==
  \/ \E p \in Procs : Check(p) \/ Exit(p) \/ Cycle(p) \/ StartWatch(p)
  \/ \E p \in Traders, t \in Tickers :
       \/ StartCheck(p, t)
       \/ \E kind \in ExitKinds, pnl \in Amounts : ExitFill(p, t, kind, pnl)
  \/ Tick
  \/ \E t \in Tickers, pnl \in Amounts : Settle(t, pnl)

\* a check that begins is barred by all that stands; then bars only fall away
Observe ==
  standing' = [p \in Traders |->
    IF pc[p] = "idle" /\ pc'[p] = "flag" THEN Bars(target[p])'
    ELSE IF pc'[p] \in CheckPlaces \/ allowed'[p]
         THEN standing[p] \cap Bars(target[p])' ELSE {}]

Next == Step /\ Observe

Spec == Init /\ [][Next]_vars

\* A trader keeps cycling: its checks and writes end, the candidates and
\* positions it loops over are finitely many, and a daemon that comes back
\* after every failure reads the settlements again and again.
Fairness ==
  \A p \in Traders :
    /\ WF_vars((Check(p) \/ Exit(p)) /\ Observe)
    /\ WF_vars(BeginCycle(p) /\ Observe)
    /\ SF_vars(EndStrategy(p) /\ Observe)
    /\ SF_vars(EndCycle(p) /\ Observe)
    /\ SF_vars(SyncOfficialSettlementPnl(p) /\ Observe)
FairSpec == Spec /\ Fairness
-----------------------------------------------------------------------------
(* Properties.                                                             *)

Writes == {"lockout", "roundTrip", "pnl"}

TablesOK ==
  /\ flag \in [allowed: BOOLEAN, at: Times]
  /\ halted \subseteq Tickers
  /\ lockout \in [Tickers -> Times]
  /\ trips \in [Tickers -> [Times -> Nat]]
  /\ exitRow \in [Orders -> ExitRows \cup {NoRow}]
  /\ officialRow \in [Tickers -> OfficialRows \cup {NoRow}]
  /\ DOMAIN dayPnl = Days
WorldOK ==
  /\ clock \in Times /\ orders \in 0..MaxOrders
  /\ settle \in [Tickers -> OfficialRows \cup {NoRow}]
ControlOK ==
  /\ phase \in [Traders -> {"top", "sync", "strategy", "monitor"}]
  /\ lastDay \in Days
  /\ pc \in [Procs -> Places]
  /\ \A p \in Watchers : pc[p] \in {"idle", "flag", "heal"}
  /\ target \in [Traders -> Tickers]
  /\ allowed \in [Traders -> BOOLEAN]
  /\ DOMAIN lossRead = Traders
  /\ todo \in [Traders -> Seq(Writes)]
  /\ fill \in [Traders -> Fills]
  /\ \A p \in Traders : pc[p] = "record" => fill[p] # NoFill
HistoryOK ==
  /\ lossExited \subseteq Tickers
  /\ standing \in [Traders -> SUBSET {"blocked", "loss", "halted", "lockout",
                                     "oscillation"}]

(* Every table, cycle position and write queue keeps its type: an exit's   *)
(* event always has an order to be named by, and no row is half written.   *)
TypeOK == TablesOK /\ WorldOK /\ ControlOK /\ HistoryOK

(* check_entry_firewall never allows an entry over a bar that has stood    *)
(* from the first gate to the verdict, however the other processes' writes *)
(* fall between its five reads, the day turns, or a process restarts.      *)
StandingBarVetoes ==
  \A p \in Traders : allowed[p] => standing[p] = {}

(* A halt is for good: no lockout upsert, day turn, self-heal, settlement  *)
(* sync or restart ever gives the ticker back its entries.                 *)
HaltsArePermanent == [][halted \subseteq halted']_vars

(* Between two transactions firewall_day_pnl is the sum of the day's       *)
(* realized events, also after official rows moved losses to other days.   *)
DayBucketsExact == \A d \in Days : dayPnl[d] = PnlOfDay(d)

(* In the end a settled market stands in the ledger with its official      *)
(* amount alone, whatever exit fills were recorded late, in part or never. *)
OfficialReplacesProvisional ==
  <>[](\A t \in Tickers : settle[t] # NoRow =>
         /\ officialRow[t] = settle[t]
         /\ \A o \in Orders : exitRow[o] # NoRow => exitRow[o].ticker # t)

(* reset_daily_flag: "only UTC day boundary may lift the kill switch"      *)
(* (forecast/firewall.py:614): a block written on the present UTC day,     *)
(* whose loss is over the limit, is not lifted before that day ends.       *)
NoIntradayResume ==
  [][BlockedToday /\ OverBankrollLimit(DayLoss(Day(clock))) /\ flag'.allowed
       => Day(clock') # Day(clock)]_vars

(* record_exit_lockout: fresh entries are blocked "until after settlement" *)
(* (forecast/firewall.py:130): no entry check that follows a loss exit's   *)
(* lockout allows the ticker while the market has not settled.             *)
LossExitLocksTicker ==
  [][\A p \in Traders : allowed'[p] /\ ~allowed[p] =>
       ~(target[p] \in lossExited /\ settle[target[p]] = NoRow)]_vars
=============================================================================
