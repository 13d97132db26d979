------------------------------ MODULE Trading ------------------------------
(***************************************************************************)
(* The trading cycle of execution_daemon.py and forecast/runner.py, run    *)
(* by one process over the broker session of Broker: startup sweep and     *)
(* reconciliation, exits, the candidate loop with its swap and its two     *)
(* refreshes of the book, the order, and the position monitor.             *)
(*                                                                         *)
(* What weighs a candidate or a position (forecasts, quotes, sizing, the   *)
(* firewall and release gates) is a choice here: any of them may veto.     *)
(* Modelled in full is what those decisions rest on: which book is read,   *)
(* when it is refreshed, and what is written when a call comes back.       *)
(* Local database writes succeed; a failed one is logged and forgotten.    *)
(***************************************************************************)
EXTENDS Broker

CONSTANTS
  Cap,        \* KALSHI_MAX_CONCURRENT_POSITIONS
  Bonus,      \* KALSHI_ULTRA_HIGH_PROB_NO_CONCURRENT_BONUS
  Ultra,      \* tickers whose candidate is an ultra-conviction NO
  MaxCrashes, \* bound: deaths of the process
  NoTicker

ASSUME TradingAssumption ==
  /\ Cap \in Nat \ {0} /\ Bonus \in Nat /\ Ultra \subseteq Tickers
  /\ MaxCrashes \in Nat /\ IsFiniteSet(Tickers) /\ NoTicker \notin Tickers

VARIABLES
  at,         \* where the process is in its cycle
  todo,       \* the candidates or positions its loop has left
  deal,       \* what it has in hand: the ticker, the position a swap gives up
              \* for it, the quantity to sell, the book it was admitted on
  db,         \* forecast_positions: quantity of the active row, 0 if none
  strays,     \* history: positions that no reported entry opened
  unrecorded, \* history: tickers with a close that no ledger write followed
  uncertain,  \* history: an order of this cycle may still be live
  crashes     \* deaths so far

tradingVars == <<brokerVars, at, todo, deal, db, strays, unrecorded, uncertain, crashes>>

Flat == [t \in Tickers |-> 0]
Deal(t, w, q, b) == [ticker |-> t, worst |-> w, qty |-> q, book |-> b]
NoDeal == Deal(NoTicker, NoTicker, 0, Flat)
Size(positions) == Cardinality(Open(positions))
\* get_kalshi_effective_concurrent_cap
EffectiveCap(t) == IF t \in Ultra THEN Cap + Bonus ELSE Cap

TradingInit ==
  /\ BrokerInit
  /\ at = "down" /\ todo = {} /\ deal = NoDeal /\ db = Flat
  /\ strays = {} /\ unrecorded = {} /\ uncertain = FALSE /\ crashes = 0

\* the process goes on at a place, with what is left to do there, empty-handed
Go(place, left) == at' = place /\ todo' = left /\ deal' = NoDeal
\* it goes on at a place with something in hand
With(place, d)  == at' = place /\ deal' = d
NoWrites == UNCHANGED <<db, unrecorded, uncertain>>
Filled == result.status = "executed" /\ result.filled > 0

-----------------------------------------------------------------------------
(* Startup: nothing is traded before the sweep and the reconciliation.     *)

StartSweep ==
  /\ at = "down" /\ ListResting /\ Go("sweeping", {}) /\ NoWrites

EndStartSweep ==
  /\ at = "sweeping" /\ Idle
  /\ Go(IF result.status = "sweep_ok" THEN "boot" ELSE "down", {})
  /\ Forget /\ NoWrites

\* reconcile_forecast_positions: rows the book does not have are closed, the
\* others take its quantities
Mirror == db' = cache'

StartReconciliation ==
  /\ at = "boot"
  /\ \/ SyncOk /\ Mirror /\ Go("top", {})
     \/ SyncFails /\ Go("down", {}) /\ UNCHANGED db
  /\ UNCHANGED <<unrecorded, uncertain>>

-----------------------------------------------------------------------------
(* run_strategy_cycle: exits of the positions it finds open                *)

StartStrategy ==
  /\ at = "top"
  /\ \/ SyncOk /\ Go("exits", Open(cache'))
     \/ SyncFails /\ Go("monitor", {})
  /\ NoWrites

\* the settlement refresh failed, or there is nothing to evaluate
SkipStrategy ==
  /\ at = "top" /\ Go("monitor", {})
  /\ UNCHANGED brokerVars /\ NoWrites

\* no exit is due, or there is no bid
HoldPosition(t) ==
  /\ at = "exits" /\ t \in todo /\ Go("exits", todo \ {t})
  /\ UNCHANGED brokerVars /\ NoWrites

ExitPosition(t) ==
  /\ at = "exits" /\ t \in todo /\ cache[t] > 0
  /\ Post("sell", t, cache[t])
  /\ With("exiting", Deal(t, NoTicker, cache[t], Flat))
  /\ todo' = todo \ {t}
  /\ NoWrites

\* mutant: a partial fill closes the row, as it once did
ExitDonePartialCloses ==
  /\ at = "exiting" /\ Idle
  /\ db' = [db EXCEPT ![deal.ticker] = IF Filled THEN 0 ELSE @]
  /\ Go("exits", todo)
  /\ Forget /\ UNCHANGED <<unrecorded, uncertain>>
\* a fill is given to the firewall's ledger; only a full one closes the row
ExitDone ==
  /\ at = "exiting" /\ Idle
  /\ db' = [db EXCEPT ![deal.ticker] = IF Filled /\ result.left = 0 THEN 0 ELSE @]
  /\ Go("exits", todo)
  /\ Forget /\ UNCHANGED <<unrecorded, uncertain>>

\* the book is read again and the markets are evaluated against it; the
\* capital, release and economic gates may leave no candidate
EndExits ==
  /\ at = "exits" /\ todo = {}
  /\ \/ /\ SyncOk
        /\ \E candidates \in SUBSET {t \in Tickers : cache'[t] = 0
                                       /\ Size(cache') < EffectiveCap(t)} :
             Go("loop", candidates)
     \/ SyncFails /\ Go("monitor", {})
  /\ NoWrites

-----------------------------------------------------------------------------
(* The candidate loop                                                      *)

NextCandidate(t) == Go("loop", todo \ {t})

\* the firewall, the contract's scope or the economics veto it
VetoCandidate(t) ==
  /\ at = "loop" /\ t \in todo /\ NextCandidate(t)
  /\ UNCHANGED brokerVars /\ NoWrites

\* the duplicate guard, then the plan
Admitted(t, w) ==
  IF cache'[t] = 0
  THEN With("planned", Deal(t, w, 0, cache')) /\ todo' = todo \ {t}
  ELSE NextCandidate(t)

\* mutant: the cap is what it was at the evaluation
AdmitCandidateStaleCap(t) ==
  /\ at = "loop" /\ t \in todo
  /\ \/ SyncFails /\ NextCandidate(t)
     \/ SyncOk /\ Admitted(t, NoTicker)
  /\ NoWrites
\* _refresh_entry_risk_book: admission is against the book of this moment
AdmitCandidate(t) ==
  /\ at = "loop" /\ t \in todo
  /\ \/ SyncFails /\ NextCandidate(t)
     \/ /\ SyncOk
        /\ \/ NextCandidate(t)      \* the buying power could not be read, or at cap
                            \* and every position is worth keeping
           \/ Size(cache') < Cap /\ Admitted(t, NoTicker)
           \/ \E w \in Open(cache') :
                /\ Size(cache') >= Cap
                /\ With("swap", Deal(t, w, cache'[w], Flat))
                /\ todo' = todo \ {t}
  /\ NoWrites

\* the worst position is sold to make room
Swap ==
  /\ at = "swap"
  /\ \/ Post("sell", deal.worst, deal.qty) /\ With("swapping", deal) /\ UNCHANGED todo
     \/ UNCHANGED brokerVars /\ Go("loop", todo)      \* no bid
  /\ NoWrites

SwapNotFilled ==
  /\ at = "swapping" /\ Idle /\ ~Filled
  /\ Go("loop", todo)
  /\ Forget /\ NoWrites

\* the book could not be read after the swap: nothing of it is written down
SwapUnread ==
  /\ at = "swapping" /\ Idle /\ Filled
  /\ SyncFails \/ SyncOk
  /\ unrecorded' = IF result.left = 0 THEN unrecorded \cup {deal.worst} ELSE unrecorded
  /\ Go("loop", todo)
  /\ UNCHANGED <<db, uncertain>>

\* mutant: a sale that executed is taken for one that made room
SwapDoneUnchecked ==
  /\ at = "swapping" /\ Idle /\ Filled
  /\ SyncOk
  /\ db' = [db EXCEPT ![deal.worst] = IF cache'[deal.worst] = 0 THEN 0 ELSE @]
  /\ Admitted(deal.ticker, deal.worst)
  /\ UNCHANGED <<unrecorded, uncertain>>
\* _swap_exit_freed_capacity decides on the refreshed book
SwapDone ==
  /\ at = "swapping" /\ Idle /\ Filled
  /\ SyncOk
  /\ db' = [db EXCEPT ![deal.worst] = IF cache'[deal.worst] = 0 THEN 0 ELSE @]
  /\ IF cache'[deal.worst] = 0 /\ Size(cache') < EffectiveCap(deal.ticker)
     THEN Admitted(deal.ticker, deal.worst)
     ELSE Go("loop", todo)
  /\ UNCHANGED <<unrecorded, uncertain>>

-----------------------------------------------------------------------------
(* execute_plan                                                            *)

\* a limit, the plan, the evidence write or a gate stops the candidate
DropPlan ==
  /\ at \in {"planned", "submit"} /\ Go("loop", todo)
  /\ UNCHANGED brokerVars /\ NoWrites

\* mutant: the refreshed book is not compared with the admitted one
RefreshUncompared ==
  /\ at = "planned"
  /\ \/ SyncOk /\ With("submit", deal) /\ UNCHANGED todo
     \/ SyncFails /\ Go("loop", todo)
  /\ NoWrites
\* _refresh_submission_risk_state
RefreshSubmissionRiskState ==
  /\ at = "planned"
  /\ \/ /\ SyncOk
        /\ IF cache' = deal.book THEN With("submit", deal) /\ UNCHANGED todo
           ELSE Go("loop", todo)
     \/ SyncFails /\ Go("loop", todo)
  /\ NoWrites

\* the last gate wants the snapshot fresh, and the order goes out
Submit ==
  /\ at = "submit" /\ Fresh
  /\ \E q \in Sizes : Post("buy", deal.ticker, q)
  /\ With("entering", deal) /\ UNCHANGED todo
  /\ NoWrites

\* a reported fill gets its row; a rate limit ends the loop.  The statuses
\* that would end it for an uncertain cancel are none the broker returns
EntryDone ==
  /\ at = "entering" /\ Idle
  /\ IF result.filled > 0
     THEN db' = [db EXCEPT ![deal.ticker] = cache[deal.ticker]]
     ELSE UNCHANGED db
  /\ uncertain' = (uncertain \/ result.status = "unexpected_resting_uncertain")
  /\ IF result.status = "too_many_requests" THEN Go("monitor", {}) ELSE Go("loop", todo)
  /\ Forget /\ UNCHANGED unrecorded

EndLoop ==
  /\ at = "loop" /\ todo = {} /\ Go("monitor", {})
  /\ UNCHANGED brokerVars /\ NoWrites

-----------------------------------------------------------------------------
(* run_position_monitor                                                    *)

\* a failed sync leaves the book as it was, and the monitor goes by it
Monitor ==
  /\ at = "monitor"
  /\ SyncOk \/ SyncFails
  /\ Mirror
  /\ Go("watch", Open(cache'))
  /\ UNCHANGED <<unrecorded, uncertain>>

LeavePosition(t) ==
  /\ at = "watch" /\ t \in todo /\ Go("watch", todo \ {t})
  /\ UNCHANGED brokerVars /\ NoWrites

\* a limit exit for what the bid can take: all of it, or a part
MonitorExit(t) ==
  /\ at = "watch" /\ t \in todo
  /\ \E q \in 1..cache[t] :
       /\ Post("sell", t, q)
       /\ With(IF q = cache[t] THEN "selling" ELSE "selling_last",
               Deal(t, NoTicker, cache[t], Flat))
  /\ todo' = todo \ {t}
  /\ NoWrites

\* the full exit did not execute: once more, at the market
MonitorFallback ==
  /\ at = "selling" /\ Idle /\ result.status # "executed"
  /\ \/ /\ Post("sell", deal.ticker, deal.qty)
        /\ With("selling_last", deal) /\ UNCHANGED todo
     \/ Forget /\ Go("watch", todo)     \* no bid
  /\ NoWrites

\* mutant: the fill taken off what is left after it
RemainingTwice == result.left - result.filled
\* remaining_qty = float(remaining_position_qty or qty): a remainder of zero
\* reads as the whole quantity, so the row is never closed here
Remaining == IF result.left > 0 THEN result.left ELSE deal.qty

MonitorExitDone ==
  /\ at \in {"selling", "selling_last"} /\ Idle
  /\ at = "selling" => result.status = "executed"
  /\ IF result.filled > 0
     THEN /\ db' = [db EXCEPT ![deal.ticker] = Remaining]
          /\ unrecorded' = IF result.left = 0 THEN unrecorded \cup {deal.ticker}
                           ELSE unrecorded
     ELSE UNCHANGED <<db, unrecorded>>
  /\ Go("watch", todo)
  /\ Forget /\ UNCHANGED uncertain

EndCycle ==
  /\ at = "watch" /\ todo = {} /\ Go("top", {})
  /\ uncertain' = FALSE
  /\ UNCHANGED <<brokerVars, db, unrecorded>>

-----------------------------------------------------------------------------
\* the process dies anywhere, its session with it; the database stays
Crash ==
  /\ at # "down" /\ crashes < MaxCrashes
  /\ crashes' = crashes + 1
  /\ Dies /\ Go("down", {}) /\ uncertain' = FALSE
  /\ UNCHANGED <<db, unrecorded>>

Daemon ==
  \/ StartSweep \/ EndStartSweep \/ StartReconciliation
  \/ StartStrategy \/ SkipStrategy \/ ExitDone \/ EndExits
  \/ Swap \/ SwapNotFilled \/ SwapUnread \/ SwapDone
  \/ DropPlan \/ RefreshSubmissionRiskState \/ Submit \/ EntryDone \/ EndLoop
  \/ Monitor \/ MonitorFallback \/ MonitorExitDone \/ EndCycle
  \/ \E t \in Tickers : \/ HoldPosition(t) \/ ExitPosition(t)
                        \/ VetoCandidate(t) \/ AdmitCandidate(t)
                        \/ LeavePosition(t) \/ MonitorExit(t)

\* a position is a stray from when the world opens it until it is flat again
Opened == {t \in Open(held') : held[t] = 0}
TradingNext ==
  \/ /\ \/ Daemon /\ UNCHANGED crashes
        \/ Crash
     /\ strays' = strays \cap Open(held')
  \/ /\ Session
     /\ strays' = strays \cap Open(held')
     /\ UNCHANGED <<at, todo, deal, db, unrecorded, uncertain, crashes>>
  \/ /\ World
     /\ strays' = (strays \cap Open(held')) \cup Opened
     /\ UNCHANGED <<at, todo, deal, db, unrecorded, uncertain, crashes>>

TradingSpec == TradingInit /\ [][TradingNext]_tradingVars

-----------------------------------------------------------------------------
(* Properties.                                                             *)

TradingTypeOK ==
  /\ at \in {"down", "sweeping", "boot", "top", "exits", "exiting", "loop", "swap",
             "swapping", "planned", "submit", "entering", "monitor", "watch",
             "selling", "selling_last"}
  /\ todo \subseteq Tickers
  /\ deal \in [ticker: Tickers \cup {NoTicker}, worst: Tickers \cup {NoTicker},
              qty: Nat, book: [Tickers -> Nat]]
  /\ db \in [Tickers -> Nat]
  /\ strays \subseteq Open(held) /\ unrecorded \subseteq Tickers
  /\ uncertain \in BOOLEAN /\ crashes \in 0..MaxCrashes

(* The concurrency cap: however fills go unreported, syncs fail and swaps  *)
(* fall short, the positions that entries opened stay within the caps of   *)
(* their tickers, the bonus being for ultra-conviction candidates alone.   *)
(* Only positions no entry opened (strays) can stand above it.             *)
CapOverrunOnlyByStrays ==
  LET own == Open(held) \ strays IN
  /\ Cardinality(own \ Ultra) <= Cap
  /\ Cardinality(own) <= Cap + Bonus

(* "Hard duplicate guard: no same-contract double-down" (runner.py:1692):  *)
(* an entry adds to a position only if that position appeared after the    *)
(* last refresh before the order, when no guard could see it.              *)
Adds(t) == /\ Len(order') > Len(order)
           /\ order'[Len(order')].kind = "buy" /\ order'[Len(order')].ticker = t
NeverDoublesDown ==
  [][\A t \in Tickers : Adds(t) => held[t] = 0 \/ t \in blind]_tradingVars

(* An entry is sent only when the positions the process can know of leave  *)
(* room for one more under the candidate's own cap: after a partial or     *)
(* unfilled swap sale, or fills that came in meanwhile, they do not.       *)
EntriesHaveRoom ==
  [][\A t \in Tickers : Adds(t) => Cardinality(Open(held) \ blind) < EffectiveCap(t)]_tradingVars

(* A row of forecast_positions is closed only when the position is gone:   *)
(* not for a partial fill (runner.py:1050), a lost reply or a failed sync. *)
RowsCloseOnFlat ==
  [][\A t \in Tickers : db[t] > 0 /\ db'[t] = 0 => held[t] = 0 \/ t \in blind]_tradingVars

(* After a whole cycle the local rows agree with the exchange, except for  *)
(* what no reply has told the process, and for a row the monitor itself    *)
(* left open behind a position it had sold.                                *)
RowsMirrorBook ==
  at = "top" => \A t \in Tickers \ blind :
                  db[t] = held[t] \/ (held[t] = 0 /\ t \in unrecorded)

(* firewall.py:375 says record_realized_pnl is "called from runner.py      *)
(* after every position close".  Expected to fail: the monitor never does. *)
ClosesAreRecorded == unrecorded = {}

(* runner.py:2031 and 2103: "Stopping candidate loop because order         *)
(* cancellation is uncertain."  Expected to fail: the loop goes on.        *)
UncertainCancelStopsEntries == uncertain => at \notin {"submit", "entering"}
=============================================================================
