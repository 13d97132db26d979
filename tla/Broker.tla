------------------------------- MODULE Broker -------------------------------
(***************************************************************************)
(* The broker session of execution/kalshi_broker.py: one process's cached  *)
(* position book, its order calls, and the exchange behind them.  The      *)
(* process makes one call at a time, but each HTTP request of a call is a  *)
(* step of its own: between two of them orders fill, late requests arrive, *)
(* and positions change for reasons this process never hears of.           *)
(*                                                                         *)
(* A ticker is one (local_symbol, right) key of _open_positions; contracts *)
(* are counted in lots.  The exchange half is external: what the code      *)
(* expects of immediate-or-cancel orders, cancels and listings, with the   *)
(* anomalies it defends against (lost replies, orders that rest).          *)
(***************************************************************************)
EXTENDS Integers, Sequences, FiniteSets

CONSTANTS
  Tickers,
  MaxLots,      \* bound: contracts in an order, or brought from elsewhere
  MaxOrders,    \* bound: order requests
  MaxElsewhere  \* bound: position changes that are not this account session's

Sizes  == 1..MaxLots
ASSUME BoundsAssumption ==
  MaxLots \in Nat \ {0} /\ MaxOrders \in Nat \ {0} /\ MaxElsewhere \in Nat

Kinds == {"buy", "sell"}
\* sent into the dark; on the book; with a cancel accepted; over
States == {"sent", "resting", "cancelling", "done"}
Statuses == {"none", "executed", "no_fill", "error", "too_many_requests",
             "unexpected_resting_cancelled", "unexpected_resting_uncertain",
             "sweep_ok", "sweep_failed"}

VARIABLES
  held,          \* exchange: contracts held of a ticker
  order,         \* exchange: the order requests so far, what became of each
  elsewhere,     \* position changes by others so far
  cache,         \* _open_positions
  snapshot,      \* of _positions_authoritative and the age of the snapshot
  call,          \* the request the process waits for
  sweep,         \* a cancel_all_resting_orders in progress
  result,        \* what the last call returned
  blind          \* history: tickers changed since the last sync unreported

exchange == <<held, order, elsewhere>>
book     == <<cache, snapshot, blind>>
session  == <<call, sweep, result>>
brokerVars == <<exchange, book, session>>

\* an order request, as the exchange has it
Requests == [kind: Kinds, ticker: Tickers, size: Nat \ {0}, filled: Nat, state: States]

NoCall  == [place |-> "idle", order |-> 0, reported |-> 0, tries |-> 0]
NoSweep == [running |-> FALSE, found |-> {}, todo |-> {}, failed |-> {}]
Result(status, filled, left) == [status |-> status, filled |-> filled, left |-> left]
NoResult == Result("none", 0, 0)

\* has_fresh_position_snapshot
Fresh == snapshot = "fresh"
Open(positions) == {t \in Tickers : positions[t] > 0}
Live(o) == order[o].state \in {"resting", "cancelling"}
Posted  == DOMAIN order
Latest  == Len(order)
Lesser(m, n) == IF m < n THEN m ELSE n

BrokerInit ==
  /\ held = [t \in Tickers |-> 0]
  /\ order = <<>> /\ elsewhere = 0
  /\ cache = [t \in Tickers |-> 0]
  /\ snapshot = "disowned"
  /\ call = NoCall /\ sweep = NoSweep /\ result = NoResult
  /\ blind = Tickers

-----------------------------------------------------------------------------
(* The exchange, between the requests of this process.                     *)

\* n lots of an order trade; a reduce_only sell never sells what is not held
Trade(o, n, next) ==
  LET t == order[o].ticker IN
  /\ n <= order[o].size - order[o].filled
  /\ order[o].kind = "sell" => n <= held[t]
  /\ held' = [held EXCEPT ![t] = IF order[o].kind = "buy" THEN @ + n ELSE @ - n]
  /\ order' = [order EXCEPT ![o].filled = @ + n, ![o].state = next]
  /\ blind' = IF n > 0 THEN blind \cup {t} ELSE blind

\* an order that should not be there fills, in part or wholly
RestingFills(o, n) ==
  /\ Live(o)
  /\ Trade(o, n, IF order[o].filled + n = order[o].size THEN "done"
                 ELSE order[o].state)
  /\ UNCHANGED <<elsewhere, cache, snapshot, session>>

\* a request whose reply was lost reaches the exchange, at last
LateOrder(o, n, next) ==
  /\ order[o].state = "sent"
  /\ next = "resting" => order[o].filled + n < order[o].size
  /\ Trade(o, n, next)
  /\ UNCHANGED <<elsewhere, cache, snapshot, session>>

\* an accepted cancel, or the loss of a request, takes effect
OrderGone(o) ==
  /\ order[o].state \in {"sent", "cancelling"}
  /\ Trade(o, 0, "done")
  /\ UNCHANGED <<elsewhere, cache, snapshot, session>>

\* settlement, the operator by hand, or another process of the bot
Elsewhere(t, n) ==
  /\ elsewhere < MaxElsewhere /\ n # held[t]
  /\ elsewhere' = elsewhere + 1
  /\ held' = [held EXCEPT ![t] = n]
  /\ blind' = blind \cup {t}
  /\ UNCHANGED <<order, cache, snapshot, session>>

\* time passes: the snapshot goes over KALSHI_POSITION_SNAPSHOT_MAX_AGE_SEC
Age ==
  /\ snapshot = "fresh" /\ snapshot' = "aged"
  /\ UNCHANGED <<exchange, cache, blind, session>>

-----------------------------------------------------------------------------
(* sync_positions                                                          *)

Idle == call.place = "idle" /\ ~sweep.running
\* what the calls before returned has been used
Anew == result' = NoResult /\ sweep' = NoSweep
Forget == Idle /\ Anew /\ UNCHANGED <<exchange, book, call>>

SyncOk ==
  /\ Idle
  /\ cache' = held /\ snapshot' = "fresh" /\ blind' = {}
  /\ Anew
  /\ UNCHANGED <<exchange, call>>

\* mutant: cleared before the reply is parsed, so a failure reads as flat
SyncFailsFlat ==
  /\ Idle
  /\ snapshot' = "disowned" /\ cache' = [t \in Tickers |-> 0]
  /\ Anew
  /\ UNCHANGED <<exchange, blind, call>>
\* an error or an unusable reply keeps the book and disowns it
SyncFails ==
  /\ Idle
  /\ snapshot' = "disowned"
  /\ Anew
  /\ UNCHANGED <<exchange, cache, blind, call>>

-----------------------------------------------------------------------------
(* place_buy_order, place_sell_order and flatten_position: one POST.       *)

New(kind, t, q, filled, state) ==
  [kind |-> kind, ticker |-> t, size |-> q, filled |-> filled, state |-> state]
Send(kind, t, q, filled, state) ==
  /\ order' = Append(order, New(kind, t, q, filled, state))
  /\ sweep' = NoSweep
  /\ UNCHANGED elsewhere
AtPlace(place, o, reported, tries) ==
  call' = [place |-> place, order |-> o, reported |-> reported, tries |-> tries]
Return(status, filled, left) ==
  /\ call' = NoCall
  /\ result' = Result(status, filled, left)

\* the order trades n lots; a compact reply does not say how many.  A reply with
\* a fill is never taken for a resting order, whatever its status says
PostExecutes(kind, t, q, n) ==
  /\ n <= q /\ (kind = "sell" => n <= held[t])
  /\ \/ Send(kind, t, q, n, "done")
     \/ n < q /\ Send(kind, t, q, n, "resting")
  /\ held' = [held EXCEPT ![t] = IF kind = "buy" THEN @ + n ELSE @ - n]
  /\ \E reported \in {0, n} : AtPlace("hydrate", Latest + 1, reported, 0)
  /\ result' = NoResult
  /\ UNCHANGED book

\* immediate-or-cancel, and yet the reply says it rests
PostRests(kind, t, q) ==
  /\ Send(kind, t, q, 0, "resting")
  /\ AtPlace("cancel", Latest + 1, 0, 3)
  /\ result' = NoResult
  /\ UNCHANGED <<held, book>>

\* nothing traded, or the request was refused; or its reply never comes, and
\* the error says nothing about the order
PostFails(kind, t, q, status) ==
  /\ \/ Send(kind, t, q, 0, "done")
     \/ status = "error" /\ Send(kind, t, q, 0, "sent")
  /\ Return(status, 0, q)
  /\ UNCHANGED <<held, book>>

Post(kind, t, q) ==
  /\ Idle /\ Latest < MaxOrders
  /\ \/ \E n \in 1..q : PostExecutes(kind, t, q, n)
     \/ PostRests(kind, t, q)
     \/ \E status \in {"no_fill", "error", "too_many_requests"} :
          PostFails(kind, t, q, status)

\* mutant: a fill larger than the cached quantity is taken off all the same
ApplyFillUnclamped(o, fill) ==
  LET t    == order[o].ticker
      left == IF order[o].kind = "buy" THEN cache[t] + fill ELSE cache[t] - fill
  IN  /\ cache' = [cache EXCEPT ![t] = left]
      /\ Return("executed", fill, left)
      /\ blind' = IF fill = order[o].filled THEN blind ELSE blind \cup {t}
\* mutant: the book takes the requested size for the fill
ApplyFillRequested(o, fill) ==
  LET t    == order[o].ticker
      n    == order[o].size
      left == IF order[o].kind = "buy" THEN cache[t] + n
              ELSE IF cache[t] > n THEN cache[t] - n ELSE 0
  IN  /\ cache' = [cache EXCEPT ![t] = left]
      /\ Return("executed", n, left)
      /\ blind' = IF fill = order[o].filled THEN blind ELSE blind \cup {t}
\* _apply_entry_fill, _apply_exit_fill: what the reply says, put in the book
ApplyFill(o, fill) ==
  LET t    == order[o].ticker
      most == IF order[o].kind = "sell" /\ cache[t] > 0 THEN cache[t]
              ELSE order[o].size
      n    == Lesser(fill, most)
      left == IF order[o].kind = "buy" THEN cache[t] + n
              ELSE IF cache[t] > n THEN cache[t] - n ELSE 0
  IN  /\ cache' = [cache EXCEPT ![t] = left]
      /\ Return("executed", n, IF n > 0 THEN left ELSE most)
      /\ blind' = IF fill = order[o].filled THEN blind ELSE blind \cup {t}

\* _hydrate_order_details: the order's fill is read again, or, when that
\* request fails, taken from the first reply
Hydrate ==
  /\ call.place = "hydrate"
  /\ \/ ApplyFill(call.order, order[call.order].filled)
     \/ ApplyFill(call.order, call.reported)
  /\ UNCHANGED <<exchange, snapshot, sweep>>

-----------------------------------------------------------------------------
(* cancel_and_confirm, of one order or of each that a sweep found          *)

\* mutant: an orphan that could not be confirmed gone is not remembered
ConfirmedForgets(o, gone) ==
  IF sweep.running
  THEN sweep' = [sweep EXCEPT !.todo = @ \ {o}] /\ call' = NoCall /\ UNCHANGED result
  ELSE Return("unexpected_resting_uncertain", 0, order[o].size) /\ UNCHANGED sweep
Confirmed(o, gone) ==
  IF sweep.running
  THEN /\ sweep' = [sweep EXCEPT !.todo = @ \ {o},
                                 !.failed = IF gone THEN @ ELSE @ \cup {o}]
       /\ call' = NoCall /\ UNCHANGED result
  ELSE /\ Return(IF gone THEN "unexpected_resting_cancelled"
                 ELSE "unexpected_resting_uncertain", 0, order[o].size)
       /\ UNCHANGED sweep

\* mutant: an accepted cancel is believed at once
CancelBelieved ==
  /\ call.place = "cancel"
  /\ LET o == call.order IN
     IF order[o].state = "resting"
     THEN /\ order' = [order EXCEPT ![o].state = "cancelling"]
          /\ Confirmed(o, TRUE)
     ELSE Confirmed(o, FALSE) /\ UNCHANGED order
  /\ UNCHANGED <<held, elsewhere, book>>
\* cancel_order: accepted; or refused, or no answer
Cancel ==
  /\ call.place = "cancel"
  /\ LET o == call.order IN
     \/ /\ Live(o)
        /\ order' = [order EXCEPT ![o].state = "cancelling"]
        /\ AtPlace("confirm", o, 0, 3)
        /\ UNCHANGED <<sweep, result>>
     \/ /\ Confirmed(o, FALSE)
        /\ \/ UNCHANGED order
           \/ Live(o) /\ order' = [order EXCEPT ![o].state = "cancelling"]
  /\ UNCHANGED <<held, elsewhere, book>>

\* list_resting_orders, up to three times
Confirm ==
  /\ call.place = "confirm"
  /\ LET o == call.order IN
     \/ ~Live(o) /\ Confirmed(o, TRUE)
     \/ /\ call.tries > 1
        /\ AtPlace("confirm", o, 0, call.tries - 1)
        /\ UNCHANGED <<sweep, result>>
     \/ call.tries = 1 /\ Confirmed(o, FALSE)
  /\ UNCHANGED <<exchange, book>>

\* cancel_all_resting_orders
ListResting ==
  /\ Idle
  /\ LET found == {o \in Posted : Live(o)} IN
     \/ /\ sweep' = [running |-> TRUE, found |-> found, todo |-> found, failed |-> {}]
        /\ result' = NoResult
     \/ result' = Result("sweep_failed", 0, 0) /\ UNCHANGED sweep
  /\ UNCHANGED <<exchange, book, call>>

NextOrphan(o) ==
  /\ sweep.running /\ call.place = "idle" /\ o \in sweep.todo
  /\ AtPlace("cancel", o, 0, 3)
  /\ UNCHANGED <<exchange, book, sweep, result>>

EndSweep ==
  /\ sweep.running /\ call.place = "idle" /\ sweep.todo = {}
  /\ result' = Result(IF sweep.failed = {} THEN "sweep_ok" ELSE "sweep_failed", 0, 0)
  /\ sweep' = [sweep EXCEPT !.running = FALSE]
  /\ UNCHANGED <<exchange, book, call>>

\* the process dies: its book and its session are gone
Dies ==
  /\ cache' = [t \in Tickers |-> 0] /\ snapshot' = "disowned"
  /\ blind' = Tickers
  /\ call' = NoCall /\ sweep' = NoSweep /\ result' = NoResult
  /\ UNCHANGED exchange

-----------------------------------------------------------------------------
World ==
  \/ \E o \in Posted : \E n \in 0..order[o].size :
       \/ n > 0 /\ RestingFills(o, n)
       \/ \E next \in {"resting", "done"} : LateOrder(o, n, next)
  \/ \E o \in Posted : OrderGone(o)
  \/ \E t \in Tickers, n \in 0..MaxLots : Elsewhere(t, n)
  \/ Age

\* the steps of a call in progress
Session == Hydrate \/ Cancel \/ Confirm \/ EndSweep
             \/ \E o \in Posted : NextOrphan(o)

\* any client: it syncs, sends orders, sweeps and dies as it likes
Client ==
  \/ SyncOk \/ SyncFails
  \/ \E kind \in Kinds, t \in Tickers, q \in Sizes : Post(kind, t, q)
  \/ ListResting \/ Forget \/ Dies

BrokerNext == World \/ Session \/ Client
BrokerSpec == BrokerInit /\ [][BrokerNext]_brokerVars
-----------------------------------------------------------------------------
(* Properties.                                                             *)

ExchangeOK ==
  /\ held \in [Tickers -> Nat]
  /\ order \in Seq(Requests) /\ Latest <= MaxOrders
  /\ \A o \in Posted : order[o].filled <= order[o].size
  /\ elsewhere \in 0..MaxElsewhere
BookOK ==
  /\ cache \in [Tickers -> Nat]
  /\ snapshot \in {"disowned", "fresh", "aged"}
  /\ blind \subseteq Tickers
SessionOK ==
  /\ call \in [place: {"idle", "hydrate", "cancel", "confirm"},
               order: {0} \cup Posted, reported: Nat, tries: 0..3]
  /\ call.place # "idle" => call.order \in Posted
  /\ sweep \in [running: BOOLEAN, found: SUBSET Posted, todo: SUBSET Posted,
                failed: SUBSET Posted]
  /\ result \in [status: Statuses, filled: Nat, left: Nat]

(* Every order keeps to its size, the book and what is held of a ticker    *)
(* never go below zero, and a call always has an order to be about.        *)
BrokerTypeOK == ExchangeOK /\ BookOK /\ SessionOK

(* "Never turn an API failure into a flat book" (kalshi_broker.py:980):    *)
(* the cached quantity of a ticker is what the exchange holds, through     *)
(* failed syncs, partial fills and clamped exits, except where something   *)
(* happened that no reply has told the process.                            *)
CacheGrounded ==
  \A t \in Tickers \ blind :
    \/ cache[t] = held[t]
    \/ call.place = "hydrate" /\ order[call.order].ticker = t

(* cancel_and_confirm: "prove it is no longer resting before continuing".  *)
(* A call that reports its order cancelled leaves none on the book, and    *)
(* none that can still fill.                                               *)
CancelledIsGone ==
  result.status = "unexpected_resting_cancelled" => ~Live(Latest)

(* A sweep that reports success has cleared every order it found, whatever *)
(* filled, was refused or went unanswered while it ran.                    *)
SweepClears ==
  result.status = "sweep_ok" => \A o \in sweep.found : ~Live(o)

\* the orders that the last call has reported gone
Told ==
  IF result.status = "unexpected_resting_cancelled" THEN {Latest}
  ELSE IF result.status = "sweep_ok" THEN sweep.found ELSE {}

\* an order, and all of them, as the desk has them
Seen(o) == [size |-> order[o].size, traded |-> order[o].filled,
            over |-> order[o].state = "done"]
SeenAll == [o \in Posted |-> Seen(o)]

Desk == INSTANCE OrderDesk WITH orders <- SeenAll, told <- Told

(* The session implements OrderDesk: whatever replies are lost, whatever   *)
(* rests and fills late, what cancel_and_confirm or a sweep reports gone   *)
(* was over when it said so, and trades no more whatever is called next.   *)
(* With it come CancelledIsGone and SweepClears: what is over is not live. *)
ImplementsOrderDesk == Desk!OrderDeskSpec
=============================================================================
