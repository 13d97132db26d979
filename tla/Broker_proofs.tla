--------------------------- MODULE Broker_proofs ---------------------------
(***************************************************************************)
(* Theorems of Broker, for any tickers, order sizes and numbers of orders: *)
(* the type invariant, the grounding of the cached book, the finality of a *)
(* confirmed cancel and of a successful sweep, and the order desk that a   *)
(* session implements.                                                     *)
(***************************************************************************)
EXTENDS Broker, SequenceTheorems, TLAPS

USE DEF Kinds, States, Statuses, Posted, Latest

\* the steps of any client, whatever quantities its calls ask for
AnyStep ==
  \/ World \/ Session \/ SyncOk \/ SyncFails \/ ListResting \/ Forget \/ Dies
  \/ \E kind \in Kinds, t \in Tickers, q \in Nat \ {0} : Post(kind, t, q)

LEMMA NextIsAnyStep == BrokerNext => AnyStep
BY BoundsAssumption DEF BrokerNext, Client, AnyStep, Sizes

-----------------------------------------------------------------------------
(* The sequence of orders.                                                 *)

LEMMA OrderSet ==
  ASSUME order \in Seq(Requests), NEW o \in Posted, NEW r \in Requests,
         order' = [order EXCEPT ![o] = r]
  PROVE  /\ order' \in Seq(Requests) /\ Posted' = Posted /\ Latest' = Latest
         /\ order'[o] = r
         /\ \A p \in Posted \ {o} : order'[p] = order[p]
<1>1. Posted = 1..Len(order)
  OBVIOUS
<1>2. /\ order' \in Seq(Requests) /\ Len(order') = Len(order)
      /\ \A p \in 1..Len(order) : order'[p] = IF p = o THEN r ELSE order[p]
  BY <1>1, ExceptSeq
<1> QED
  BY <1>1, <1>2

LEMMA OrderAdded ==
  ASSUME order \in Seq(Requests), NEW r \in Requests, order' = Append(order, r)
  PROVE  /\ order' \in Seq(Requests) /\ Latest' = Latest + 1
         /\ Posted' = Posted \cup {Latest + 1} /\ Latest + 1 \notin Posted
         /\ order'[Latest + 1] = r
         /\ \A p \in Posted : order'[p] = order[p]
<1>1. Posted = 1..Len(order) /\ Len(order) \in Nat
  OBVIOUS
<1>2. /\ order' \in Seq(Requests) /\ Len(order') = Len(order) + 1
      /\ \A p \in 1..Len(order) : order'[p] = order[p]
      /\ order'[Len(order) + 1] = r
  BY AppendProperties
<1>3. Posted' = 1..(Len(order) + 1)
  BY <1>2
<1> QED
  BY <1>1, <1>2, <1>3

LEMMA OrderTyped ==
  ASSUME BrokerTypeOK, NEW o \in Posted
  PROVE  /\ order[o] \in Requests /\ order[o].ticker \in Tickers
         /\ order[o].size \in Nat \ {0} /\ order[o].filled \in Nat
         /\ order[o].filled <= order[o].size /\ order[o].state \in States
         /\ order[o].kind \in Kinds
<1>1. order \in Seq(Requests) /\ order[o].filled <= order[o].size
  BY DEF BrokerTypeOK, ExchangeOK
<1>2. o \in 1..Len(order)
  BY <1>1
<1>3. order[o] \in Requests
  BY <1>1, <1>2, ElementOfSeq
<1> QED
  BY <1>1, <1>3 DEF Requests

\* what a trade leaves behind
LEMMA TradeEffect ==
  ASSUME BrokerTypeOK, NEW o \in Posted, NEW n \in Nat, NEW next \in States,
         Trade(o, n, next)
  PROVE  /\ order' \in Seq(Requests) /\ Posted' = Posted /\ Latest' = Latest
         /\ held' \in [Tickers -> Nat]
         /\ order'[o].ticker = order[o].ticker /\ order'[o].kind = order[o].kind
         /\ order'[o].state = next
         /\ order'[o].filled = order[o].filled + n
         /\ \A p \in Posted : order'[p].filled <= order'[p].size
         /\ \A p \in Posted \ {o} : order'[p] = order[p]
         /\ \A t \in Tickers \ {order[o].ticker} : held'[t] = held[t]
         /\ n = 0 => held' = held
         /\ blind \subseteq blind' /\ blind' \subseteq Tickers
         /\ n > 0 => order[o].ticker \in blind'
<1> DEFINE t == order[o].ticker
           r == [order[o] EXCEPT !.filled = order[o].filled + n, !.state = next]
<1>1. /\ order[o] \in Requests /\ t \in Tickers /\ order[o].filled \in Nat
      /\ order[o].size \in Nat
  BY OrderTyped
<1>2. r \in Requests
  <2>1. order[o].filled + n \in Nat
    BY <1>1
  <2> QED
    BY <1>1, <2>1 DEF Requests
<1>3. order' = [order EXCEPT ![o] = r]
  BY DEF Trade
<1>4. /\ order' \in Seq(Requests) /\ Posted' = Posted /\ Latest' = Latest
      /\ order'[o] = r /\ \A p \in Posted \ {o} : order'[p] = order[p]
  BY <1>2, <1>3, OrderSet DEF BrokerTypeOK, ExchangeOK
<1>5. /\ r.ticker = t /\ r.kind = order[o].kind /\ r.state = next
      /\ r.filled = order[o].filled + n /\ r.size = order[o].size
  BY <1>1 DEF Requests
<1>6. n <= order[o].size - order[o].filled
  BY DEF Trade
<1>7. \A p \in Posted : order'[p].filled <= order'[p].size
  <2>1. order'[o].filled <= order'[o].size
    BY <1>1, <1>4, <1>5, <1>6
  <2>2. \A p \in Posted \ {o} : order'[p].filled <= order'[p].size
    BY <1>4, OrderTyped
  <2> QED
    BY <2>1, <2>2
<1>8. /\ held' \in [Tickers -> Nat]
      /\ n = 0 => held' = held
      /\ \A u \in Tickers \ {t} : held'[u] = held[u]
  <2> DEFINE h == IF order[o].kind = "buy" THEN held[t] + n ELSE held[t] - n
  <2>1. held' = [held EXCEPT ![t] = h] /\ held \in [Tickers -> Nat]
    BY DEF Trade, BrokerTypeOK, ExchangeOK
  <2>2. held[t] \in Nat
    BY <1>1, <2>1
  <2>4. h \in Nat
    BY <2>2, OrderTyped DEF Trade
  <2>5. n = 0 => h = held[t]
    BY <2>2
  <2> HIDE DEF h
  <2> QED
    BY <1>1, <2>1, <2>4, <2>5
<1>9. /\ blind \subseteq blind' /\ blind' \subseteq Tickers
      /\ n > 0 => t \in blind'
  BY <1>1 DEF Trade, BrokerTypeOK, BookOK
<1> QED
  BY <1>4, <1>5, <1>7, <1>8, <1>9

-----------------------------------------------------------------------------
(* Type correctness.                                                       *)

LEMMA InitTyped == BrokerInit => BrokerTypeOK
<1> SUFFICES ASSUME BrokerInit PROVE BrokerTypeOK
  OBVIOUS
<1>1. ExchangeOK
  <2>1. order \in Seq(Requests) /\ Len(order) = 0 /\ Posted = {}
    BY DEF BrokerInit
  <2> QED
    BY <2>1, BoundsAssumption DEF BrokerInit, ExchangeOK
<1>2. BookOK
  BY DEF BrokerInit, BookOK
<1>3. SessionOK
  BY DEF BrokerInit, SessionOK, NoCall, NoSweep, NoResult, Result
<1> QED
  BY <1>1, <1>2, <1>3 DEF BrokerTypeOK

\* a session with nothing but more orders behind it
LEMMA SessionKept ==
  ASSUME BrokerTypeOK, UNCHANGED session, Posted' = Posted
  PROVE  SessionOK'
BY DEF BrokerTypeOK, SessionOK, session

LEMMA WorldTyped ==
  ASSUME BrokerTypeOK, World
  PROVE  BrokerTypeOK'
<1>1. ASSUME NEW o \in Posted, NEW n \in Nat, NEW next \in States,
             Trade(o, n, next), UNCHANGED <<elsewhere, cache, snapshot, session>>
      PROVE  BrokerTypeOK'
  <2>1. ExchangeOK'
    BY <1>1, TradeEffect DEF BrokerTypeOK, ExchangeOK
  <2>2. BookOK'
    BY <1>1, TradeEffect DEF BrokerTypeOK, BookOK
  <2>3. SessionOK'
    BY <1>1, TradeEffect, SessionKept
  <2> QED
    BY <2>1, <2>2, <2>3 DEF BrokerTypeOK
<1>2. ASSUME NEW o \in Posted, NEW n \in Nat, RestingFills(o, n)
      PROVE  BrokerTypeOK'
  BY <1>1, <1>2, OrderTyped DEF RestingFills
<1>3. ASSUME NEW o \in Posted, NEW n \in Nat, NEW next \in {"resting", "done"},
             LateOrder(o, n, next)
      PROVE  BrokerTypeOK'
  BY <1>1, <1>3 DEF LateOrder
<1>4. ASSUME NEW o \in Posted, OrderGone(o)
      PROVE  BrokerTypeOK'
  BY <1>1, <1>4 DEF OrderGone
<1>5. ASSUME NEW t \in Tickers, NEW n \in 0..MaxLots, Elsewhere(t, n)
      PROVE  BrokerTypeOK'
  <2>1. ExchangeOK'
    BY <1>5, BoundsAssumption DEF Elsewhere, BrokerTypeOK, ExchangeOK
  <2>2. BookOK'
    BY <1>5 DEF Elsewhere, BrokerTypeOK, BookOK
  <2> QED
    BY <1>5, <2>1, <2>2, SessionKept DEF Elsewhere, BrokerTypeOK
<1>6. CASE Age
  <2>1. ExchangeOK' /\ BookOK'
    BY <1>6 DEF Age, BrokerTypeOK, ExchangeOK, BookOK, exchange
  <2> QED
    BY <1>6, <2>1, SessionKept DEF Age, BrokerTypeOK, exchange
<1>7. \A o \in Posted : \A n \in 0..order[o].size : n \in Nat
  BY OrderTyped
<1> QED
  BY <1>2, <1>3, <1>4, <1>5, <1>6, <1>7 DEF World

LEMMA SweepTyped ==
  ASSUME BrokerTypeOK, Posted \subseteq Posted', UNCHANGED sweep \/ sweep' = NoSweep
  PROVE  sweep' \in [running: BOOLEAN, found: SUBSET Posted', todo: SUBSET Posted',
                     failed: SUBSET Posted']
<1>1. CASE sweep' = NoSweep
  BY <1>1 DEF NoSweep
<1>2. CASE UNCHANGED sweep
  <2>1. sweep \in [running: BOOLEAN, found: SUBSET Posted, todo: SUBSET Posted,
                   failed: SUBSET Posted]
    BY DEF BrokerTypeOK, SessionOK
  <2> QED
    BY <1>2, <2>1
<1> QED
  BY <1>1, <1>2

\* the reply of a call is a result, and no call is in progress any more
LEMMA ReturnTyped ==
  ASSUME BrokerTypeOK, NEW status \in Statuses, NEW filled \in Nat, NEW left \in Nat,
         Return(status, filled, left), Posted \subseteq Posted',
         UNCHANGED sweep \/ sweep' = NoSweep
  PROVE  SessionOK'
<1>1. sweep' \in [running: BOOLEAN, found: SUBSET Posted', todo: SUBSET Posted',
                  failed: SUBSET Posted']
  BY SweepTyped
<1>2. result' \in [status: Statuses, filled: Nat, left: Nat]
  BY DEF Return, Result
<1>3. /\ call' \in [place: {"idle", "hydrate", "cancel", "confirm"},
                    order: {0} \cup Posted', reported: Nat, tries: 0..3]
      /\ call'.place = "idle"
  BY DEF Return, NoCall
<1> QED
  BY <1>1, <1>2, <1>3 DEF SessionOK

LEMMA AtPlaceTyped ==
  ASSUME BrokerTypeOK, NEW place \in {"hydrate", "cancel", "confirm"},
         NEW o \in Posted', NEW reported \in Nat, NEW tries \in 0..3,
         AtPlace(place, o, reported, tries), Posted \subseteq Posted',
         UNCHANGED sweep \/ sweep' = NoSweep, UNCHANGED result \/ result' = NoResult
  PROVE  SessionOK'
<1>1. sweep' \in [running: BOOLEAN, found: SUBSET Posted', todo: SUBSET Posted',
                  failed: SUBSET Posted']
  BY SweepTyped
<1>2. result' \in [status: Statuses, filled: Nat, left: Nat]
  BY DEF BrokerTypeOK, SessionOK, NoResult, Result
<1>3. /\ call' \in [place: {"idle", "hydrate", "cancel", "confirm"},
                    order: {0} \cup Posted', reported: Nat, tries: 0..3]
      /\ call'.order \in Posted'
  BY DEF AtPlace
<1> QED
  BY <1>1, <1>2, <1>3 DEF SessionOK

LEMMA ApplyFillTyped ==
  ASSUME BrokerTypeOK, NEW o \in Posted, NEW fill \in Nat, ApplyFill(o, fill),
         UNCHANGED <<exchange, snapshot, sweep>>
  PROVE  BrokerTypeOK'
<1> DEFINE t == order[o].ticker
           most == IF order[o].kind = "sell" /\ cache[t] > 0 THEN cache[t]
                   ELSE order[o].size
           n == Lesser(fill, most)
           left == IF order[o].kind = "buy" THEN cache[t] + n
                   ELSE IF cache[t] > n THEN cache[t] - n ELSE 0
<1>1. t \in Tickers /\ cache[t] \in Nat /\ order[o].size \in Nat
  BY OrderTyped DEF BrokerTypeOK, BookOK
<1>2. most \in Nat /\ n \in Nat /\ left \in Nat
  BY <1>1 DEF Lesser
<1>3. /\ cache' = [cache EXCEPT ![t] = left]
      /\ Return("executed", n, IF n > 0 THEN left ELSE most)
      /\ blind' = IF fill = order[o].filled THEN blind ELSE blind \cup {t}
  BY DEF ApplyFill
<1> HIDE DEF n, most, left, t
<1>4. ExchangeOK'
  BY DEF BrokerTypeOK, ExchangeOK, exchange
<1>5. BookOK'
  BY <1>1, <1>2, <1>3 DEF BrokerTypeOK, BookOK
<1>6. SessionOK'
  <2>1. (IF n > 0 THEN left ELSE most) \in Nat
    BY <1>2
  <2> QED
    BY <1>2, <1>3, <2>1, ReturnTyped DEF exchange
<1> QED
  BY <1>4, <1>5, <1>6 DEF BrokerTypeOK

LEMMA PostTyped ==
  ASSUME BrokerTypeOK, NEW kind \in Kinds, NEW t \in Tickers, NEW q \in Nat \ {0},
         Post(kind, t, q)
  PROVE  BrokerTypeOK'
<1> USE DEF New
<1>1. ASSUME NEW filled \in 0..q, NEW state \in States, Send(kind, t, q, filled, state)
      PROVE  /\ order' \in Seq(Requests) /\ Latest' <= MaxOrders
             /\ \A o \in Posted' : order'[o].filled <= order'[o].size
             /\ Latest + 1 \in Posted' /\ Posted \subseteq Posted'
             /\ elsewhere' \in 0..MaxElsewhere
  <2> DEFINE r == New(kind, t, q, filled, state)
  <2>1. r \in Requests /\ r.filled <= r.size
    BY DEF Requests
  <2>2. order' = Append(order, r)
    BY <1>1 DEF Send
  <2>3. Latest < MaxOrders /\ Latest \in Nat
    BY DEF Post, BrokerTypeOK, ExchangeOK
  <2> HIDE DEF r
  <2>4. /\ order' \in Seq(Requests) /\ Latest' = Latest + 1
        /\ Posted' = Posted \cup {Latest + 1}
        /\ order'[Latest + 1] = r /\ \A p \in Posted : order'[p] = order[p]
    BY <2>1, <2>2, OrderAdded DEF BrokerTypeOK, ExchangeOK
  <2>5. \A o \in Posted' : order'[o].filled <= order'[o].size
    BY <2>1, <2>4, OrderTyped
  <2> QED
    BY <1>1, <2>3, <2>4, <2>5, BoundsAssumption DEF Send, BrokerTypeOK, ExchangeOK
<1>2. ASSUME UNCHANGED book PROVE BookOK'
  BY <1>2 DEF BrokerTypeOK, BookOK, book
<1>3. ASSUME NEW n \in 1..q, PostExecutes(kind, t, q, n) PROVE BrokerTypeOK'
  <2>1. \E state \in States : Send(kind, t, q, n, state)
    BY <1>3 DEF PostExecutes
  <2>2. PICK state \in States : Send(kind, t, q, n, state)
    BY <2>1
  <2>3. held' \in [Tickers -> Nat]
    BY <1>3 DEF PostExecutes, BrokerTypeOK, ExchangeOK
  <2>4. ExchangeOK'
    BY <1>1, <2>2, <2>3 DEF ExchangeOK
  <2>5. SessionOK'
    <3>1. PICK reported \in {0, n} : AtPlace("hydrate", Latest + 1, reported, 0)
      BY <1>3 DEF PostExecutes
    <3> QED
      BY <1>1, <1>3, <2>2, <3>1, AtPlaceTyped DEF PostExecutes, Send
  <2> QED
    BY <1>2, <1>3, <2>4, <2>5 DEF PostExecutes, BrokerTypeOK
<1>4. CASE PostRests(kind, t, q)
  <2>1. Send(kind, t, q, 0, "resting")
    BY <1>4 DEF PostRests
  <2>2. ExchangeOK'
    BY <1>1, <1>4, <2>1 DEF PostRests, BrokerTypeOK, ExchangeOK
  <2>3. SessionOK'
    BY <1>1, <1>4, <2>1, AtPlaceTyped DEF PostRests, Send
  <2> QED
    BY <1>2, <1>4, <2>2, <2>3 DEF PostRests, BrokerTypeOK
<1>5. ASSUME NEW status \in {"no_fill", "error", "too_many_requests"},
             PostFails(kind, t, q, status)
      PROVE  BrokerTypeOK'
  <2>1. PICK state \in States : Send(kind, t, q, 0, state)
    BY <1>5 DEF PostFails
  <2>2. ExchangeOK'
    BY <1>1, <1>5, <2>1 DEF PostFails, BrokerTypeOK, ExchangeOK
  <2>3. SessionOK'
    BY <1>1, <1>5, <2>1, ReturnTyped DEF PostFails, Send
  <2> QED
    BY <1>2, <1>5, <2>2, <2>3 DEF PostFails, BrokerTypeOK
<1> QED
  BY <1>3, <1>4, <1>5 DEF Post

\* a cancel or its confirmation ends, and is entered where it was asked for
LEMMA ConfirmedTyped ==
  ASSUME BrokerTypeOK, NEW o \in Posted, NEW gone \in BOOLEAN, Confirmed(o, gone),
         Posted' = Posted
  PROVE  SessionOK'
<1>1. CASE sweep.running
  <2>1. sweep \in [running: BOOLEAN, found: SUBSET Posted, todo: SUBSET Posted,
                   failed: SUBSET Posted]
    BY DEF BrokerTypeOK, SessionOK
  <2> DEFINE failed == IF gone THEN sweep.failed ELSE sweep.failed \cup {o}
  <2>2. failed \subseteq Posted /\ sweep.todo \ {o} \subseteq Posted
    BY <2>1
  <2>3. sweep' = [sweep EXCEPT !.todo = sweep.todo \ {o}, !.failed = failed]
    BY <1>1 DEF Confirmed
  <2> HIDE DEF failed
  <2>4. sweep' \in [running: BOOLEAN, found: SUBSET Posted, todo: SUBSET Posted,
                    failed: SUBSET Posted]
    BY <2>1, <2>2, <2>3
  <2>5. call' = NoCall /\ UNCHANGED result
    BY <1>1 DEF Confirmed
  <2> QED
    BY <2>4, <2>5 DEF BrokerTypeOK, SessionOK, NoCall
<1>2. CASE ~sweep.running
  <2>1. order[o].size \in Nat
    BY OrderTyped
  <2> QED
    BY <1>2, <2>1, ReturnTyped DEF Confirmed
<1> QED
  BY <1>1, <1>2

LEMMA SessionTyped ==
  ASSUME BrokerTypeOK, Session
  PROVE  BrokerTypeOK'
<1> DEFINE o == call.order
<1>1. ASSUME UNCHANGED <<exchange, book>> PROVE ExchangeOK' /\ BookOK' /\ Posted' = Posted
  BY <1>1 DEF BrokerTypeOK, ExchangeOK, BookOK, exchange, book
<1>2. CASE Hydrate
  <2>1. o \in Posted /\ call.reported \in Nat /\ order[o].filled \in Nat
    BY <1>2, OrderTyped DEF Hydrate, BrokerTypeOK, SessionOK
  <2> QED
    BY <1>2, <2>1, ApplyFillTyped DEF Hydrate
<1>3. CASE Cancel
  <2>1. o \in Posted
    BY <1>3 DEF Cancel, BrokerTypeOK, SessionOK
  <2>2. ASSUME order' = [order EXCEPT ![o].state = "cancelling"]
        PROVE  /\ order' \in Seq(Requests) /\ Posted' = Posted /\ Latest' = Latest
               /\ \A p \in Posted : order'[p].filled <= order'[p].size
    <3> DEFINE r == [order[o] EXCEPT !.state = "cancelling"]
    <3>1. /\ r \in Requests /\ r.filled = order[o].filled
          /\ r.size = order[o].size
      BY <2>1, OrderTyped DEF Requests
    <3>2. order' = [order EXCEPT ![o] = r]
      BY <2>2
    <3> HIDE DEF r
    <3> QED
      BY <2>1, <3>1, <3>2, OrderSet, OrderTyped DEF BrokerTypeOK, ExchangeOK
  <2>3. /\ order' \in Seq(Requests) /\ Posted' = Posted /\ Latest' = Latest
        /\ \A p \in Posted : order'[p].filled <= order'[p].size
    BY <1>3, <2>2 DEF Cancel, BrokerTypeOK, ExchangeOK
  <2>4. ExchangeOK' /\ BookOK'
    BY <1>3, <2>3 DEF Cancel, BrokerTypeOK, ExchangeOK, BookOK, book
  <2>5. SessionOK'
    <3>1. CASE Confirmed(o, FALSE)
      BY <2>1, <2>3, <3>1, ConfirmedTyped
    <3>2. CASE AtPlace("confirm", o, 0, 3) /\ UNCHANGED <<sweep, result>>
      BY <2>1, <2>3, <3>2, AtPlaceTyped
    <3> QED
      BY <1>3, <3>1, <3>2 DEF Cancel
  <2> QED
    BY <2>4, <2>5 DEF BrokerTypeOK
<1>4. CASE Confirm
  <2>1. o \in Posted /\ Posted' = Posted /\ ExchangeOK' /\ BookOK'
    BY <1>1, <1>4 DEF Confirm, BrokerTypeOK, SessionOK
  <2>2. ASSUME NEW gone \in BOOLEAN, Confirmed(o, gone) PROVE SessionOK'
    BY <2>1, <2>2, ConfirmedTyped
  <2>3. ASSUME call.tries > 1, AtPlace("confirm", o, 0, call.tries - 1),
               UNCHANGED <<sweep, result>>
        PROVE  SessionOK'
    <3>1. call.tries - 1 \in 0..3
      BY <2>3 DEF BrokerTypeOK, SessionOK
    <3>2. o \in Posted' /\ Posted \subseteq Posted' /\ 0 \in Nat
      BY <2>1
    <3> QED
      BY <2>3, <3>1, <3>2, AtPlaceTyped
  <2> QED
    BY <1>4, <2>1, <2>2, <2>3 DEF Confirm, BrokerTypeOK
<1>5. CASE EndSweep
  <2>1. SessionOK'
    BY <1>1, <1>5 DEF EndSweep, BrokerTypeOK, SessionOK, Result
  <2> QED
    BY <1>1, <1>5, <2>1 DEF EndSweep, BrokerTypeOK
<1>6. ASSUME NEW p \in Posted, NextOrphan(p) PROVE BrokerTypeOK'
  <2>1. SessionOK'
    BY <1>1, <1>6, AtPlaceTyped DEF NextOrphan
  <2> QED
    BY <1>1, <1>6, <2>1 DEF NextOrphan, BrokerTypeOK
<1> QED
  BY <1>2, <1>3, <1>4, <1>5, <1>6 DEF Session

LEMMA StepTyped == BrokerTypeOK /\ AnyStep => BrokerTypeOK'
<1> SUFFICES ASSUME BrokerTypeOK, AnyStep PROVE BrokerTypeOK'
  OBVIOUS
<1> USE DEF BrokerTypeOK, ExchangeOK, BookOK, exchange, book
<1>1. ASSUME Anew, UNCHANGED call, Posted' = Posted PROVE SessionOK'
  BY <1>1 DEF Anew, SessionOK, NoResult, Result, NoSweep
<1>2. CASE SyncOk
  BY <1>1, <1>2 DEF SyncOk
<1>3. CASE SyncFails
  BY <1>1, <1>3 DEF SyncFails
<1>4. CASE Forget
  BY <1>1, <1>4 DEF Forget
<1>5. CASE ListResting
  <2> DEFINE found == {o \in Posted : Live(o)}
  <2>1. found \subseteq Posted
    OBVIOUS
  <2>2. \/ /\ sweep' = [running |-> TRUE, found |-> found, todo |-> found, failed |-> {}]
           /\ result' = NoResult
        \/ result' = Result("sweep_failed", 0, 0) /\ UNCHANGED sweep
    BY <1>5 DEF ListResting
  <2>4. UNCHANGED call /\ Posted' = Posted
    BY <1>5 DEF ListResting
  <2> HIDE DEF found
  <2>3. SessionOK'
    <3>1. sweep' \in [running: BOOLEAN, found: SUBSET Posted, todo: SUBSET Posted,
                      failed: SUBSET Posted]
      <4>1. CASE sweep' = [running |-> TRUE, found |-> found, todo |-> found,
                           failed |-> {}]
        BY <2>1, <4>1
      <4>2. CASE UNCHANGED sweep
        <5>1. sweep \in [running: BOOLEAN, found: SUBSET Posted, todo: SUBSET Posted,
                         failed: SUBSET Posted]
          BY DEF SessionOK
        <5> QED
          BY <4>2, <5>1
      <4> QED
        BY <2>2, <4>1, <4>2
    <3>2. result' \in [status: Statuses, filled: Nat, left: Nat]
      BY <2>2 DEF NoResult, Result
    <3> QED
      BY <2>4, <3>1, <3>2 DEF SessionOK
  <2> QED
    BY <1>5, <2>3 DEF ListResting
<1>6. CASE Dies
  <2>1. SessionOK'
    BY <1>6 DEF Dies, SessionOK, NoCall, NoSweep, NoResult, Result
  <2> QED
    BY <1>6, <2>1 DEF Dies
<1> QED
  BY <1>2, <1>3, <1>4, <1>5, <1>6, WorldTyped, SessionTyped, PostTyped DEF AnyStep

(* BrokerTypeOK holds throughout, whatever the calls ask for and however   *)
(* the exchange answers them.                                              *)
THEOREM BrokerTypeInvariant == BrokerSpec => []BrokerTypeOK
<1>1. BrokerTypeOK /\ UNCHANGED brokerVars => BrokerTypeOK'
  BY DEF brokerVars, exchange, book, session, BrokerTypeOK, ExchangeOK, BookOK, SessionOK
<1> QED
  BY <1>1, InitTyped, StepTyped, NextIsAnyStep, PTL DEF BrokerSpec

-----------------------------------------------------------------------------
(* What the exchange does between two requests.                            *)

\* the orders of one state and of the next: none comes, goes or moves back
Onward == Posted' = Posted /\ \A o \in Posted :
  /\ order'[o].ticker = order[o].ticker /\ order'[o].kind = order[o].kind
  /\ order[o].state = "done" => order'[o].state = "done"
  /\ order[o].state = "cancelling" => order'[o].state \in {"cancelling", "done"}
  /\ order[o].state # "sent" => order'[o].state # "sent"

\* a ticker that is still not blind has not been touched
Untouched == blind \subseteq blind' /\ \A t \in Tickers \ blind' :
  /\ held'[t] = held[t]
  /\ \A o \in Posted : order[o].ticker = t => order'[o].filled = order[o].filled

LEMMA WorldEffect ==
  ASSUME BrokerTypeOK, World
  PROVE  Onward /\ Latest' = Latest /\ Untouched /\ UNCHANGED <<cache, session>>
<1>1. ASSUME NEW o \in Posted, NEW n \in Nat, NEW next \in States, Trade(o, n, next),
             UNCHANGED <<cache, session>>,
             order[o].state # "done",
             order[o].state = "cancelling" => next \in {"cancelling", "done"},
             next # "sent"
      PROVE  Onward /\ Latest' = Latest /\ Untouched /\ UNCHANGED <<cache, session>>
  <2>1. Onward /\ Latest' = Latest
    BY <1>1, TradeEffect DEF Onward
  <2>2. Untouched
    <3>1. CASE n = 0
      <4>1. held' = held /\ order'[o].filled = order[o].filled /\ blind \subseteq blind'
        BY <1>1, <3>1, TradeEffect, OrderTyped
      <4>2. \A p \in Posted \ {o} : order'[p] = order[p]
        BY <1>1, TradeEffect
      <4> QED
        BY <4>1, <4>2 DEF Untouched
    <3>2. CASE n > 0
      <4>1. /\ order[o].ticker \in blind' /\ blind \subseteq blind'
            /\ \A t \in Tickers \ {order[o].ticker} : held'[t] = held[t]
        BY <1>1, <3>2, TradeEffect
      <4>2. \A p \in Posted \ {o} : order'[p] = order[p]
        BY <1>1, TradeEffect
      <4> QED
        BY <4>1, <4>2 DEF Untouched
    <3> QED
      BY <3>1, <3>2
  <2> QED
    BY <1>1, <2>1, <2>2
<1>2. ASSUME NEW o \in Posted, NEW n \in Nat, RestingFills(o, n)
      PROVE  Onward /\ Latest' = Latest /\ Untouched /\ UNCHANGED <<cache, session>>
  <2> DEFINE next == IF order[o].filled + n = order[o].size THEN "done"
                     ELSE order[o].state
  <2>1. /\ Trade(o, n, next) /\ UNCHANGED <<cache, session>>
        /\ order[o].state \in {"resting", "cancelling"}
    BY <1>2 DEF RestingFills, Live
  <2> HIDE DEF next
  <2>2. next \in {order[o].state, "done"}
    BY DEF next
  <2> QED
    BY <1>1, <2>1, <2>2
<1>3. ASSUME NEW o \in Posted, NEW n \in Nat, NEW next \in {"resting", "done"},
             LateOrder(o, n, next)
      PROVE  Onward /\ Latest' = Latest /\ Untouched /\ UNCHANGED <<cache, session>>
  BY <1>1, <1>3 DEF LateOrder
<1>4. ASSUME NEW o \in Posted, OrderGone(o)
      PROVE  Onward /\ Latest' = Latest /\ Untouched /\ UNCHANGED <<cache, session>>
  BY <1>1, <1>4 DEF OrderGone
<1>5. ASSUME NEW t \in Tickers, NEW n \in 0..MaxLots, Elsewhere(t, n)
      PROVE  Onward /\ Latest' = Latest /\ Untouched /\ UNCHANGED <<cache, session>>
  <2>1. order' = order /\ blind' = blind \cup {t} /\ UNCHANGED <<cache, session>>
    BY <1>5 DEF Elsewhere
  <2>2. \A u \in Tickers \ {t} : held'[u] = held[u]
    BY <1>5 DEF Elsewhere, BrokerTypeOK, ExchangeOK
  <2> QED
    BY <2>1, <2>2 DEF Onward, Untouched
<1>6. CASE Age
  BY <1>6 DEF Age, exchange, Onward, Untouched
<1>7. \A o \in Posted : \A n \in 0..order[o].size : n \in Nat
  BY OrderTyped
<1> QED
  BY <1>2, <1>3, <1>4, <1>5, <1>6, <1>7 DEF World

-----------------------------------------------------------------------------
(* A confirmed cancel and a successful sweep are final: the invariants.    *)

CancelProven ==
  /\ call.place \in {"cancel", "confirm"} =>
       /\ sweep.running \/ call.order = Latest
       /\ order[call.order].state # "sent"
  /\ call.place = "confirm" => order[call.order].state \in {"cancelling", "done"}
  /\ result.status = "unexpected_resting_cancelled" =>
       /\ call.place = "idle" /\ ~sweep.running
       /\ Latest \in Posted /\ order[Latest].state = "done"

SweepProven ==
  /\ sweep.running =>
       /\ call.place # "hydrate" /\ sweep.todo \subseteq sweep.found
       /\ \A o \in sweep.found \ (sweep.todo \cup sweep.failed) : order[o].state = "done"
  /\ \A o \in sweep.found : order[o].state # "sent"
  /\ result.status = "sweep_ok" =>
       ~sweep.running /\ \A o \in sweep.found : order[o].state = "done"

Final == CancelProven /\ SweepProven

LEMMA InitFinal == BrokerInit => Final
BY DEF BrokerInit, Final, CancelProven, SweepProven, NoCall, NoSweep, NoResult, Result

\* orders that only move on disturb nothing of a session that waits
LEMMA OnwardFinal ==
  ASSUME BrokerTypeOK, Final, Onward, Latest' = Latest, UNCHANGED session
  PROVE  Final'
<1>1. call' = call /\ sweep' = sweep /\ result' = result
  BY DEF session
<1>2. /\ sweep.found \subseteq Posted
      /\ call.place \in {"cancel", "confirm"} => call.order \in Posted
  BY DEF BrokerTypeOK, SessionOK
<1>3. CancelProven'
  <2>1. call.place \in {"cancel", "confirm"} =>
          /\ sweep.running \/ call.order = Latest
          /\ order'[call.order].state # "sent"
    BY <1>2 DEF Final, CancelProven, Onward
  <2>2. call.place = "confirm" => order'[call.order].state \in {"cancelling", "done"}
    BY <1>2 DEF Final, CancelProven, Onward
  <2>3. result.status = "unexpected_resting_cancelled" =>
          /\ call.place = "idle" /\ ~sweep.running
          /\ Latest \in Posted' /\ order'[Latest].state = "done"
    BY DEF Final, CancelProven, Onward
  <2> QED
    BY <1>1, <2>1, <2>2, <2>3 DEF CancelProven
<1>4. SweepProven'
  <2>1. /\ \A o \in sweep.found : order'[o].state # "sent"
        /\ \A o \in sweep.found : order[o].state = "done" => order'[o].state = "done"
    BY <1>2 DEF Final, SweepProven, Onward
  <2> QED
    BY <1>1, <2>1 DEF Final, SweepProven
<1> QED
  BY <1>3, <1>4 DEF Final

\* an order is reported gone only when it is done
LEMMA ConfirmedFinal ==
  ASSUME BrokerTypeOK, Final, NEW gone \in BOOLEAN, call.place \in {"cancel", "confirm"},
         Confirmed(call.order, gone), Onward, Latest' = Latest,
         gone => order[call.order].state = "done"
  PROVE  Final'
<1> DEFINE o == call.order
<1>1. /\ sweep.found \subseteq Posted /\ o \in Posted
  BY DEF BrokerTypeOK, SessionOK
<1>2. CASE sweep.running
  <2>1. sweep \in [running: BOOLEAN, found: SUBSET Posted, todo: SUBSET Posted,
                   failed: SUBSET Posted]
    BY DEF BrokerTypeOK, SessionOK
  <2>2. /\ sweep'.running /\ sweep'.found = sweep.found
        /\ sweep'.todo = sweep.todo \ {o}
        /\ sweep'.failed = IF gone THEN sweep.failed ELSE sweep.failed \cup {o}
        /\ call' = NoCall /\ UNCHANGED result
    BY <1>2, <2>1 DEF Confirmed
  <2>3. CancelProven'
    BY <1>2, <2>2 DEF Final, CancelProven, NoCall
  <2>4. SweepProven'
    <3>1. sweep'.todo \subseteq sweep'.found /\ call'.place # "hydrate"
      BY <1>2, <2>2 DEF Final, SweepProven, NoCall
    <3>2. \A p \in sweep'.found \ (sweep'.todo \cup sweep'.failed) :
            order[p].state = "done" /\ p \in Posted
      BY <1>1, <1>2, <2>2 DEF Final, SweepProven
    <3>3. \A p \in sweep'.found : order'[p].state # "sent"
      BY <1>1, <2>2 DEF Final, SweepProven, Onward
    <3>4. result'.status # "sweep_ok"
      BY <1>2, <2>2 DEF Final, SweepProven
    <3> QED
      BY <3>1, <3>2, <3>3, <3>4 DEF SweepProven, Onward
  <2> QED
    BY <2>3, <2>4 DEF Final
<1>3. CASE ~sweep.running
  <2>1. /\ UNCHANGED sweep /\ call' = NoCall /\ o = Latest
        /\ result'.status = IF gone THEN "unexpected_resting_cancelled"
                            ELSE "unexpected_resting_uncertain"
    BY <1>3 DEF Confirmed, Return, Result, Final, CancelProven
  <2>2. CancelProven'
    BY <1>1, <1>3, <2>1 DEF CancelProven, Onward, NoCall
  <2>3. SweepProven'
    BY <1>1, <1>3, <2>1 DEF Final, SweepProven, Onward, NoCall
  <2> QED
    BY <2>2, <2>3 DEF Final
<1> QED
  BY <1>2, <1>3

\* a request marks one live order of the book as cancelled
LEMMA CancelEffect ==
  ASSUME BrokerTypeOK, NEW o \in Posted, Live(o),
         order' = [order EXCEPT ![o].state = "cancelling"]
  PROVE  Onward /\ Latest' = Latest /\ order'[o].state = "cancelling"
<1> DEFINE r == [order[o] EXCEPT !.state = "cancelling"]
<1>1. /\ r \in Requests /\ r.ticker = order[o].ticker /\ r.kind = order[o].kind
      /\ r.state = "cancelling"
  BY OrderTyped DEF Requests
<1>2. order' = [order EXCEPT ![o] = r]
  OBVIOUS
<1> HIDE DEF r
<1>3. /\ Posted' = Posted /\ Latest' = Latest /\ order'[o] = r
      /\ \A p \in Posted \ {o} : order'[p] = order[p]
  BY <1>1, <1>2, OrderSet DEF BrokerTypeOK, ExchangeOK
<1> QED
  BY <1>1, <1>3 DEF Onward, Live

LEMMA SessionFinal ==
  ASSUME BrokerTypeOK, Final, Session
  PROVE  Final'
<1>1. ASSUME UNCHANGED exchange PROVE Onward /\ Latest' = Latest
  BY <1>1 DEF exchange, Onward
<1>2. CASE Hydrate
  <2>1. /\ call'.place = "idle" /\ result'.status = "executed" /\ ~sweep.running
        /\ UNCHANGED <<order, sweep>>
    BY <1>2 DEF Hydrate, ApplyFill, Return, NoCall, Result, exchange, Final, SweepProven
  <2> QED
    BY <2>1 DEF Final, CancelProven, SweepProven
<1>3. CASE Cancel
  <2>1. call.order \in Posted /\ call.place = "cancel"
    BY <1>3 DEF Cancel, BrokerTypeOK, SessionOK
  <2>2. Onward /\ Latest' = Latest
    BY <1>3, <2>1, CancelEffect DEF Cancel, Onward
  <2>3. CASE Confirmed(call.order, FALSE)
    BY <2>1, <2>2, <2>3, ConfirmedFinal
  <2>4. CASE /\ Live(call.order)
             /\ order' = [order EXCEPT ![call.order].state = "cancelling"]
             /\ AtPlace("confirm", call.order, 0, 3)
             /\ UNCHANGED <<sweep, result>>
    <3>1. /\ order'[call.order].state = "cancelling"
          /\ call'.place = "confirm" /\ call'.order = call.order
          /\ sweep.found \subseteq Posted
      BY <2>1, <2>4, CancelEffect DEF AtPlace, BrokerTypeOK, SessionOK
    <3>2. CancelProven'
      BY <2>1, <2>2, <2>4, <3>1 DEF Final, CancelProven
    <3>3. SweepProven'
      BY <2>2, <2>4, <3>1 DEF Final, SweepProven, Onward
    <3> QED
      BY <3>2, <3>3 DEF Final
  <2> QED
    BY <1>3, <2>3, <2>4 DEF Cancel
<1>4. CASE Confirm
  <2>1. call.place = "confirm" /\ Onward /\ Latest' = Latest /\ UNCHANGED order
    BY <1>1, <1>4 DEF Confirm, exchange
  <2>2. CASE ~Live(call.order) /\ Confirmed(call.order, TRUE)
    <3>1. order[call.order].state = "done"
      BY <2>1, <2>2 DEF Final, CancelProven, Live
    <3> QED
      BY <2>1, <2>2, <3>1, ConfirmedFinal
  <2>3. CASE Confirmed(call.order, FALSE)
    BY <2>1, <2>3, ConfirmedFinal
  <2>4. CASE AtPlace("confirm", call.order, 0, call.tries - 1) /\ UNCHANGED <<sweep, result>>
    BY <2>1, <2>4 DEF AtPlace, Final, CancelProven, SweepProven
  <2> QED
    BY <1>4, <2>2, <2>3, <2>4 DEF Confirm
<1>5. CASE EndSweep
  <2>1. sweep \in [running: BOOLEAN, found: SUBSET Posted, todo: SUBSET Posted,
                   failed: SUBSET Posted]
    BY DEF BrokerTypeOK, SessionOK
  <2>2. /\ sweep.running /\ sweep.todo = {} /\ UNCHANGED <<order, call>>
        /\ call.place = "idle"
        /\ ~sweep'.running /\ sweep'.found = sweep.found
        /\ result'.status = IF sweep.failed = {} THEN "sweep_ok" ELSE "sweep_failed"
    BY <1>5, <2>1 DEF EndSweep, Result, exchange
  <2> QED
    BY <2>2 DEF Final, CancelProven, SweepProven
<1>6. ASSUME NEW p \in Posted, NextOrphan(p) PROVE Final'
  <2>1. /\ p \in sweep.found /\ sweep.running /\ call'.place = "cancel" /\ call'.order = p
        /\ UNCHANGED <<order, sweep, result>>
    BY <1>6 DEF NextOrphan, AtPlace, exchange, Final, SweepProven
  <2> QED
    BY <2>1 DEF Final, CancelProven, SweepProven
<1> QED
  BY <1>2, <1>3, <1>4, <1>5, <1>6 DEF Session

LEMMA StepFinal == BrokerTypeOK /\ Final /\ AnyStep => Final'
<1> SUFFICES ASSUME BrokerTypeOK, Final, AnyStep PROVE Final'
  OBVIOUS
<1> USE DEF Final, CancelProven, SweepProven, NoCall, NoSweep, NoResult, Result
<1>1. CASE World
  BY <1>1, WorldEffect, OnwardFinal
<1>2. CASE SyncOk \/ SyncFails \/ Forget
  BY <1>2 DEF SyncOk, SyncFails, Forget, Anew, Idle
<1>3. CASE Dies
  BY <1>3 DEF Dies
<1>4. CASE ListResting
  BY <1>4 DEF ListResting, Idle, Live, exchange
<1>5. ASSUME NEW kind \in Kinds, NEW t \in Tickers, NEW q \in Nat \ {0},
             Post(kind, t, q)
      PROVE  Final'
  <2>1. ASSUME NEW filled \in 0..q, NEW state \in States,
               Send(kind, t, q, filled, state)
        PROVE  /\ sweep' = NoSweep /\ Latest' = Latest + 1
               /\ order'[Latest + 1].state = state
    <3> DEFINE r == New(kind, t, q, filled, state)
    <3>1. r \in Requests /\ r.state = state
      BY DEF Requests, New
    <3>2. order' = Append(order, r) /\ sweep' = NoSweep
      BY <2>1 DEF Send
    <3> HIDE DEF r
    <3> QED
      BY <3>1, <3>2, OrderAdded DEF BrokerTypeOK, ExchangeOK
  <2>2. ASSUME NEW n \in 1..q, PostExecutes(kind, t, q, n) PROVE Final'
    <3>1. PICK state \in States : Send(kind, t, q, n, state)
      BY <2>2 DEF PostExecutes
    <3>2. sweep' = NoSweep /\ call'.place = "hydrate" /\ result' = NoResult
      BY <2>1, <2>2, <3>1 DEF PostExecutes, AtPlace
    <3> QED
      BY <3>2
  <2>3. CASE PostRests(kind, t, q)
    <3>1. /\ sweep' = NoSweep /\ Latest' = Latest + 1
          /\ order'[Latest + 1].state = "resting"
          /\ call'.place = "cancel" /\ call'.order = Latest + 1 /\ result' = NoResult
      BY <2>1, <2>3 DEF PostRests, AtPlace
    <3> QED
      BY <3>1
  <2>4. ASSUME NEW status \in {"no_fill", "error", "too_many_requests"},
               PostFails(kind, t, q, status)
        PROVE  Final'
    <3>1. PICK state \in States : Send(kind, t, q, 0, state)
      BY <2>4 DEF PostFails
    <3>2. sweep' = NoSweep /\ call'.place = "idle" /\ result'.status = status
      BY <2>1, <2>4, <3>1 DEF PostFails, Return
    <3> QED
      BY <3>2
  <2> QED
    BY <1>5, <2>2, <2>3, <2>4 DEF Post
<1> QED
  BY <1>1, <1>2, <1>3, <1>4, <1>5, SessionFinal DEF AnyStep

LEMMA BrokerFinal == BrokerSpec => []Final
<1>1. Final /\ UNCHANGED brokerVars => Final'
  BY DEF brokerVars, exchange, book, session, Final, CancelProven, SweepProven
<1> QED
  BY <1>1, InitFinal, StepFinal, NextIsAnyStep, BrokerTypeInvariant, PTL DEF BrokerSpec

(* cancel_and_confirm: a call that returns unexpected_resting_cancelled    *)
(* leaves its order neither on the book nor able to fill.                  *)
THEOREM CancelIsFinal == BrokerSpec => []CancelledIsGone
<1>1. Final => CancelledIsGone
  BY DEF Final, CancelProven, CancelledIsGone, Live
<1> QED
  BY <1>1, BrokerFinal, PTL

(* cancel_all_resting_orders: once a sweep has reported success, no order  *)
(* that it found is on the book again.                                     *)
THEOREM SweepIsFinal == BrokerSpec => []SweepClears
<1>1. Final => SweepClears
  BY DEF Final, SweepProven, SweepClears, Live
<1> QED
  BY <1>1, BrokerFinal, PTL

-----------------------------------------------------------------------------
(* The session implements OrderDesk.                                       *)

LEMMA SeenIsSequence ==
  ASSUME order \in Seq(Requests)
  PROVE  /\ DOMAIN SeenAll = 1..Latest /\ Latest \in Nat
         /\ SeenAll \in Seq({Seen(o) : o \in Posted}) /\ Len(SeenAll) = Latest
<1> DEFINE n == Len(order)
           S == {Seen(o) : o \in Posted}
<1>1. Posted = 1..n /\ n \in Nat
  OBVIOUS
<1>2. SeenAll \in [1..n -> S]
  BY <1>1 DEF SeenAll
<1> HIDE DEF n, S
<1>3. SeenAll \in Seq(S)
  BY <1>1, <1>2, SeqDef
<1>4. Len(SeenAll) = n
  BY <1>1, <1>2, <1>3
<1> QED
  BY <1>1, <1>2, <1>3, <1>4 DEF n, S

\* a step that leaves all orders as they are seen may tell of those that are over
LEMMA DeskTells ==
  ASSUME BrokerTypeOK', Final', UNCHANGED SeenAll
  PROVE  Desk!OrderDeskNext
<1>1. Told' \subseteq {o \in Posted' : order'[o].state = "done"}
  <2>1. sweep'.found \subseteq Posted'
    BY DEF BrokerTypeOK, SessionOK
  <2> QED
    BY <2>1 DEF Told, Final, CancelProven, SweepProven
<1>2. \A o \in Posted' : o \in DOMAIN SeenAll' /\ SeenAll'[o] = Seen(o)'
  BY DEF SeenAll
<1>3. \A o \in Posted' : order'[o].state = "done" => Seen(o)'.over
  BY DEF Seen
<1>4. Told' \in SUBSET {o \in DOMAIN SeenAll : SeenAll[o].over}
  BY <1>1, <1>2, <1>3
<1>5. Desk!Tell(Told')
  BY <1>4 DEF Desk!Tell, Desk!Over
<1> QED
  BY <1>4, <1>5 DEF Desk!OrderDeskNext, Desk!Over

LEMMA DeskTrades ==
  ASSUME BrokerTypeOK, NEW o \in Posted, NEW n \in Nat, NEW next \in States,
         Trade(o, n, next), order[o].state # "done", UNCHANGED session
  PROVE  Desk!OrderDeskNext
<1> DEFINE traded == order[o].filled + n
           over == next = "done"
<1>1. /\ Posted' = Posted /\ Latest' = Latest
      /\ order'[o].state = next /\ order'[o].filled = traded
      /\ \A p \in Posted \ {o} : order'[p] = order[p]
  BY TradeEffect
<1>2. order'[o].size = order[o].size
  <2>1. order' = [order EXCEPT ![o] = [@ EXCEPT !.filled = traded, !.state = next]]
    BY DEF Trade
  <2>2. order[o] \in Requests /\ order'[o] = [order[o] EXCEPT !.filled = traded, !.state = next]
    BY <2>1, OrderTyped
  <2> QED
    BY <2>2 DEF Requests
<1>3. /\ order[o].filled \in Nat /\ order[o].size \in Nat
      /\ n <= order[o].size - order[o].filled
  BY OrderTyped DEF Trade
<1>4. order[o].filled <= traded /\ traded <= order[o].size /\ traded \in 0..order[o].size
  BY <1>3
<1> HIDE DEF traded
<1>5. SeenAll' = [SeenAll EXCEPT ![o] = [size |-> @.size, traded |-> traded, over |-> over]]
  <2>1. Seen(o)' = [size |-> order[o].size, traded |-> traded, over |-> over]
    BY <1>1, <1>2 DEF Seen
  <2>2. \A p \in Posted \ {o} : Seen(p)' = Seen(p)
    BY <1>1 DEF Seen
  <2>3. SeenAll' = [p \in Posted |-> IF p = o THEN Seen(o)' ELSE Seen(p)]
    BY <1>1, <2>2 DEF SeenAll
  <2>4. SeenAll[o].size = order[o].size
    BY DEF SeenAll, Seen
  <2>5. [SeenAll EXCEPT ![o] = Seen(o)'] = [p \in Posted |-> IF p = o THEN Seen(o)' ELSE Seen(p)]
    BY DEF SeenAll
  <2> QED
    BY <2>1, <2>3, <2>4, <2>5
<1>6. Told' = Told
  BY <1>1 DEF Told, session
<1>7. o \in DOMAIN SeenAll /\ SeenAll[o] = Seen(o)
  BY DEF SeenAll
<1>8. /\ ~SeenAll[o].over /\ SeenAll[o].traded = order[o].filled
      /\ SeenAll[o].size = order[o].size
  <2>1. /\ Seen(o).traded = order[o].filled /\ Seen(o).size = order[o].size
        /\ Seen(o).over = (order[o].state = "done")
    BY DEF Seen
  <2> QED
    BY <1>7, <2>1
<1>9. Desk!Trades(o, traded, over)
  BY <1>4, <1>5, <1>6, <1>8 DEF Desk!Trades
<1>10. over \in BOOLEAN /\ traded \in 0..SeenAll[o].size
  BY <1>4, <1>8
<1> HIDE DEF over
<1> QED
  BY <1>7, <1>9, <1>10 DEF Desk!OrderDeskNext

LEMMA DeskPlaces ==
  ASSUME BrokerTypeOK, NEW kind \in Kinds, NEW t \in Tickers, NEW q \in Nat \ {0},
         NEW filled \in 0..q, NEW state \in States, Send(kind, t, q, filled, state),
         Told' = {}
  PROVE  Desk!OrderDeskNext
<1> DEFINE r == New(kind, t, q, filled, state)
<1>0. PICK o : o = Latest + 1
  OBVIOUS
<1>1. r \in Requests /\ r.size = q /\ r.filled = filled
  BY DEF Requests, New
<1>2. order' = Append(order, r)
  BY DEF Send
<1> HIDE DEF r
<1>3. /\ order' \in Seq(Requests) /\ Latest' = o /\ order'[o] = r
      /\ Posted' = Posted \cup {o} /\ o \notin Posted
      /\ \A p \in Posted : order'[p] = order[p]
  BY <1>0, <1>1, <1>2, OrderAdded DEF BrokerTypeOK, ExchangeOK
<1>4. /\ o \in DOMAIN SeenAll' /\ SeenAll'[o] = Seen(o)'
      /\ SeenAll'[o].traded <= SeenAll'[o].size
  <2>1. o \in DOMAIN SeenAll' /\ SeenAll'[o] = Seen(o)'
    BY <1>3 DEF SeenAll
  <2>2. Seen(o)'.traded = filled /\ Seen(o)'.size = q
    BY <1>1, <1>3 DEF Seen
  <2> QED
    BY <2>1, <2>2
<1>5. SeenAll' = Append(SeenAll, SeenAll'[o])
  <2>1. /\ Latest \in Nat /\ SeenAll \in Seq({Seen(p) : p \in Posted})
        /\ Len(SeenAll) = Latest /\ Posted = 1..Latest
    BY SeenIsSequence DEF BrokerTypeOK, ExchangeOK
  <2>2. \A p \in Posted : Seen(p)' = Seen(p)
    BY <1>3 DEF Seen
  <2>3. SeenAll' = [p \in 1..o |-> IF p = o THEN SeenAll'[o] ELSE SeenAll[p]]
    <3>1. SeenAll' = [p \in Posted \cup {o} |-> Seen(p)']
      BY <1>3 DEF SeenAll
    <3>2. Posted \cup {o} = 1..o
      BY <1>0, <2>1
    <3>3. \A p \in Posted : SeenAll[p] = Seen(p)
      BY DEF SeenAll
    <3> QED
      BY <1>3, <1>4, <2>1, <2>2, <3>1, <3>2, <3>3
  <2>4. Append(SeenAll, SeenAll'[o])
          = [p \in 1..(Len(SeenAll) + 1) |-> IF p = Len(SeenAll) + 1 THEN SeenAll'[o] ELSE SeenAll[p]]
    BY <2>1
  <2> QED
    BY <1>0, <2>1, <2>3, <2>4
<1>6. Desk!Place(SeenAll'[o])
  BY <1>4, <1>5 DEF Desk!Place
<1> QED
  BY <1>4, <1>6 DEF Desk!OrderDeskNext

\* a step of the exchange trades with one order, or changes nothing that the desk has
LEMMA WorldDesk ==
  ASSUME BrokerTypeOK, World
  PROVE  [Desk!OrderDeskNext]_(Desk!deskVars)
<1>1. \A o \in Posted : \A n \in 0..order[o].size : n \in Nat
  BY OrderTyped
<1>2. ASSUME NEW o \in Posted, NEW n \in Nat, RestingFills(o, n)
      PROVE  Desk!OrderDeskNext
  <2> DEFINE next == IF order[o].filled + n = order[o].size THEN "done"
                     ELSE order[o].state
  <2>1. /\ Trade(o, n, next) /\ UNCHANGED session /\ order[o].state # "done"
        /\ next \in States
    BY <1>2, OrderTyped DEF RestingFills, Live
  <2> HIDE DEF next
  <2> QED
    BY <2>1, DeskTrades
<1>3. ASSUME NEW o \in Posted, NEW n \in Nat, NEW next \in {"resting", "done"},
             LateOrder(o, n, next)
      PROVE  Desk!OrderDeskNext
  BY <1>3, DeskTrades DEF LateOrder
<1>4. ASSUME NEW o \in Posted, OrderGone(o)
      PROVE  Desk!OrderDeskNext
  BY <1>4, DeskTrades DEF OrderGone
<1>5. ASSUME NEW t \in Tickers, NEW n \in 0..MaxLots, Elsewhere(t, n)
      PROVE  UNCHANGED Desk!deskVars
  BY <1>5 DEF Elsewhere, session, Desk!deskVars, SeenAll, Seen, Told
<1>6. CASE Age
  BY <1>6 DEF Age, exchange, session, Desk!deskVars, SeenAll, Seen, Told
<1> QED
  BY <1>1, <1>2, <1>3, <1>4, <1>5, <1>6 DEF World

\* a call that goes on sends nothing: an order stays as it is seen
LEMMA SessionDesk ==
  ASSUME BrokerTypeOK, Session
  PROVE  UNCHANGED SeenAll
<1>1. ASSUME UNCHANGED order PROVE UNCHANGED SeenAll
  BY <1>1 DEF SeenAll, Seen
<1>2. CASE Cancel
  <2>1. PICK o : o = call.order
    OBVIOUS
  <2>2. o \in Posted
    BY <1>2, <2>1 DEF Cancel, BrokerTypeOK, SessionOK
  <2>3. CASE Live(o) /\ order' = [order EXCEPT ![o].state = "cancelling"]
    <3> DEFINE r == [order[o] EXCEPT !.state = "cancelling"]
    <3>1. /\ r \in Requests /\ r.size = order[o].size /\ r.filled = order[o].filled
          /\ r.state = "cancelling"
      BY <2>2, OrderTyped DEF Requests
    <3>2. order' = [order EXCEPT ![o] = r]
      BY <2>3
    <3> HIDE DEF r
    <3>3. /\ Posted' = Posted /\ order'[o] = r
          /\ \A p \in Posted \ {o} : order'[p] = order[p]
      BY <2>2, <3>1, <3>2, OrderSet DEF BrokerTypeOK, ExchangeOK
    <3>4. order[o].state # "done"
      BY <2>3 DEF Live
    <3>5. Seen(o)' = Seen(o)
      BY <3>1, <3>3, <3>4 DEF Seen
    <3>6. \A p \in Posted \ {o} : Seen(p)' = Seen(p)
      BY <3>3 DEF Seen
    <3> QED
      BY <3>3, <3>5, <3>6 DEF SeenAll
  <2> QED
    BY <1>1, <1>2, <2>1, <2>3 DEF Cancel
<1> QED
  BY <1>1, <1>2 DEF Session, Hydrate, Confirm, EndSweep, NextOrphan, exchange

LEMMA PostDesk ==
  ASSUME BrokerTypeOK, NEW kind \in Kinds, NEW t \in Tickers, NEW q \in Nat \ {0},
         Post(kind, t, q)
  PROVE  Desk!OrderDeskNext
<1>1. ASSUME NEW n \in 1..q, PostExecutes(kind, t, q, n) PROVE Desk!OrderDeskNext
  <2>1. PICK state \in States : Send(kind, t, q, n, state)
    BY <1>1 DEF PostExecutes
  <2>2. Told' = {} /\ n \in 0..q
    BY <1>1 DEF PostExecutes, Told, NoResult, Result
  <2> QED
    BY <2>1, <2>2, DeskPlaces
<1>2. CASE PostRests(kind, t, q)
  <2>1. Told' = {} /\ Send(kind, t, q, 0, "resting")
    BY <1>2 DEF PostRests, Told, NoResult, Result
  <2> QED
    BY <2>1, DeskPlaces
<1>3. ASSUME NEW status \in {"no_fill", "error", "too_many_requests"},
             PostFails(kind, t, q, status)
      PROVE  Desk!OrderDeskNext
  <2>1. PICK state \in States : Send(kind, t, q, 0, state)
    BY <1>3 DEF PostFails
  <2>2. Told' = {}
    BY <1>3 DEF PostFails, Return, Told, Result
  <2> QED
    BY <2>1, <2>2, DeskPlaces
<1> QED
  BY <1>1, <1>2, <1>3 DEF Post

LEMMA DeskSteps ==
  BrokerTypeOK /\ Final /\ [AnyStep]_brokerVars => [Desk!OrderDeskNext]_(Desk!deskVars)
<1> SUFFICES ASSUME BrokerTypeOK, Final, [AnyStep]_brokerVars
             PROVE  [Desk!OrderDeskNext]_(Desk!deskVars)
  OBVIOUS
<1>1. CASE UNCHANGED brokerVars
  BY <1>1 DEF brokerVars, exchange, session, Desk!deskVars, SeenAll, Seen, Told
<1>2. CASE AnyStep
  <2>1. BrokerTypeOK' /\ Final'
    BY <1>2, StepTyped, StepFinal
  <2>2. CASE World
    BY <2>2, WorldDesk
  <2>3. CASE Session
    BY <2>1, <2>3, SessionDesk, DeskTells
  <2>4. CASE SyncOk \/ SyncFails \/ ListResting \/ Forget \/ Dies
    <3>1. UNCHANGED SeenAll
      BY <2>4 DEF SyncOk, SyncFails, ListResting, Forget, Dies, exchange, SeenAll, Seen
    <3> QED
      BY <2>1, <3>1, DeskTells
  <2> QED
    BY <1>2, <2>2, <2>3, <2>4, PostDesk DEF AnyStep
<1> QED
  BY <1>1, <1>2

LEMMA DeskInitially == BrokerInit => Desk!OrderDeskInit
<1> SUFFICES ASSUME BrokerInit PROVE Desk!OrderDeskInit
  OBVIOUS
<1>1. SeenAll = <<>>
  BY DEF BrokerInit, SeenAll
<1>2. Told = {}
  BY DEF BrokerInit, Told, NoResult, Result
<1> QED
  BY <1>1, <1>2 DEF Desk!OrderDeskInit

(* Whatever its client calls, and whatever replies are lost, the session   *)
(* implements OrderDesk: what cancel_and_confirm or a sweep reports gone   *)
(* is over by then, and an order that is over trades no more.              *)
THEOREM SessionImplementsOrderDesk == BrokerSpec => ImplementsOrderDesk
<1>1. [BrokerNext]_brokerVars => [AnyStep]_brokerVars
  BY NextIsAnyStep
<1> QED
  BY <1>1, DeskInitially, DeskSteps, BrokerTypeInvariant, BrokerFinal, PTL
  DEF BrokerSpec, ImplementsOrderDesk, Desk!OrderDeskSpec

-----------------------------------------------------------------------------
(* The cached book: between its fill and its settlement, an order accounts *)
(* for the whole difference between the book and the exchange.             *)

Settling(t) == call.place = "hydrate" /\ order[call.order].ticker = t
Accounted(t) ==
  LET r == order[call.order] IN
  IF r.kind = "buy" THEN held[t] = cache[t] + r.filled ELSE cache[t] = held[t] + r.filled
CacheProven ==
  \A t \in Tickers \ blind : IF Settling(t) THEN Accounted(t) ELSE cache[t] = held[t]

LEMMA InitCache == BrokerInit => CacheProven
BY DEF BrokerInit, CacheProven

\* nothing settles before or after the step, and no quantity changes
LEMMA QuietCache ==
  ASSUME CacheProven, call.place # "hydrate", call'.place # "hydrate",
         UNCHANGED <<held, cache, blind>>
  PROVE  CacheProven'
BY DEF CacheProven, Settling

LEMMA WorldCache ==
  ASSUME BrokerTypeOK, CacheProven, World
  PROVE  CacheProven'
<1>1. /\ Onward /\ Untouched /\ cache' = cache /\ call' = call
  BY WorldEffect DEF session
<1> SUFFICES ASSUME NEW t \in Tickers \ blind'
             PROVE  IF Settling(t)' THEN Accounted(t)' ELSE cache'[t] = held'[t]
  BY DEF CacheProven
<1>2. t \in Tickers \ blind /\ held'[t] = held[t]
  BY <1>1 DEF Untouched
<1>3. IF Settling(t) THEN Accounted(t) ELSE cache[t] = held[t]
  BY <1>2 DEF CacheProven
<1>4. CASE call.place = "hydrate"
  <2>1. /\ call.order \in Posted
        /\ order'[call.order].ticker = order[call.order].ticker
        /\ order'[call.order].kind = order[call.order].kind
        /\ order[call.order].ticker = t =>
             order'[call.order].filled = order[call.order].filled
    BY <1>1, <1>4 DEF BrokerTypeOK, SessionOK, Onward, Untouched
  <2>2. Settling(t)' <=> Settling(t)
    BY <1>1, <2>1 DEF Settling
  <2>3. Settling(t) => (Accounted(t)' <=> Accounted(t))
    BY <1>1, <1>2, <2>1 DEF Settling, Accounted
  <2> QED
    BY <1>1, <1>2, <1>3, <2>2, <2>3
<1>5. CASE call.place # "hydrate"
  BY <1>1, <1>2, <1>3, <1>5 DEF Settling
<1> QED
  BY <1>4, <1>5

LEMMA HydrateCache ==
  ASSUME BrokerTypeOK, CacheProven, Hydrate
  PROVE  CacheProven'
<1> DEFINE o == call.order
           r == order[o]
           t == r.ticker
<1>1. PICK fill \in Nat : ApplyFill(o, fill)
  <2>1. o \in Posted /\ call.reported \in Nat /\ order[o].filled \in Nat
    BY OrderTyped DEF Hydrate, BrokerTypeOK, SessionOK
  <2> QED
    BY <2>1 DEF Hydrate
<1>2. /\ o \in Posted /\ t \in Tickers /\ r.size \in Nat /\ r.filled \in Nat
      /\ r.filled <= r.size /\ r.kind \in Kinds
      /\ cache[t] \in Nat /\ held[t] \in Nat /\ cache \in [Tickers -> Nat]
  BY OrderTyped DEF Hydrate, BrokerTypeOK, SessionOK, BookOK, ExchangeOK
<1> DEFINE most == IF r.kind = "sell" /\ cache[t] > 0 THEN cache[t] ELSE r.size
           n == Lesser(fill, most)
           left == IF r.kind = "buy" THEN cache[t] + n
                   ELSE IF cache[t] > n THEN cache[t] - n ELSE 0
<1>3. /\ cache' = [cache EXCEPT ![t] = left]
      /\ call'.place = "idle" /\ UNCHANGED held
      /\ blind' = IF fill = r.filled THEN blind ELSE blind \cup {t}
  BY <1>1 DEF ApplyFill, Return, NoCall, Hydrate, exchange
<1>4. ASSUME t \notin blind' PROVE cache'[t] = held[t]
  <2>1. fill = r.filled /\ t \in Tickers \ blind
    BY <1>2, <1>3, <1>4
  <2>2. Accounted(t)
    BY <2>1 DEF CacheProven, Settling, Hydrate
  <2>3. cache'[t] = left
    BY <1>2, <1>3
  <2>4. CASE r.kind = "buy"
    BY <1>2, <2>1, <2>2, <2>3, <2>4 DEF Accounted, Lesser
  <2>5. CASE r.kind = "sell"
    BY <1>2, <2>1, <2>2, <2>3, <2>5 DEF Accounted, Lesser
  <2> QED
    BY <1>2, <2>4, <2>5
<1> HIDE DEF left
<1>5. ASSUME NEW u \in Tickers \ blind', u # t PROVE cache'[u] = held'[u]
  <2>1. u \in Tickers \ blind /\ ~Settling(u) /\ cache'[u] = cache[u]
    BY <1>2, <1>3, <1>5 DEF Settling
  <2> QED
    BY <1>3, <2>1 DEF CacheProven
<1> QED
  BY <1>3, <1>4, <1>5 DEF CacheProven, Settling

LEMMA PostCache ==
  ASSUME BrokerTypeOK, CacheProven, NEW kind \in Kinds, NEW t \in Tickers,
         NEW q \in Nat \ {0}, Post(kind, t, q)
  PROVE  CacheProven'
<1>1. call.place # "hydrate"
  BY DEF Post, Idle
<1>2. ASSUME NEW n \in 1..q, PostExecutes(kind, t, q, n) PROVE CacheProven'
  <2> DEFINE h == IF kind = "buy" THEN held[t] + n ELSE held[t] - n
  <2>1. PICK state \in States : Send(kind, t, q, n, state)
    BY <1>2 DEF PostExecutes
  <2>2. order'[Latest + 1] = New(kind, t, q, n, state)
    <3>1. New(kind, t, q, n, state) \in Requests
      BY DEF Requests, New
    <3> QED
      BY <2>1, <3>1, OrderAdded DEF Send, BrokerTypeOK, ExchangeOK
  <2>3. /\ call'.place = "hydrate" /\ call'.order = Latest + 1
        /\ held' = [held EXCEPT ![t] = h] /\ UNCHANGED <<cache, blind>>
        /\ kind = "sell" => n <= held[t]
    BY <1>2 DEF PostExecutes, AtPlace, book
  <2>4. /\ held \in [Tickers -> Nat] /\ held[t] \in Nat
    BY DEF BrokerTypeOK, ExchangeOK
  <2>5. \A u \in Tickers \ blind : cache[u] = held[u]
    BY <1>1 DEF CacheProven, Settling
  <2>6. ASSUME NEW u \in Tickers \ blind'
        PROVE  IF Settling(u)' THEN Accounted(u)' ELSE cache'[u] = held'[u]
    <3>1. Settling(u)' <=> u = t
      BY <2>2, <2>3 DEF Settling, New
    <3>2. CASE u = t
      <4>1. order'[call'.order].kind = kind /\ order'[call'.order].filled = n
        BY <2>2, <2>3 DEF New
      <4>2. held'[t] = h /\ cache'[t] = held[t]
        BY <2>3, <2>4, <2>5, <2>6, <3>2
      <4>3. Accounted(t)'
        BY <2>3, <2>4, <4>1, <4>2 DEF Accounted
      <4> QED
        BY <3>1, <3>2, <4>3
    <3>3. CASE u # t
      <4> HIDE DEF h
      <4> QED
        BY <2>3, <2>4, <2>5, <2>6, <3>1, <3>3
    <3> QED
      BY <3>2, <3>3
  <2> QED
    BY <2>6 DEF CacheProven
<1>3. CASE PostRests(kind, t, q)
  BY <1>1, <1>3, QuietCache DEF PostRests, AtPlace, book
<1>4. ASSUME NEW status \in Statuses, PostFails(kind, t, q, status) PROVE CacheProven'
  BY <1>1, <1>4, QuietCache DEF PostFails, Return, NoCall, book
<1> QED
  BY <1>2, <1>3, <1>4 DEF Post

LEMMA StepCache == BrokerTypeOK /\ CacheProven /\ AnyStep => CacheProven'
<1> SUFFICES ASSUME BrokerTypeOK, CacheProven, AnyStep PROVE CacheProven'
  OBVIOUS
<1>1. CASE SyncOk
  BY <1>1 DEF SyncOk, CacheProven, Settling, Idle, exchange
<1>2. CASE SyncFails \/ Forget \/ ListResting
  BY <1>2, QuietCache DEF SyncFails, Forget, ListResting, Idle, exchange, book
<1>3. CASE Dies
  BY <1>3 DEF Dies, CacheProven
<1>4. CASE Session
  <2>1. CASE Cancel \/ Confirm
    <3>1. call.place # "hydrate" /\ call'.place # "hydrate"
      BY <2>1 DEF Cancel, Confirm, Confirmed, AtPlace, Return, NoCall
    <3> QED
      BY <2>1, <3>1, QuietCache DEF Cancel, Confirm, exchange, book
  <2>2. CASE EndSweep
    BY <2>2, QuietCache DEF EndSweep, exchange, book
  <2>3. ASSUME NEW o \in Posted, NextOrphan(o) PROVE CacheProven'
    BY <2>3, QuietCache DEF NextOrphan, AtPlace, exchange, book
  <2> QED
    BY <1>4, <2>1, <2>2, <2>3, HydrateCache DEF Session
<1> QED
  BY <1>1, <1>2, <1>3, <1>4, WorldCache, PostCache DEF AnyStep

(* sync_positions and the fill bookkeeping of the three order calls: the   *)
(* cached quantity of every ticker about which nothing has been withheld   *)
(* from the process is what the exchange holds.                            *)
THEOREM CacheIsGrounded == BrokerSpec => []CacheGrounded
<1>1. CacheProven /\ UNCHANGED brokerVars => CacheProven'
  BY DEF brokerVars, exchange, book, session, CacheProven, Settling, Accounted
<1>2. CacheProven => CacheGrounded
  BY DEF CacheProven, CacheGrounded, Settling
<1> QED
  BY <1>1, <1>2, InitCache, StepCache, NextIsAnyStep, BrokerTypeInvariant,
     PTL DEF BrokerSpec
=============================================================================
