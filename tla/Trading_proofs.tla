--------------------------- MODULE Trading_proofs ---------------------------
(***************************************************************************)
(* Theorems of Trading: whatever the daemon does is what some client of    *)
(* the broker session may do, so the session's invariants hold under it;   *)
(* its type invariant; what it may never do when it sends an entry; that   *)
(* rows close on flat positions only, and between cycles mirror the book;  *)
(* and that positions from elsewhere alone exceed the cap.                 *)
(***************************************************************************)
EXTENDS Trading, Broker_proofs, FiniteSetTheorems

\* the calls of a client that leave the orders as they are
Quiet == SyncOk \/ SyncFails \/ ListResting \/ Forget \/ Dies \/ UNCHANGED brokerVars
Sells == \E t \in Tickers, q \in Nat \ {0} : Post("sell", t, q)

InHand == {"exiting", "swap", "swapping", "planned", "submit", "entering", "selling",
           "selling_last"}
EmptyHanded == {"down", "sweeping", "boot", "top", "exits", "loop", "monitor", "watch"}

LocalOK ==
  /\ at \in EmptyHanded \cup InHand
  /\ todo \subseteq Tickers
  /\ deal \in [ticker: Tickers \cup {NoTicker}, worst: Tickers \cup {NoTicker},
               qty: Nat, book: [Tickers -> Nat]]
  /\ db \in [Tickers -> Nat]
  /\ unrecorded \subseteq Tickers /\ uncertain \in BOOLEAN

\* what the process has in hand is fit for the step it is about to take
Ready ==
  /\ at \in InHand => deal.ticker \in Tickers
  /\ at \in {"swap", "swapping"} => deal.worst \in Tickers
  /\ at \in {"swap", "swapping", "selling", "selling_last"} => deal.qty # 0
  /\ at = "planned" =>
       /\ deal.book[deal.ticker] = 0
       /\ Size(deal.book) < EffectiveCap(deal.ticker)
  /\ at = "submit" =>
       /\ Idle /\ cache[deal.ticker] = 0
       /\ Size(cache) < EffectiveCap(deal.ticker)

Equipped == LocalOK /\ Ready
USE DEF InHand, EmptyHanded, Kinds, States, Statuses, Posted, Latest

-----------------------------------------------------------------------------
(* The daemon is a client of the session.                                  *)

LEMMA DaemonCalls ==
  ASSUME BrokerTypeOK, Equipped, Daemon \/ Crash
  PROVE  Quiet \/ Sells \/ Submit
<1> USE DEF Quiet
<1>1. \A t \in Tickers : cache[t] \in Nat
  BY DEF BrokerTypeOK, BookOK
<1>2. ASSUME NEW t \in Tickers, ExitPosition(t) PROVE Sells
  BY <1>1, <1>2 DEF ExitPosition, Sells
<1>3. ASSUME NEW t \in Tickers, MonitorExit(t) PROVE Sells
  BY <1>1, <1>3 DEF MonitorExit, Sells
<1>4. CASE Swap
  BY <1>4 DEF Swap, Sells, Equipped, LocalOK, Ready
<1>5. CASE MonitorFallback
  BY <1>5 DEF MonitorFallback, Sells, Equipped, LocalOK, Ready
<1>6. CASE StartSweep \/ EndStartSweep \/ StartReconciliation \/ StartStrategy
             \/ SkipStrategy \/ ExitDone \/ EndExits
  BY <1>6 DEF StartSweep, EndStartSweep, StartReconciliation, StartStrategy,
     SkipStrategy, ExitDone, EndExits
<1>7. CASE SwapNotFilled \/ SwapUnread \/ SwapDone \/ DropPlan
             \/ RefreshSubmissionRiskState \/ EntryDone \/ EndLoop
  BY <1>7 DEF SwapNotFilled, SwapUnread, SwapDone, DropPlan,
     RefreshSubmissionRiskState, EntryDone, EndLoop
<1>8. CASE Monitor \/ MonitorExitDone \/ EndCycle \/ Crash
  BY <1>8 DEF Monitor, MonitorExitDone, EndCycle, Crash
<1>9. ASSUME NEW t \in Tickers,
             HoldPosition(t) \/ VetoCandidate(t) \/ AdmitCandidate(t) \/ LeavePosition(t)
      PROVE  Quiet
  BY <1>9 DEF HoldPosition, VetoCandidate, AdmitCandidate, LeavePosition
<1> QED
  BY <1>2, <1>3, <1>4, <1>5, <1>6, <1>7, <1>8, <1>9 DEF Daemon

LEMMA StepIsClient ==
  ASSUME BrokerTypeOK, Equipped, TradingNext
  PROVE  AnyStep \/ UNCHANGED brokerVars
<1>1. CASE Daemon \/ Crash
  <2>1. CASE Submit
    <3>1. \E q \in Nat \ {0} : Post("buy", deal.ticker, q)
      BY <2>1, BoundsAssumption DEF Submit, Sizes
    <3>2. deal.ticker \in Tickers
      BY <2>1 DEF Submit, Equipped, Ready
    <3> QED
      BY <3>1, <3>2 DEF AnyStep
  <2>2. CASE Sells
    BY <2>2 DEF Sells, AnyStep
  <2>3. CASE Quiet
    BY <2>3 DEF Quiet, AnyStep
  <2> QED
    BY <1>1, <2>1, <2>2, <2>3, DaemonCalls
<1>2. CASE World \/ Session
  BY <1>2 DEF AnyStep
<1> QED
  BY <1>1, <1>2 DEF TradingNext

-----------------------------------------------------------------------------
(* Type correctness, and fitness for the next step.                        *)

LEMMA FlatTyped == Flat \in [Tickers -> Nat]
BY DEF Flat

\* the process goes on with nothing in hand
LEMMA GoEquips ==
  ASSUME NEW place \in EmptyHanded, NEW left \in SUBSET Tickers, Go(place, left),
         db' \in [Tickers -> Nat], unrecorded' \subseteq Tickers, uncertain' \in BOOLEAN
  PROVE  Equipped'
<1>1. deal' \in [ticker: Tickers \cup {NoTicker}, worst: Tickers \cup {NoTicker},
                 qty: Nat, book: [Tickers -> Nat]]
  BY FlatTyped DEF Go, NoDeal, Deal
<1>2. LocalOK'
  BY <1>1 DEF Go, LocalOK
<1>3. Ready'
  BY DEF Go, Ready
<1> QED
  BY <1>2, <1>3 DEF Equipped

\* it goes on with the position it sells
LEMMA SaleEquips ==
  ASSUME NEW place \in {"exiting", "selling", "selling_last"}, NEW t \in Tickers,
         NEW q \in Nat \ {0}, With(place, Deal(t, NoTicker, q, Flat)),
         todo' \subseteq Tickers, LocalOK, NoWrites
  PROVE  Equipped'
<1>1. deal' = Deal(t, NoTicker, q, Flat) /\ at' = place
  BY DEF With
<1>2. LocalOK'
  BY <1>1, FlatTyped DEF LocalOK, NoWrites, Deal
<1>3. Ready'
  BY <1>1 DEF Ready, Deal
<1> QED
  BY <1>2, <1>3 DEF Equipped

\* the duplicate guard lets only flat tickers through
LEMMA AdmittedEquips ==
  ASSUME NEW t \in Tickers, NEW w \in Tickers \cup {NoTicker}, Admitted(t, w),
         cache' \in [Tickers -> Nat], Size(cache') < EffectiveCap(t),
         todo \subseteq Tickers,
         db' \in [Tickers -> Nat], unrecorded' \subseteq Tickers, uncertain' \in BOOLEAN
  PROVE  Equipped'
<1>1. CASE cache'[t] = 0
  <2>1. at' = "planned" /\ deal' = Deal(t, w, 0, cache') /\ todo' = todo \ {t}
    BY <1>1 DEF Admitted, With
  <2>2. LocalOK'
    BY <2>1 DEF LocalOK, Deal
  <2>3. Ready'
    BY <1>1, <2>1 DEF Ready, Deal
  <2> QED
    BY <2>2, <2>3 DEF Equipped
<1>2. CASE cache'[t] # 0
  BY <1>2, GoEquips DEF Admitted, NextCandidate
<1> QED
  BY <1>1, <1>2

LEMMA OpenTyped == \A positions : Open(positions) \subseteq Tickers
BY DEF Open

LEMMA CapsOrdered == \A t : Cap <= EffectiveCap(t) /\ EffectiveCap(t) \in Nat
BY TradingAssumption DEF EffectiveCap

LEMMA SizeTyped == \A positions : Size(positions) \in Nat
BY TradingAssumption, OpenTyped, FS_Subset, FS_CardinalityType DEF Size

LEMMA DaemonEquips ==
  ASSUME BrokerTypeOK, BrokerTypeOK', Equipped, Daemon \/ Crash
  PROVE  Equipped'
<1> USE DEF NoWrites, Mirror
<1>1. /\ cache \in [Tickers -> Nat] /\ cache' \in [Tickers -> Nat]
      /\ result.left \in Nat /\ result.filled \in Nat
  BY DEF BrokerTypeOK, BookOK, SessionOK
<1>2. /\ todo \subseteq Tickers /\ db \in [Tickers -> Nat]
      /\ unrecorded \subseteq Tickers /\ uncertain \in BOOLEAN
      /\ deal \in [ticker: Tickers \cup {NoTicker}, worst: Tickers \cup {NoTicker},
                   qty: Nat, book: [Tickers -> Nat]]
      /\ at \in InHand => deal.ticker \in Tickers
  BY DEF Equipped, LocalOK, Ready
<1>3. Open(cache') \subseteq Tickers
  BY OpenTyped
<1>4. CASE StartSweep \/ EndStartSweep \/ StartReconciliation \/ StartStrategy
             \/ SkipStrategy
  BY <1>1, <1>2, <1>3, <1>4, GoEquips DEF StartSweep, EndStartSweep,
     StartReconciliation, StartStrategy, SkipStrategy
<1>5. CASE ExitDone
  BY <1>1, <1>2, <1>5, GoEquips DEF ExitDone
<1>6. CASE EndExits
  BY <1>1, <1>2, <1>6, GoEquips DEF EndExits
<1>7. CASE Swap
  <2>1. CASE With("swapping", deal) /\ UNCHANGED todo
    <3>1. at' = "swapping" /\ deal' = deal /\ UNCHANGED <<db, unrecorded, uncertain>>
      BY <1>7, <2>1 DEF Swap, With
    <3>2. deal.worst \in Tickers /\ deal.qty # 0 /\ deal.ticker \in Tickers
      BY <1>7 DEF Swap, Equipped, Ready
    <3>3. LocalOK' /\ Ready'
      BY <1>2, <2>1, <3>1, <3>2 DEF LocalOK, Ready
    <3> QED
      BY <3>3 DEF Equipped
  <2> QED
    BY <1>2, <1>7, <2>1, GoEquips DEF Swap
<1>8. CASE SwapNotFilled \/ SwapUnread
  <2>1. deal.worst \in Tickers \/ SwapNotFilled
    BY <1>8 DEF SwapUnread, Equipped, Ready
  <2> QED
    BY <1>2, <1>8, <2>1, GoEquips DEF SwapNotFilled, SwapUnread
<1>9. CASE SwapDone
  <2>1. db' \in [Tickers -> Nat] /\ deal.ticker \in Tickers
    BY <1>2, <1>9 DEF SwapDone
  <2>2. CASE Size(cache') < EffectiveCap(deal.ticker) /\ Admitted(deal.ticker, deal.worst)
    BY <1>1, <1>2, <1>9, <2>1, <2>2, AdmittedEquips DEF SwapDone
  <2>3. CASE Go("loop", todo)
    BY <1>2, <1>9, <2>1, <2>3, GoEquips DEF SwapDone
  <2> QED
    BY <1>9, <2>2, <2>3 DEF SwapDone
<1>10. CASE DropPlan \/ EndLoop \/ EndCycle \/ Monitor
  BY <1>1, <1>2, <1>3, <1>10, GoEquips DEF DropPlan, EndLoop, EndCycle, Monitor
<1>11. CASE RefreshSubmissionRiskState
  <2>1. CASE /\ SyncOk /\ cache' = deal.book
             /\ With("submit", deal) /\ UNCHANGED todo
    <3>1. at' = "submit" /\ deal' = deal /\ UNCHANGED <<todo, db, unrecorded, uncertain>>
      BY <1>11, <2>1 DEF RefreshSubmissionRiskState, With
    <3>2. /\ deal.book[deal.ticker] = 0 /\ deal.ticker \in Tickers
          /\ Size(deal.book) < EffectiveCap(deal.ticker)
      BY <1>11 DEF RefreshSubmissionRiskState, Equipped, Ready
    <3>3. Idle'
      BY <2>1 DEF SyncOk, Idle, Anew, NoSweep
    <3>4. LocalOK' /\ Ready'
      BY <1>2, <2>1, <3>1, <3>2, <3>3 DEF LocalOK, Ready
    <3> QED
      BY <3>4 DEF Equipped
  <2>2. CASE Go("loop", todo)
    BY <1>2, <1>11, <2>2, GoEquips DEF RefreshSubmissionRiskState
  <2> QED
    BY <1>11, <2>1, <2>2 DEF RefreshSubmissionRiskState
<1>12. CASE Submit
  <2>1. at' = "entering" /\ deal' = deal /\ UNCHANGED <<todo, db, unrecorded, uncertain>>
    BY <1>12 DEF Submit, With
  <2>2. deal.ticker \in Tickers
    BY <1>2, <1>12 DEF Submit
  <2>3. LocalOK' /\ Ready'
    BY <1>2, <2>1, <2>2 DEF LocalOK, Ready
  <2> QED
    BY <2>3 DEF Equipped
<1>13. CASE EntryDone
  <2>1. cache[deal.ticker] \in Nat
    BY <1>1, <1>2, <1>13 DEF EntryDone
  <2>2. db' \in [Tickers -> Nat] /\ uncertain' \in BOOLEAN
    BY <1>2, <1>13, <2>1 DEF EntryDone
  <2> QED
    BY <1>2, <1>13, <2>2, GoEquips DEF EntryDone
<1>14. CASE MonitorFallback
  <2>1. CASE With("selling_last", deal) /\ UNCHANGED todo
    <3>1. /\ at' = "selling_last" /\ deal' = deal
          /\ UNCHANGED <<todo, db, unrecorded, uncertain>>
      BY <1>14, <2>1 DEF MonitorFallback, With
    <3>2. deal.ticker \in Tickers /\ deal.qty # 0
      BY <1>14 DEF MonitorFallback, Equipped, Ready
    <3>3. LocalOK' /\ Ready'
      BY <1>2, <3>1, <3>2 DEF LocalOK, Ready
    <3> QED
      BY <3>3 DEF Equipped
  <2> QED
    BY <1>2, <1>14, <2>1, GoEquips DEF MonitorFallback
<1>15. CASE MonitorExitDone
  <2>1. deal.ticker \in Tickers /\ Remaining \in Nat
    BY <1>1, <1>2, <1>15 DEF MonitorExitDone, Remaining
  <2>2. db' \in [Tickers -> Nat] /\ unrecorded' \subseteq Tickers
    BY <1>2, <1>15, <2>1 DEF MonitorExitDone
  <2> QED
    BY <1>2, <1>15, <2>2, GoEquips DEF MonitorExitDone
<1>16. CASE Crash
  BY <1>2, <1>16, GoEquips DEF Crash
<1>17. ASSUME NEW t \in Tickers, HoldPosition(t) \/ VetoCandidate(t) \/ LeavePosition(t)
       PROVE  Equipped'
  BY <1>2, <1>17, GoEquips DEF HoldPosition, VetoCandidate, LeavePosition, NextCandidate
<1>18. ASSUME NEW t \in Tickers, ExitPosition(t) PROVE Equipped'
  <2>1. /\ cache[t] \in Nat \ {0} /\ todo' \subseteq Tickers
        /\ With("exiting", Deal(t, NoTicker, cache[t], Flat)) /\ LocalOK /\ NoWrites
    BY <1>1, <1>2, <1>18 DEF ExitPosition, Equipped
  <2> HIDE DEF NoWrites
  <2> QED
    BY <2>1, SaleEquips
<1>19. ASSUME NEW t \in Tickers, AdmitCandidate(t) PROVE Equipped'
  <2>1. CASE NextCandidate(t)
    BY <1>2, <1>19, <2>1, GoEquips DEF AdmitCandidate, NextCandidate
  <2>2. CASE Size(cache') < Cap /\ Admitted(t, NoTicker)
    <3>1. Size(cache') < EffectiveCap(t)
      BY <2>2, CapsOrdered, SizeTyped, TradingAssumption
    <3> QED
      BY <1>1, <1>2, <1>19, <2>2, <3>1, AdmittedEquips DEF AdmitCandidate
  <2>3. ASSUME NEW w \in Open(cache'), With("swap", Deal(t, w, cache'[w], Flat)),
               todo' = todo \ {t}
        PROVE  Equipped'
    <3>1. w \in Tickers /\ cache'[w] \in Nat \ {0}
      BY <1>1 DEF Open
    <3>2. /\ at' = "swap" /\ deal' = Deal(t, w, cache'[w], Flat)
          /\ UNCHANGED <<db, unrecorded, uncertain>>
      BY <1>19, <2>3 DEF AdmitCandidate, With
    <3>3. LocalOK'
      BY <1>2, <2>3, <3>1, <3>2, FlatTyped DEF LocalOK, Deal
    <3>4. Ready'
      BY <3>1, <3>2 DEF Ready, Deal
    <3> QED
      BY <3>3, <3>4 DEF Equipped
  <2> QED
    BY <1>19, <2>1, <2>2, <2>3 DEF AdmitCandidate
<1>20. ASSUME NEW t \in Tickers, MonitorExit(t) PROVE Equipped'
  <2>1. /\ cache[t] \in Nat \ {0} /\ todo' \subseteq Tickers /\ LocalOK /\ NoWrites
        /\ \E place \in {"selling", "selling_last"} :
             With(place, Deal(t, NoTicker, cache[t], Flat))
    BY <1>1, <1>2, <1>20 DEF MonitorExit, Equipped
  <2> HIDE DEF NoWrites
  <2> QED
    BY <2>1, SaleEquips
<1> QED
  BY <1>4, <1>5, <1>6, <1>7, <1>8, <1>9, <1>10, <1>11, <1>12, <1>13, <1>14, <1>15,
     <1>16, <1>17, <1>18, <1>19, <1>20 DEF Daemon

\* what the exchange and the calls in progress do leaves the daemon in place
LEMMA OthersEquip ==
  ASSUME BrokerTypeOK, Equipped, World \/ Session,
         UNCHANGED <<at, todo, deal, db, unrecorded, uncertain, crashes>>
  PROVE  Equipped'
<1>1. LocalOK'
  BY DEF Equipped, LocalOK
<1>2. at = "submit" => UNCHANGED cache /\ (Idle' <=> Idle)
  <2>1. CASE World
    BY <2>1, WorldEffect DEF session, Idle
  <2>2. CASE Session
    BY <2>2 DEF Session, Hydrate, Cancel, Confirm, EndSweep, NextOrphan, Equipped,
       Ready, Idle
  <2> QED
    BY <2>1, <2>2
<1>3. Ready'
  BY <1>2 DEF Equipped, Ready
<1> QED
  BY <1>1, <1>3 DEF Equipped

TradingInv == BrokerTypeOK /\ TradingTypeOK /\ Equipped

LEMMA InitInv == TradingInit => TradingInv
<1> SUFFICES ASSUME TradingInit PROVE TradingInv
  OBVIOUS
<1>1. BrokerTypeOK
  BY InitTyped DEF TradingInit
<1>2. deal \in [ticker: Tickers \cup {NoTicker}, worst: Tickers \cup {NoTicker},
                qty: Nat, book: [Tickers -> Nat]]
  BY FlatTyped DEF TradingInit, NoDeal, Deal
<1>3. LocalOK
  BY <1>2, FlatTyped DEF TradingInit, LocalOK
<1>4. Ready
  BY DEF TradingInit, Ready
<1>5. TradingTypeOK
  <2>1. strays \subseteq Open(held) /\ crashes \in 0..MaxCrashes
    BY TradingAssumption DEF TradingInit
  <2> QED
    BY <1>3, <2>1 DEF LocalOK, TradingTypeOK
<1> QED
  BY <1>1, <1>3, <1>4, <1>5 DEF TradingInv, Equipped

LEMMA StepInv == TradingInv /\ TradingNext => TradingInv'
<1> SUFFICES ASSUME TradingInv, TradingNext PROVE TradingInv'
  OBVIOUS
<1>1. BrokerTypeOK /\ TradingTypeOK /\ Equipped
  BY DEF TradingInv
<1>2. BrokerTypeOK'
  <2>1. CASE UNCHANGED brokerVars
    BY <1>1, <2>1 DEF brokerVars, exchange, book, session, BrokerTypeOK, ExchangeOK,
       BookOK, SessionOK
  <2> QED
    BY <1>1, <2>1, StepIsClient, StepTyped
<1>3. Equipped'
  BY <1>1, <1>2, DaemonEquips, OthersEquip DEF TradingNext
<1>4. strays' \subseteq Open(held')
  BY DEF TradingNext, Opened
<1>5. crashes' \in 0..MaxCrashes
  BY <1>1, TradingAssumption DEF TradingNext, Crash, TradingTypeOK
<1>6. TradingTypeOK'
  BY <1>3, <1>4, <1>5 DEF Equipped, LocalOK, TradingTypeOK
<1> QED
  BY <1>2, <1>3, <1>6 DEF TradingInv

LEMMA TradingInvariant == TradingSpec => []TradingInv
<1>1. ASSUME TradingInv, UNCHANGED tradingVars PROVE TradingInv'
  <2>1. UNCHANGED <<held, order, elsewhere, cache, snapshot, blind, call, sweep, result>>
    BY <1>1 DEF tradingVars, brokerVars, exchange, book, session
  <2>2. BrokerTypeOK'
    BY <1>1, <2>1 DEF TradingInv, BrokerTypeOK, ExchangeOK, BookOK, SessionOK
  <2>3. TradingTypeOK'
    BY <1>1, <2>1 DEF tradingVars, TradingInv, TradingTypeOK
  <2>4. Equipped'
    BY <1>1, <2>1 DEF tradingVars, TradingInv, Equipped, LocalOK, Ready, Idle
  <2> QED
    BY <2>2, <2>3, <2>4 DEF TradingInv
<1> QED
  BY <1>1, InitInv, StepInv, PTL DEF TradingSpec

(* The daemon's place, candidates, dealings, rows and histories keep their *)
(* types through every cycle and every crash.                              *)
THEOREM TradingTypeInvariant == TradingSpec => []TradingTypeOK
<1>1. TradingInv => TradingTypeOK
  BY DEF TradingInv
<1> QED
  BY <1>1, TradingInvariant, PTL

-----------------------------------------------------------------------------
(* What holds of every client holds of the daemon.                         *)

(* Under the daemon the cached book stays grounded, a confirmed cancel is  *)
(* final, and a startup sweep that reports success has cleared the orders  *)
(* it found: the invariants of the broker session, which the quantities    *)
(* the daemon asks for do not disturb.                                     *)
THEOREM DaemonKeepsSession ==
  TradingSpec => [](CacheGrounded /\ CancelledIsGone /\ SweepClears)
<1> DEFINE Proven == Final /\ CacheProven
<1>1. TradingInit => Proven
  BY InitFinal, InitCache DEF TradingInit
<1>2. TradingInv /\ Proven /\ [TradingNext]_tradingVars => Proven'
  <2>1. CASE UNCHANGED brokerVars
    BY <2>1 DEF brokerVars, exchange, book, session, Final, CancelProven, SweepProven,
       CacheProven, Settling, Accounted
  <2>2. CASE UNCHANGED tradingVars
    BY <2>1, <2>2 DEF tradingVars
  <2>3. ASSUME TradingInv, Proven, TradingNext PROVE Proven'
    BY <2>1, <2>3, StepIsClient, StepFinal, StepCache DEF TradingInv
  <2> QED
    BY <2>2, <2>3
<1>3. Proven => CacheGrounded /\ CancelledIsGone /\ SweepClears
  BY DEF Final, CancelProven, SweepProven, CacheProven, Settling, CacheGrounded,
     CancelledIsGone, SweepClears, Live
<1> HIDE DEF Proven
<1> QED
  BY <1>1, <1>2, <1>3, TradingInvariant, PTL DEF TradingSpec

(* So does the order desk: whatever the daemon sends, retries or sweeps, an *)
(* order it was told is gone is over, and trades no more.                  *)
THEOREM DaemonImplementsOrderDesk == TradingSpec => ImplementsOrderDesk
<1>1. TradingInit => BrokerTypeOK /\ Final /\ Desk!OrderDeskInit
  BY InitTyped, InitFinal, DeskInitially DEF TradingInit
<1>2. TradingInv /\ [TradingNext]_tradingVars => [AnyStep]_brokerVars
  <2>1. UNCHANGED tradingVars => UNCHANGED brokerVars
    BY DEF tradingVars
  <2>2. TradingInv /\ TradingNext => AnyStep \/ UNCHANGED brokerVars
    BY StepIsClient DEF TradingInv
  <2> QED
    BY <2>1, <2>2
<1>3. TradingInv => BrokerTypeOK
  BY DEF TradingInv
<1>4. BrokerTypeOK /\ Final /\ [AnyStep]_brokerVars => Final'
  BY StepFinal DEF brokerVars, exchange, book, session, Final, CancelProven, SweepProven
<1> QED
  BY <1>1, <1>2, <1>3, <1>4, DeskSteps, TradingInvariant, PTL
  DEF TradingSpec, ImplementsOrderDesk, Desk!OrderDeskSpec

-----------------------------------------------------------------------------
(* What the daemon may never do when it sends an entry.                    *)

LEMMA PostOrder ==
  ASSUME BrokerTypeOK, NEW kind \in Kinds, NEW t \in Tickers, NEW q \in Nat \ {0},
         Post(kind, t, q)
  PROVE  /\ Latest' = Latest + 1
         /\ order'[Latest + 1].kind = kind /\ order'[Latest + 1].ticker = t
<1>1. PICK filled \in 0..q, state \in States : Send(kind, t, q, filled, state)
  BY DEF Post, PostExecutes, PostRests, PostFails
<1> DEFINE r == New(kind, t, q, filled, state)
<1>2. r \in Requests /\ r.kind = kind /\ r.ticker = t
  BY DEF Requests, New
<1>3. order' = Append(order, r)
  BY <1>1 DEF Send
<1> HIDE DEF r
<1> QED
  BY <1>2, <1>3, OrderAdded DEF BrokerTypeOK, ExchangeOK

LEMMA OnlySubmitAdds ==
  ASSUME BrokerTypeOK, Equipped, TradingNext, NEW t \in Tickers, Adds(t)
  PROVE  Submit /\ t = deal.ticker
<1>1. Latest \in Nat /\ Latest' # Latest
  BY DEF Adds, BrokerTypeOK, ExchangeOK
<1>2. ~World
  BY <1>1, WorldEffect
<1>3. ~Session
  <2>1. ASSUME Cancel PROVE FALSE
    <3>1. call.order \in Posted
      BY <2>1 DEF Cancel, BrokerTypeOK, SessionOK
    <3> QED
      BY <1>1, <2>1, <3>1, CancelEffect DEF Cancel
  <2> QED
    BY <1>1, <2>1 DEF Session, Hydrate, Confirm, EndSweep, NextOrphan, exchange
<1>4. ~Quiet
  BY <1>1 DEF Quiet, SyncOk, SyncFails, ListResting, Forget, Dies, exchange, brokerVars
<1>5. ~Sells
  BY <1>1, PostOrder DEF Sells, Adds
<1>6. Submit
  BY <1>2, <1>3, <1>4, <1>5, DaemonCalls DEF TradingNext
<1>7. deal.ticker \in Tickers
  BY <1>6 DEF Submit, Equipped, Ready
<1>8. PICK q \in Nat \ {0} : Post("buy", deal.ticker, q)
  BY <1>6, BoundsAssumption DEF Submit, Sizes
<1>9. order'[Latest + 1].ticker = deal.ticker /\ Latest' = Latest + 1
  BY <1>7, <1>8, PostOrder
<1> QED
  BY <1>6, <1>9 DEF Adds

\* at the moment an entry goes out, the book it was admitted on still stands
LEMMA EntryGrounded ==
  ASSUME TradingInv, CacheProven, TradingNext, NEW t \in Tickers, Adds(t)
  PROVE  /\ held[t] = 0 \/ t \in blind
         /\ Cardinality(Open(held) \ blind) < EffectiveCap(t)
<1>1. at = "submit" /\ t = deal.ticker
  BY OnlySubmitAdds DEF TradingInv, Submit
<1>2. Idle /\ cache[t] = 0 /\ Size(cache) < EffectiveCap(t)
  BY <1>1 DEF TradingInv, Equipped, Ready
<1>3. \A u \in Tickers \ blind : cache[u] = held[u]
  BY <1>2 DEF CacheProven, Settling, Idle
<1>4. Cardinality(Open(held) \ blind) <= Size(cache)
  <2>1. Open(held) \ blind \subseteq Open(cache)
    BY <1>3 DEF Open
  <2>2. IsFiniteSet(Open(cache))
    BY OpenTyped, TradingAssumption, FS_Subset
  <2> QED
    BY <2>1, <2>2, FS_Subset DEF Size
<1>5. Cardinality(Open(held) \ blind) \in Nat
  <2>1. Open(held) \ blind \subseteq Tickers
    BY OpenTyped
  <2> QED
    BY <2>1, TradingAssumption, FS_Subset, FS_CardinalityType
<1> QED
  BY <1>2, <1>3, <1>4, <1>5, SizeTyped, CapsOrdered

LEMMA TradingCache == TradingSpec => []CacheProven
<1>1. TradingInit => CacheProven
  BY InitCache DEF TradingInit
<1>2. TradingInv /\ CacheProven /\ [TradingNext]_tradingVars => CacheProven'
  <2>1. ASSUME CacheProven, UNCHANGED brokerVars PROVE CacheProven'
    BY <2>1 DEF brokerVars, exchange, book, CacheProven, Settling, Accounted, session
  <2> QED
    BY <2>1, StepIsClient, StepCache DEF TradingInv, tradingVars
<1> QED
  BY <1>1, <1>2, TradingInvariant, PTL DEF TradingSpec

(* "Hard duplicate guard: no same-contract double-down" (runner.py:1692):  *)
(* with any caps, an entry adds to no position the process can know of.    *)
THEOREM NoDoubleDown == TradingSpec => NeverDoublesDown
<1>1. TradingInv /\ CacheProven /\ [TradingNext]_tradingVars =>
        [\A t \in Tickers : Adds(t) => held[t] = 0 \/ t \in blind]_tradingVars
  BY EntryGrounded
<1> QED
  BY <1>1, TradingInvariant, TradingCache, PTL DEF TradingSpec, NeverDoublesDown

(* With any caps and any number of tickers, an entry is sent only when the *)
(* positions the process can know of leave room for it: the admitted book  *)
(* is the book of the second refresh, and it stands until the POST.        *)
THEOREM EntriesFit == TradingSpec => EntriesHaveRoom
<1>1. TradingInv /\ CacheProven /\ [TradingNext]_tradingVars =>
        [\A t \in Tickers : Adds(t) =>
           Cardinality(Open(held) \ blind) < EffectiveCap(t)]_tradingVars
  BY EntryGrounded
<1> QED
  BY <1>1, TradingInvariant, TradingCache, PTL DEF TradingSpec, EntriesHaveRoom

-----------------------------------------------------------------------------
(* Rows close on flat positions.                                           *)

\* the sale in hand is the latest order, and a fill it returned left behind
\* what the book now has of the ticker
Selling == {"exiting", "selling", "selling_last"}
SaleTold ==
  at \in Selling =>
    /\ Latest \in Posted /\ ~sweep.running
    /\ order[Latest].ticker = deal.ticker /\ order[Latest].kind = "sell"
    /\ call.place # "idle" => call.order = Latest
    /\ call.place = "idle" /\ result.filled > 0 =>
         result.status = "executed" /\ cache[deal.ticker] = result.left

LEMMA SaleIsSent ==
  ASSUME TradingInv, NEW t \in Tickers, NEW q \in Nat \ {0}, Post("sell", t, q),
         deal'.ticker = t
  PROVE  SaleTold'
<1>1. BrokerTypeOK
  BY DEF TradingInv
<1>2. /\ Latest' = Latest + 1
      /\ order'[Latest + 1].ticker = t /\ order'[Latest + 1].kind = "sell"
      /\ order' \in Seq(Requests) /\ Latest \in Nat
  BY <1>1, PostOrder, PostTyped DEF BrokerTypeOK, ExchangeOK
<1>3. /\ sweep' = NoSweep
      /\ \/ call'.place # "idle" /\ call'.order = Latest + 1
         \/ call'.place = "idle" /\ result'.filled = 0
  BY <1>1 DEF Post, PostExecutes, PostRests, PostFails, Send, AtPlace, Return, NoCall,
     Result
<1> QED
  BY <1>2, <1>3 DEF SaleTold, NoSweep

LEMMA SaleIsAnswered ==
  ASSUME TradingInv, SaleTold, Session, UNCHANGED <<at, deal>>
  PROVE  SaleTold'
<1> SUFFICES ASSUME at \in Selling PROVE SaleTold'
  BY DEF SaleTold
<1>1. /\ BrokerTypeOK /\ Latest \in Posted /\ ~sweep.running
      /\ order[Latest].ticker = deal.ticker /\ order[Latest].kind = "sell"
      /\ call.place # "idle" => call.order = Latest
  BY DEF SaleTold, TradingInv
<1>2. CASE Hydrate
  <2>1. /\ order' = order /\ sweep' = sweep /\ call'.place = "idle"
        /\ result'.filled > 0 =>
             result'.status = "executed" /\ cache'[deal.ticker] = result'.left
    <3>1. PICK fill : ApplyFill(Latest, fill)
      BY <1>1, <1>2 DEF Hydrate
    <3>2. deal.ticker \in Tickers /\ cache \in [Tickers -> Nat]
      BY <1>1, OrderTyped DEF BrokerTypeOK, BookOK
    <3> QED
      BY <1>1, <1>2, <3>1, <3>2 DEF ApplyFill, Return, Result, NoCall, Hydrate, exchange
  <2> QED
    BY <1>1, <2>1 DEF SaleTold
<1>3. CASE Cancel \/ Confirm
  <2>1. Onward /\ Latest' = Latest
    <3>1. CASE Cancel
      BY <1>1, <3>1, CancelEffect DEF Cancel, Onward
    <3>2. CASE Confirm
      BY <3>2 DEF Confirm, exchange, Onward
    <3> QED
      BY <1>3, <3>1, <3>2
  <2>2. /\ ~sweep'.running
        /\ \/ call'.place = "idle" /\ result'.filled = 0
           \/ call'.place # "idle" /\ call'.order = Latest
    BY <1>1, <1>3 DEF Cancel, Confirm, Confirmed, Return, Result, NoCall, AtPlace
  <2> QED
    BY <1>1, <2>1, <2>2 DEF SaleTold, Onward
<1>4. ~EndSweep /\ \A o \in Posted : ~NextOrphan(o)
  BY <1>1 DEF EndSweep, NextOrphan
<1> QED
  BY <1>2, <1>3, <1>4 DEF Session

\* the daemon comes to have a sale in hand by sending one
LEMMA OnlySalesSell ==
  ASSUME TradingInv, Daemon \/ Crash, at' \in Selling
  PROVE  \E t \in Tickers, q \in Nat \ {0} : Post("sell", t, q) /\ deal'.ticker = t
<1>1. \A t \in Tickers : cache[t] \in Nat
  BY DEF TradingInv, BrokerTypeOK, BookOK
<1>2. \/ MonitorFallback \/ \E t \in Tickers : ExitPosition(t) \/ MonitorExit(t)
  BY DEF Selling, Daemon, Crash, Go, With, Admitted, NextCandidate,
     StartSweep, EndStartSweep, StartReconciliation, StartStrategy, SkipStrategy,
     ExitDone, EndExits, Swap, SwapNotFilled, SwapUnread, SwapDone, DropPlan,
     RefreshSubmissionRiskState, Submit, EntryDone, EndLoop, Monitor,
     MonitorExitDone, EndCycle, HoldPosition, VetoCandidate, AdmitCandidate,
     LeavePosition
<1>3. CASE MonitorFallback
  <2>1. deal.ticker \in Tickers /\ deal.qty \in Nat \ {0}
    BY <1>3 DEF MonitorFallback, TradingInv, Equipped, LocalOK, Ready
  <2>2. Post("sell", deal.ticker, deal.qty) /\ deal' = deal
    BY <1>3 DEF MonitorFallback, With, Go, Selling
  <2> QED
    BY <2>1, <2>2
<1>4. ASSUME NEW t \in Tickers, ExitPosition(t)
      PROVE  \E q \in Nat \ {0} : Post("sell", t, q) /\ deal'.ticker = t
  BY <1>1, <1>4 DEF ExitPosition, With, Deal
<1>5. ASSUME NEW t \in Tickers, MonitorExit(t)
      PROVE  \E q \in Nat \ {0} : Post("sell", t, q) /\ deal'.ticker = t
  BY <1>1, <1>5 DEF MonitorExit, With, Deal
<1> QED
  BY <1>2, <1>3, <1>4, <1>5

LEMMA StepSale == TradingInv /\ SaleTold /\ TradingNext => SaleTold'
<1> SUFFICES ASSUME TradingInv, SaleTold, TradingNext PROVE SaleTold'
  OBVIOUS
<1>1. CASE World /\ UNCHANGED <<at, deal>>
  <2>1. BrokerTypeOK
    BY DEF TradingInv
  <2>2. Onward /\ Latest' = Latest /\ cache' = cache /\ call' = call /\ sweep' = sweep
        /\ result' = result
    BY <1>1, <2>1, WorldEffect DEF session
  <2> QED
    BY <1>1, <2>2 DEF SaleTold, Onward
<1>2. CASE Daemon \/ Crash
  <2>1. ASSUME at' \notin Selling PROVE SaleTold'
    BY <2>1 DEF SaleTold
  <2> QED
    BY <1>2, <2>1, OnlySalesSell, SaleIsSent
<1> QED
  BY <1>1, <1>2, SaleIsAnswered DEF TradingNext

LEMMA TradingSale == TradingSpec => []SaleTold
<1>1. TradingInit => SaleTold
  BY DEF TradingInit, SaleTold, Selling
<1>2. TradingInv /\ SaleTold /\ [TradingNext]_tradingVars => SaleTold'
  BY StepSale DEF tradingVars, brokerVars, exchange, book, session, SaleTold
<1> QED
  BY <1>1, <1>2, TradingInvariant, PTL DEF TradingSpec

LEMMA RowCloses ==
  ASSUME TradingInv, CacheProven, SaleTold, Daemon, NEW t \in Tickers,
         db[t] > 0, db'[t] = 0, t \notin blind
  PROVE  held[t] = 0
<1>1. BrokerTypeOK /\ Equipped
  BY DEF TradingInv
<1>2. db \in [Tickers -> Nat] /\ (at \in InHand => deal.ticker \in Tickers)
  BY <1>1 DEF Equipped, LocalOK, Ready
<1>3. call.place = "idle" => cache[t] = held[t]
  BY DEF CacheProven, Settling
<1>4. db'[t] # db[t]
  BY <1>2
<1>5. CASE StartReconciliation
  BY <1>4, <1>5 DEF StartReconciliation, SyncOk, Mirror
<1>6. CASE Monitor
  BY <1>3, <1>6 DEF Monitor, SyncOk, SyncFails, Mirror, Idle
<1>7. CASE ExitDone
  <2>1. Idle /\ at = "exiting" /\ t = deal.ticker /\ Filled /\ result.left = 0
    BY <1>2, <1>4, <1>7 DEF ExitDone
  <2> QED
    BY <1>3, <2>1 DEF SaleTold, Selling, Idle, Filled
<1>8. CASE SwapDone
  <2>1. t = deal.worst /\ cache'[t] = 0 /\ cache' = held
    BY <1>2, <1>4, <1>8 DEF SwapDone, SyncOk
  <2> QED
    BY <2>1
<1>9. CASE EntryDone
  <2>1. Idle /\ t = deal.ticker /\ cache[t] = 0
    BY <1>2, <1>4, <1>9 DEF EntryDone
  <2> QED
    BY <1>3, <2>1 DEF Idle
<1>10. CASE MonitorExitDone
  <2>1. t = deal.ticker /\ Remaining = 0
    BY <1>2, <1>4, <1>10 DEF MonitorExitDone
  <2>2. deal.qty # 0 /\ result.left \in Nat
    BY <1>1, <1>10 DEF MonitorExitDone, Equipped, Ready, BrokerTypeOK, SessionOK
  <2> QED
    BY <2>1, <2>2 DEF Remaining
<1>11. UNCHANGED db \/ StartReconciliation \/ Monitor \/ ExitDone \/ SwapDone
       \/ EntryDone \/ MonitorExitDone
  BY DEF Daemon, NoWrites, StartSweep, EndStartSweep, StartStrategy, SkipStrategy,
     EndExits, Swap, SwapNotFilled, SwapUnread, DropPlan, RefreshSubmissionRiskState,
     Submit, EndLoop, MonitorFallback, EndCycle, HoldPosition, ExitPosition,
     VetoCandidate, AdmitCandidate, LeavePosition, MonitorExit
<1> QED
  BY <1>4, <1>5, <1>6, <1>7, <1>8, <1>9, <1>10, <1>11

(* A row of forecast_positions is closed only when the position is gone,   *)
(* whatever was partly filled, clamped, left unread or never answered.     *)
THEOREM RowsStayOpen == TradingSpec => RowsCloseOnFlat
<1>1. TradingInv /\ CacheProven /\ SaleTold /\ [TradingNext]_tradingVars =>
        [\A t \in Tickers : db[t] > 0 /\ db'[t] = 0 => held[t] = 0 \/ t \in blind]_tradingVars
  <2>1. ASSUME UNCHANGED db, NEW t \in Tickers PROVE ~(db[t] > 0 /\ db'[t] = 0)
    BY <2>1
  <2>2. TradingNext => Daemon \/ UNCHANGED db
    BY DEF TradingNext, Crash
  <2> QED
    BY <2>1, <2>2, RowCloses
<1> QED
  BY <1>1, TradingInvariant, TradingCache, TradingSale, PTL
  DEF TradingSpec, RowsCloseOnFlat

-----------------------------------------------------------------------------
(* Rows mirror the book.                                                   *)

\* a row says what the cached book says, or is the one the monitor left open
Agrees(t) == db[t] = cache[t] \/ (cache[t] = 0 /\ t \in unrecorded)

\* from the monitor's mirror to the next cycle every row agrees, but for the
\* one of a sale that has filled and is not written yet
RowsFollow ==
  /\ at \in {"watch", "top"} => Idle /\ \A t \in Tickers : Agrees(t)
  /\ at \in {"selling", "selling_last"} =>
       /\ \A t \in Tickers : t # deal.ticker => Agrees(t)
       /\ call.place # "idle" \/ result.filled = 0 => Agrees(deal.ticker)

LEMMA PostKeepsBook ==
  ASSUME NEW kind, NEW t, NEW q, Post(kind, t, q)
  PROVE  cache' = cache
BY DEF Post, PostExecutes, PostRests, PostFails, book

LEMMA RowsWatched ==
  ASSUME TradingInv, SaleTold, RowsFollow, Daemon \/ Crash
  PROVE  RowsFollow'
<1> USE DEF Go, With, NoWrites
<1>1. /\ db \in [Tickers -> Nat] /\ (at \in InHand => deal.ticker \in Tickers)
      /\ cache \in [Tickers -> Nat] /\ result.filled \in Nat /\ result.left \in Nat
  BY DEF TradingInv, Equipped, LocalOK, Ready, BrokerTypeOK, BookOK, SessionOK
<1>2. CASE StartReconciliation \/ Monitor
  BY <1>2 DEF StartReconciliation, Monitor, Mirror, SyncOk, SyncFails, Anew, NoSweep,
     Idle, RowsFollow, Agrees
<1>3. CASE EndCycle \/ \E t \in Tickers : LeavePosition(t)
  BY <1>3 DEF EndCycle, LeavePosition, RowsFollow, Agrees, brokerVars, book, session, Idle
<1>4. ASSUME NEW t \in Tickers, MonitorExit(t) PROVE RowsFollow'
  <2>1. cache' = cache
    BY <1>4, PostKeepsBook DEF MonitorExit
  <2> QED
    BY <1>4, <2>1 DEF MonitorExit, RowsFollow, Agrees, Deal
<1>5. CASE MonitorFallback
  <2>1. at = "selling" /\ Idle /\ result.filled = 0 /\ deal.ticker \in Tickers
    BY <1>1, <1>5 DEF MonitorFallback, SaleTold, Selling, Idle
  <2>2. cache' = cache /\ (at' = "watch" => Idle')
    BY <1>5, PostKeepsBook DEF MonitorFallback, Forget, Anew, NoSweep, Idle, book
  <2> QED
    BY <1>5, <2>1, <2>2 DEF MonitorFallback, RowsFollow, Agrees, Idle
<1>6. CASE MonitorExitDone
  <2>1. /\ at \in {"selling", "selling_last"} /\ Idle /\ at' = "watch" /\ Idle'
        /\ cache' = cache /\ deal.ticker \in Tickers
    BY <1>1, <1>6 DEF MonitorExitDone, Forget, Anew, NoSweep, Idle, book
  <2>2. CASE result.filled > 0
    <3>1. cache[deal.ticker] = result.left
      BY <2>1, <2>2 DEF SaleTold, Selling, Idle
    <3>2. \A t \in Tickers : t = deal.ticker => Agrees(t)'
      BY <1>1, <1>6, <2>1, <2>2, <3>1 DEF MonitorExitDone, Remaining, Agrees
    <3>3. \A t \in Tickers : t # deal.ticker => Agrees(t)'
      BY <1>1, <1>6, <2>1, <2>2 DEF MonitorExitDone, RowsFollow, Agrees
    <3> QED
      BY <2>1, <3>2, <3>3 DEF RowsFollow
  <2>3. CASE result.filled = 0
    BY <1>6, <2>1, <2>3 DEF MonitorExitDone, RowsFollow, Agrees
  <2> QED
    BY <1>1, <2>2, <2>3
<1>7. CASE ~(StartReconciliation \/ Monitor \/ EndCycle \/ MonitorFallback
              \/ MonitorExitDone \/ \E t \in Tickers : LeavePosition(t) \/ MonitorExit(t))
  <2>1. at' \notin {"watch", "top", "selling", "selling_last"}
    BY <1>7 DEF Daemon, Crash, Admitted, NextCandidate,
       StartSweep, EndStartSweep, StartStrategy, SkipStrategy,
       ExitDone, EndExits, Swap, SwapNotFilled, SwapUnread, SwapDone, DropPlan,
       RefreshSubmissionRiskState, Submit, EntryDone, EndLoop, HoldPosition,
       ExitPosition, VetoCandidate, AdmitCandidate
  <2> QED
    BY <2>1 DEF RowsFollow
<1> QED
  BY <1>2, <1>3, <1>4, <1>5, <1>6, <1>7

LEMMA RowsAnswered ==
  ASSUME TradingInv, SaleTold, RowsFollow, Session,
         UNCHANGED <<at, deal, db, unrecorded>>
  PROVE  RowsFollow'
<1>1. at \notin {"watch", "top"}
  BY DEF Session, Hydrate, Cancel, Confirm, EndSweep, NextOrphan, RowsFollow, Idle
<1>2. SUFFICES ASSUME at \in {"selling", "selling_last"} PROVE RowsFollow'
  BY <1>1 DEF RowsFollow
<1>3. /\ BrokerTypeOK /\ Latest \in Posted /\ ~sweep.running /\ deal.ticker \in Tickers
      /\ order[Latest].ticker = deal.ticker /\ order[Latest].kind = "sell"
      /\ call.place # "idle" => call.order = Latest
  BY <1>2 DEF SaleTold, Selling, TradingInv, Equipped, Ready
<1>4. CASE Hydrate
  <2>1. PICK fill \in Nat : ApplyFill(Latest, fill)
    BY <1>3, <1>4, OrderTyped DEF Hydrate, BrokerTypeOK, SessionOK
  <2>2. /\ cache \in [Tickers -> Nat] /\ order[Latest].size \in Nat \ {0}
    BY <1>3, OrderTyped DEF BrokerTypeOK, BookOK
  <2>3. /\ \A t \in Tickers : t # deal.ticker => cache'[t] = cache[t]
        /\ call'.place = "idle"
        /\ result'.filled = 0 => cache'[deal.ticker] = cache[deal.ticker]
    BY <1>3, <2>1, <2>2 DEF ApplyFill, Return, Result, NoCall, Lesser
  <2>4. Agrees(deal.ticker)
    BY <1>2, <1>4 DEF RowsFollow, Hydrate
  <2> QED
    BY <1>2, <1>3, <2>3, <2>4 DEF RowsFollow, Agrees
<1>5. CASE Cancel \/ Confirm
  <2>1. cache' = cache /\ call.place # "idle"
    BY <1>5 DEF Cancel, Confirm, book
  <2> QED
    BY <1>2, <2>1 DEF RowsFollow, Agrees
<1>6. ~EndSweep /\ \A o \in Posted : ~NextOrphan(o)
  BY <1>3 DEF EndSweep, NextOrphan
<1> QED
  BY <1>4, <1>5, <1>6 DEF Session

LEMMA StepRows == TradingInv /\ SaleTold /\ RowsFollow /\ TradingNext => RowsFollow'
<1> SUFFICES ASSUME TradingInv, SaleTold, RowsFollow, TradingNext PROVE RowsFollow'
  OBVIOUS
<1>1. CASE World /\ UNCHANGED <<at, deal, db, unrecorded>>
  <2>1. cache' = cache /\ call' = call /\ sweep' = sweep /\ result' = result
    BY <1>1, WorldEffect DEF session, TradingInv
  <2> QED
    BY <1>1, <2>1 DEF RowsFollow, Agrees, Idle
<1> QED
  BY <1>1, RowsWatched, RowsAnswered DEF TradingNext

(* With any tickers, quantities, failures and partial sales: after a whole *)
(* cycle every row agrees with what the exchange holds, except where       *)
(* something went unreported, or the monitor sold a position to nothing    *)
(* and left its row open.                                                  *)
THEOREM RowsAgree == TradingSpec => []RowsMirrorBook
<1>1. TradingInit => RowsFollow
  BY DEF TradingInit, RowsFollow
<1>2. TradingInv /\ SaleTold /\ RowsFollow /\ [TradingNext]_tradingVars => RowsFollow'
  BY StepRows DEF tradingVars, brokerVars, exchange, book, session, RowsFollow, Agrees,
     Idle
<1>3. RowsFollow /\ CacheProven => RowsMirrorBook
  BY DEF RowsFollow, CacheProven, Settling, Agrees, Idle, RowsMirrorBook
<1> QED
  BY <1>1, <1>2, <1>3, TradingInvariant, TradingCache, TradingSale, PTL DEF TradingSpec

-----------------------------------------------------------------------------
(* The concurrency cap.                                                    *)

\* positions that entries opened
Own == Open(held) \ strays

\* an entry about to be sent knows of all of them
OwnSeen == at = "submit" => Own \subseteq Open(cache)

LEMMA OwnTyped == Own \subseteq Tickers /\ IsFiniteSet(Own) /\ Cardinality(Own) \in Nat
<1>1. Own \subseteq Tickers
  BY OpenTyped DEF Own
<1> QED
  BY <1>1, TradingAssumption, FS_Subset, FS_CardinalityType

\* what an order trades in the end, or the world does, is none of them
LEMMA OwnShrinks ==
  ASSUME TradingInv, TradingNext, ~Submit
  PROVE  Own' \subseteq Own
<1>1. BrokerTypeOK /\ held \in [Tickers -> Nat]
  BY DEF TradingInv, BrokerTypeOK, ExchangeOK
<1>2. CASE World /\ strays' = (strays \cap Open(held')) \cup Opened
  BY <1>1, <1>2 DEF Own, Opened, Open
<1>3. ASSUME \A t \in Tickers : held'[t] > 0 => held[t] > 0, strays' = strays \cap Open(held')
      PROVE  Own' \subseteq Own
  BY <1>3 DEF Own, Open
<1>5. Quiet => held' = held
  BY DEF Quiet, SyncOk, SyncFails, ListResting, Forget, Dies, exchange, brokerVars
<1>6. ASSUME NEW u \in Tickers, NEW q \in Nat \ {0}, Post("sell", u, q), NEW t \in Tickers
      PROVE  held'[t] <= held[t]
  BY <1>1, <1>6 DEF Post, PostExecutes, PostRests, PostFails
<1>7. CASE (Daemon \/ Crash) /\ strays' = strays \cap Open(held')
  <2>1. CASE Quiet
    BY <1>3, <1>5, <1>7, <2>1
  <2>2. CASE Sells
    <3>1. \A t \in Tickers : held'[t] <= held[t]
      BY <1>6, <2>2 DEF Sells
    <3>2. held' \in [Tickers -> Nat]
      BY StepInv DEF TradingInv, BrokerTypeOK, ExchangeOK
    <3>3. \A t \in Tickers : held'[t] > 0 => held[t] > 0
      BY <1>1, <3>1, <3>2
    <3> QED
      BY <1>3, <1>7, <3>3
  <2> QED
    BY <1>1, <1>7, <2>1, <2>2, DaemonCalls DEF TradingInv
<1>8. CASE Session /\ strays' = strays \cap Open(held')
  <2>1. held' = held
    BY <1>8 DEF Session, Hydrate, Cancel, Confirm, EndSweep, NextOrphan, exchange
  <2> QED
    BY <1>3, <1>8, <2>1
<1> QED
  BY <1>2, <1>7, <1>8 DEF TradingNext

\* an entry adds the ticker it is for, and no other
LEMMA SubmitOwns ==
  ASSUME TradingInv, TradingNext, Submit
  PROVE  Own' \subseteq Own \cup {deal.ticker}
<1>1. deal.ticker \in Tickers /\ held \in [Tickers -> Nat]
  BY DEF Submit, TradingInv, Equipped, Ready, BrokerTypeOK, ExchangeOK
<1>2. \A t \in Tickers : t # deal.ticker => held'[t] = held[t]
  BY <1>1 DEF Submit, Post, PostExecutes, PostRests, PostFails
<1>3. strays \cap Open(held') \subseteq strays'
  BY DEF TradingNext
<1> QED
  BY <1>2, <1>3 DEF Own, Open

LEMMA StepSeen == TradingInv /\ OwnSeen /\ TradingNext => OwnSeen'
<1> SUFFICES ASSUME TradingInv, OwnSeen, TradingNext, at' = "submit" PROVE OwnSeen'
  BY DEF OwnSeen
<1>1. CASE RefreshSubmissionRiskState
  <2>1. cache' = held'
    BY <1>1 DEF RefreshSubmissionRiskState, SyncOk, Go, exchange
  <2> QED
    BY <2>1 DEF OwnSeen, Own
<1>2. CASE (World \/ Session) /\ at' = at
  <2>1. Idle
    BY <1>2 DEF TradingInv, Equipped, Ready
  <2>2. ~Session
    BY <2>1 DEF Session, Hydrate, Cancel, Confirm, EndSweep, NextOrphan, Idle
  <2>3. cache' = cache
    BY <1>2, <2>2, WorldEffect DEF TradingInv
  <2>4. Own' \subseteq Own
    <3>1. ~Submit
      BY <1>2 DEF Submit, With
    <3> QED
      BY <3>1, OwnShrinks
  <2> QED
    BY <1>2, <2>3, <2>4 DEF OwnSeen
<1>3. CASE (Daemon \/ Crash) /\ ~RefreshSubmissionRiskState
  BY <1>3 DEF Daemon, Crash, Go, With, Admitted, NextCandidate,
     StartSweep, EndStartSweep, StartReconciliation, StartStrategy, SkipStrategy,
     ExitDone, EndExits, Swap, SwapNotFilled, SwapUnread, SwapDone, DropPlan,
     Submit, EntryDone, EndLoop, Monitor, MonitorFallback,
     MonitorExitDone, EndCycle, HoldPosition, VetoCandidate, AdmitCandidate,
     LeavePosition, MonitorExit, ExitPosition
<1> QED
  BY <1>1, <1>2, <1>3 DEF TradingNext

LEMMA StepCap ==
  ASSUME TradingInv, OwnSeen, CapOverrunOnlyByStrays, TradingNext
  PROVE  CapOverrunOnlyByStrays'
<1> USE DEF CapOverrunOnlyByStrays
<1>1. /\ IsFiniteSet(Own) /\ IsFiniteSet(Own \ Ultra)
      /\ Cardinality(Own \ Ultra) \in Nat /\ Cardinality(Own) \in Nat
  BY OwnTyped, FS_Subset, FS_CardinalityType
<1>2. ASSUME Own' \subseteq Own PROVE CapOverrunOnlyByStrays'
  <2>1. Own' \ Ultra \subseteq Own \ Ultra
    BY <1>2
  <2>2. /\ Cardinality(Own') <= Cardinality(Own)
        /\ Cardinality(Own' \ Ultra) <= Cardinality(Own \ Ultra)
    BY <1>1, <1>2, <2>1, FS_Subset
  <2>3. Cardinality(Own') \in Nat /\ Cardinality(Own' \ Ultra) \in Nat
    BY <1>1, <1>2, <2>1, FS_Subset, FS_CardinalityType
  <2> QED
    BY <1>1, <2>2, <2>3, TradingAssumption DEF Own
<1>3. CASE Submit
  <2> DEFINE t == deal.ticker
  <2>1. at = "submit" /\ t \in Tickers /\ Size(cache) < EffectiveCap(t)
    BY <1>3 DEF Submit, TradingInv, Equipped, Ready
  <2>2. Cardinality(Own) <= Size(cache)
    <3>1. IsFiniteSet(Open(cache)) /\ Own \subseteq Open(cache)
      BY <2>1, OpenTyped, TradingAssumption, FS_Subset DEF OwnSeen
    <3> QED
      BY <3>1, FS_Subset DEF Size
  <2>3. Cardinality(Own) + 1 <= EffectiveCap(t)
    BY <1>1, <2>1, <2>2, SizeTyped, CapsOrdered
  <2>4. Own' \subseteq Own \cup {t} /\ IsFiniteSet(Own \cup {t})
        /\ Cardinality(Own \cup {t}) <= Cardinality(Own) + 1
        /\ Cardinality(Own \cup {t}) \in Nat
    <3>1. Own' \subseteq Own \cup {t}
      BY <1>3, SubmitOwns
    <3> HIDE DEF t
    <3>2. IsFiniteSet(Own \cup {t})
          /\ Cardinality(Own \cup {t}) =
                IF t \in Own THEN Cardinality(Own) ELSE Cardinality(Own) + 1
      BY <1>1, FS_AddElement
    <3> QED
      BY <1>1, <3>1, <3>2
  <2>5. Cardinality(Own') <= EffectiveCap(t) /\ Cardinality(Own') \in Nat
    <3>1. Cardinality(Own') <= Cardinality(Own \cup {t}) /\ Cardinality(Own') \in Nat
      BY <2>4, FS_Subset, FS_CardinalityType
    <3> QED
      BY <1>1, <2>3, <2>4, <3>1, CapsOrdered
  <2>6. Cardinality(Own') <= Cap + Bonus
    BY <2>5, TradingAssumption DEF EffectiveCap
  <2>7. Cardinality(Own' \ Ultra) <= Cap
    <3>1. CASE t \in Ultra
      <4>1. Own' \ Ultra \subseteq Own \ Ultra
        BY <2>4, <3>1
      <4>2. /\ Cardinality(Own' \ Ultra) <= Cardinality(Own \ Ultra)
            /\ Cardinality(Own' \ Ultra) \in Nat
        BY <1>1, <4>1, FS_Subset, FS_CardinalityType
      <4> QED
        BY <1>1, <4>2, TradingAssumption DEF Own
    <3>2. CASE t \notin Ultra
      <4>1. IsFiniteSet(Own') /\ Own' \ Ultra \subseteq Own'
        BY <2>4, FS_Subset
      <4>2. /\ Cardinality(Own' \ Ultra) <= Cardinality(Own')
            /\ Cardinality(Own' \ Ultra) \in Nat
        BY <4>1, FS_Subset, FS_CardinalityType
      <4> QED
        BY <2>5, <3>2, <4>2, TradingAssumption DEF EffectiveCap
    <3> QED
      BY <3>1, <3>2
  <2> QED
    BY <2>6, <2>7 DEF Own
<1> QED
  BY <1>2, <1>3, OwnShrinks

(* With any caps, bonus, set of ultra-conviction tickers and number of     *)
(* crashes, the positions that reported entries opened stay within the     *)
(* caps: whatever resting, late or foreign trades do, only they overrun.   *)
THEOREM CapHolds == TradingSpec => []CapOverrunOnlyByStrays
<1>1. TradingInit => OwnSeen /\ CapOverrunOnlyByStrays
  <2> SUFFICES ASSUME TradingInit PROVE OwnSeen /\ CapOverrunOnlyByStrays
    OBVIOUS
  <2>1. Open(held) = {}
    BY DEF TradingInit, BrokerInit, Open
  <2>2. Open(held) \ strays = {} /\ (Open(held) \ strays) \ Ultra = {}
    BY <2>1
  <2> QED
    BY <2>2, FS_EmptySet, TradingAssumption DEF CapOverrunOnlyByStrays, OwnSeen, TradingInit
<1>2. TradingInv /\ OwnSeen /\ [TradingNext]_tradingVars => OwnSeen'
  BY StepSeen DEF tradingVars, brokerVars, exchange, book, OwnSeen, Own
<1>3. /\ TradingInv /\ OwnSeen /\ CapOverrunOnlyByStrays
      /\ [TradingNext]_tradingVars
      => CapOverrunOnlyByStrays'
  BY StepCap DEF tradingVars, brokerVars, exchange, CapOverrunOnlyByStrays
<1> QED
  BY <1>1, <1>2, <1>3, TradingInvariant, PTL DEF TradingSpec
=============================================================================
