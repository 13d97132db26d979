----------------------------- MODULE Desk_proofs -----------------------------
(***************************************************************************)
(* Theorems of what decides whether a desk trades and how much, for any    *)
(* traders, days, limits, optimizers and markets.  Firewall: types; halts  *)
(* stay; the verdict of a check respects every bar that stood throughout   *)
(* it; a day's P&L is the sum of the day's realized events.                *)
(* Readiness: types; refusals have their cause and a promoted build has    *)
(* passed where it runs.  Tuning: types; the log tells the value in force. *)
(* Admission: types; what is bought clears its hurdle.  Last, that the     *)
(* four together are a behaviour of each.                                  *)
(***************************************************************************)
EXTENDS MC_Desk, Sums_proofs

USE DEF Procs, Times, Orders, Places, CheckPlaces

LEMMA CountUp ==
  ASSUME NEW S, NEW f \in [S -> Nat], NEW x \in S
  PROVE  [f EXCEPT ![x] = @ + 1] \in [S -> Nat]
<1>1. f[x] \in Nat /\ f[x] + 1 \in Nat
  OBVIOUS
<1> QED
  BY <1>1

LEMMA DayType == \A t \in Times : Day(t) \in Days
  BY DEF Days

-----------------------------------------------------------------------------
(* Type correctness.                                                       *)

THEOREM InitTyped == Init => TypeOK
<1> SUFFICES ASSUME Init PROVE TypeOK
  OBVIOUS
<1>1. 0 \in Times /\ 0 \in 0..MaxOrders /\ Day(0) = 0
  BY TimeAssumption DEF Day
<1>2. 0 \in Days
  BY <1>1, DayType
<1> QED
  BY <1>1, <1>2, TimeAssumption, ProcsAssumption
  DEF Init, TypeOK, TablesOK, WorldOK, ControlOK, HistoryOK, Fills, Writes

\* the part of TypeOK that a step of one process or of the world must keep
StepTyped == TablesOK /\ WorldOK /\ ControlOK /\ lossExited \subseteq Tickers

\* a verdict keeps the type of the control state it writes
LEMMA DecideTyped ==
  ASSUME TypeOK, NEW p \in Procs, NEW answer, Decide(p, answer)
  PROVE  /\ pc' \in [Procs -> Places]
         /\ \A q \in Watchers : pc'[q] \in {"idle", "flag", "heal"}
         /\ \A q \in Traders : pc'[q] = "record" => pc[q] = "record"
         /\ allowed' \in [Traders -> BOOLEAN]
<1>1. /\ pc' \in [Procs -> Places]
      /\ \A q \in Watchers : pc'[q] \in {"idle", "flag", "heal"}
      /\ \A q \in Traders : pc'[q] = "record" => pc[q] = "record"
  BY DEF TypeOK, ControlOK, Decide, Goto
<1>2. allowed' \in [Traders -> BOOLEAN]
  <2> DEFINE verdict == answer = "allow"
  <2>1. verdict \in BOOLEAN
    OBVIOUS
  <2>2. allowed' = IF p \in Traders THEN [allowed EXCEPT ![p] = verdict] ELSE allowed
    BY DEF Decide
  <2> HIDE DEF verdict
  <2> QED
    BY <2>1, <2>2 DEF TypeOK, ControlOK
<1> QED
  BY <1>1, <1>2

LEMMA AfterFlagTyped ==
  ASSUME TypeOK, NEW p \in Procs, AfterFlag(p)
  PROVE  /\ pc' \in [Procs -> Places]
         /\ \A q \in Watchers : pc'[q] \in {"idle", "flag", "heal"}
         /\ \A q \in Traders : pc'[q] = "record" => pc[q] = "record"
         /\ allowed' \in [Traders -> BOOLEAN]
<1>1. CASE p \in Watchers
  BY <1>1, DecideTyped DEF AfterFlag
<1>2. CASE p \notin Watchers
  BY <1>2 DEF AfterFlag, Goto, TypeOK, ControlOK
<1> QED
  BY <1>1, <1>2

\* every step of an entry check
LEMMA CheckTyped ==
  ASSUME TypeOK, NEW p \in Procs, Check(p)
  PROVE  StepTyped'
<1> USE DEF StepTyped, TypeOK, HistoryOK, TablesOK, WorldOK, ControlOK,
            InCheck, tables, world
<1>1. CASE ReadFlag(p)
  <2>1. /\ pc' \in [Procs -> Places]
        /\ \A q \in Watchers : pc'[q] \in {"idle", "flag", "heal"}
        /\ \A q \in Traders : pc'[q] = "record" => pc[q] = "record"
        /\ allowed' \in [Traders -> BOOLEAN]
    <3>1. CASE AfterFlag(p)
      BY <3>1, AfterFlagTyped
    <3>2. CASE Decide(p, "veto")
      BY <3>2, DecideTyped
    <3>3. CASE Goto(p, "heal") /\ UNCHANGED allowed
      BY <3>3 DEF Goto
    <3> QED
      BY <1>1, <3>1, <3>2, <3>3 DEF ReadFlag
  <2> QED
    BY <1>1, <2>1 DEF ReadFlag
<1>2. CASE HealFlag(p)
  BY <1>2, AfterFlagTyped DEF HealFlag, ResetDailyFlag
<1>3. CASE ReadLoss(p)
  BY <1>3 DEF ReadLoss, Goto
<1>4. CASE CompareEdge(p)
  BY <1>4 DEF CompareEdge, Goto
<1>5. CASE BlockEntries(p)
  BY <1>5, DecideTyped DEF BlockEntries
<1>6. CASE CheckHalt(p)
  BY <1>6, DecideTyped DEF CheckHalt, Goto
<1>7. CASE CheckLockout(p)
  BY <1>7, DecideTyped DEF CheckLockout, Goto
<1>8. CASE CountTrips(p)
  BY <1>8, DecideTyped DEF CountTrips, Goto
<1>9. CASE WriteHalt(p)
  <2>1. target[p] \in Tickers
    BY <1>9 DEF WriteHalt
  <2> QED
  BY <1>9, <2>1, DecideTyped DEF WriteHalt
<1>10. CASE CheckFails(p)
  BY <1>10, DecideTyped DEF CheckFails
<1> QED
  BY <1>1, <1>2, <1>3, <1>4, <1>5, <1>6, <1>7, <1>8, <1>9, <1>10 DEF Check

\* the process leaves one write behind, or all of them
LEMMA LeaveTyped ==
  ASSUME TypeOK, NEW p \in Procs, pc[p] = "record",
         NEW writes \in Seq(Writes), Leave(p, writes)
  PROVE  ControlOK' /\ WorldOK' /\ p \in Traders
<1> USE DEF TypeOK, WorldOK, ControlOK, Leave, Goto, world
<1>1. p \in Traders
  BY DEF TypeOK, ControlOK
<1>2. fill' \in [Traders -> Fills]
  BY DEF Fills
<1>3. todo' \in [Traders -> Seq(Writes)]
  OBVIOUS
<1>4. /\ pc' \in [Procs -> Places]
      /\ \A q \in Watchers : pc'[q] \in {"idle", "flag", "heal"}
  BY <1>1, ProcsAssumption
<1>5. \A q \in Traders : pc'[q] = "record" => fill'[q] # NoFill
  BY <1>1
<1> QED
  BY <1>1, <1>2, <1>3, <1>4, <1>5

\* every write of an exit, and one that fails
LEMMA ExitTyped ==
  ASSUME TypeOK, NEW p \in Procs, Exit(p)
  PROVE  StepTyped'
<1> USE DEF StepTyped, TypeOK, HistoryOK
<1>1. pc[p] = "record" /\ p \in Traders /\ todo[p] \in Seq(Writes) /\ todo[p] # <<>>
  BY DEF Exit, RecordExitLockout, RecordRoundTrip, RecordRealizedPnl, WriteFails,
         NextWrite, ControlOK
<1>2. Tail(todo[p]) \in Seq(Writes) /\ <<>> \in Seq(Writes)
  BY <1>1
<1>3. Written(p) => ControlOK' /\ WorldOK'
  BY <1>1, <1>2, LeaveTyped DEF Written
<1>4. target[p] \in Tickers /\ fill[p] \in Fills
  BY <1>1 DEF ControlOK
<1>5. CASE RecordExitLockout(p)
  <2>1. Expiry[target[p]] \in Times
    BY <1>4, TimeAssumption
  <2> QED
    BY <1>3, <1>4, <1>5, <2>1 DEF RecordExitLockout, TablesOK
<1>6. CASE RecordRoundTrip(p)
  <2>1. clock \in Times /\ trips[target[p]] \in [Times -> Nat]
    BY <1>4 DEF TablesOK, WorldOK
  <2>2. [trips[target[p]] EXCEPT ![clock] = @ + 1] \in [Times -> Nat]
    BY <2>1, CountUp
  <2>3. trips' \in [Tickers -> [Times -> Nat]]
    BY <1>6, <2>2 DEF RecordRoundTrip, TablesOK
  <2> QED
    BY <1>3, <1>6, <2>3 DEF RecordRoundTrip, TablesOK
<1>7. CASE RecordRealizedPnl(p)
  <2>1. fill[p].order \in Orders /\ fill[p].pnl \in Amounts
    BY <1>1, <1>4 DEF ControlOK, Fills
  <2>2. [ticker |-> target[p], at |-> clock, pnl |-> fill[p].pnl] \in ExitRows
    BY <1>4, <2>1 DEF WorldOK, ExitRows
  <2>3. exitRow' \in [Orders -> ExitRows \cup {NoRow}]
    BY <1>7, <2>1, <2>2 DEF RecordRealizedPnl, TablesOK
  <2>4. DOMAIN dayPnl' = Days
    BY <1>7 DEF RecordRealizedPnl, TablesOK
  <2> QED
    BY <1>3, <1>7, <2>3, <2>4 DEF RecordRealizedPnl, TablesOK
<1>8. CASE WriteFails(p)
  BY <1>1, <1>2, <1>8, LeaveTyped DEF WriteFails, tables, TablesOK
<1> QED
  BY <1>5, <1>6, <1>7, <1>8 DEF Exit

\* a trader moves to another place of its cycle
LEMMA MovesTyped ==
  ASSUME TypeOK, NEW p \in Procs, NEW from,
         NEW to \in {"top", "sync", "strategy", "monitor"},
         Moves(p, from, to), lastDay' \in Days
  PROVE  ControlOK' /\ WorldOK' /\ lossExited' \subseteq Tickers
<1>1. WorldOK' /\ lossExited' \subseteq Tickers
  BY DEF Moves, TypeOK, HistoryOK, WorldOK, world
<1>2. phase' \in [Traders -> {"top", "sync", "strategy", "monitor"}]
  BY DEF Moves, TypeOK, ControlOK
<1>3. allowed' \in [Traders -> BOOLEAN]
  BY DEF Moves, TypeOK, ControlOK
<1> QED
  BY <1>1, <1>2, <1>3 DEF Moves, TypeOK, ControlOK

\* the steps of a trader's cycle, and its restart
LEMMA CycleTyped ==
  ASSUME TypeOK, NEW p \in Procs, Cycle(p)
  PROVE  StepTyped'
<1> USE DEF StepTyped
<1>1. lastDay \in Days /\ clock \in Times /\ Day(clock) \in Days
  BY DayType DEF TypeOK, ControlOK, WorldOK
<1>2. CASE BeginCycle(p)
  <2>1. lastDay' \in Days
    BY <1>1, <1>2 DEF BeginCycle
  <2>2. TablesOK'
    <3>1. flag' \in [allowed: BOOLEAN, at: Times]
      <4>1. CASE ResetDailyFlag
        BY <1>1, <4>1 DEF ResetDailyFlag
      <4>2. CASE UNCHANGED flag
        BY <4>2 DEF TypeOK, TablesOK
      <4> QED
        BY <1>2, <4>1, <4>2 DEF BeginCycle
    <3> QED
      BY <1>2, <3>1 DEF BeginCycle, TypeOK, TablesOK
  <2> QED
    BY <1>2, <2>1, <2>2, MovesTyped DEF BeginCycle
<1>3. CASE SyncOfficialSettlementPnl(p)
  <2> DEFINE settled == {t \in Tickers : settle[t] # NoRow}
  <2>1. lastDay' \in Days
    BY <1>1, <1>3 DEF SyncOfficialSettlementPnl
  <2>2. exitRow' \in [Orders -> ExitRows \cup {NoRow}]
    <3>1. exitRow' = [o \in Orders |->
                        IF exitRow[o] # NoRow /\ exitRow[o].ticker \in settled
                        THEN NoRow ELSE exitRow[o]]
      BY <1>3 DEF SyncOfficialSettlementPnl
    <3> HIDE DEF settled
    <3> QED
      BY <3>1 DEF TypeOK, TablesOK
  <2>3. officialRow' \in [Tickers -> OfficialRows \cup {NoRow}]
    BY <1>3 DEF SyncOfficialSettlementPnl, TypeOK, TablesOK, WorldOK
  <2>4. DOMAIN dayPnl' = Days
    BY <1>3 DEF SyncOfficialSettlementPnl
  <2> QED
    BY <1>3, <2>1, <2>2, <2>3, <2>4, MovesTyped
    DEF SyncOfficialSettlementPnl, TypeOK, TablesOK
<1>4. CASE SyncFails(p)
  BY <1>1, <1>4, MovesTyped DEF SyncFails, tables, TypeOK, TablesOK
<1>5. CASE EndStrategy(p)
  BY <1>1, <1>5, MovesTyped DEF EndStrategy, tables, TypeOK, TablesOK
<1>6. CASE EndCycle(p)
  BY <1>1, <1>6, MovesTyped DEF EndCycle, tables, TypeOK, TablesOK
<1>7. CASE Restart(p)
  <2>1. TablesOK' /\ WorldOK' /\ lossExited' \subseteq Tickers
    BY <1>7 DEF Restart, tables, world, TypeOK, TablesOK, WorldOK, HistoryOK
  <2>2. /\ phase' \in [Traders -> {"top", "sync", "strategy", "monitor"}]
        /\ lastDay' \in Days /\ target' \in [Traders -> Tickers]
        /\ allowed' \in [Traders -> BOOLEAN] /\ DOMAIN lossRead' = Traders
    BY <1>1, <1>7 DEF Restart, TypeOK, ControlOK
  <2>3. /\ pc' \in [Procs -> Places]
        /\ \A q \in Watchers : pc'[q] \in {"idle", "flag", "heal"}
        /\ todo' \in [Traders -> Seq(Writes)]
    BY <1>7 DEF Restart, Goto, TypeOK, ControlOK
  <2>4. /\ fill' \in [Traders -> Fills]
        /\ \A q \in Traders : pc'[q] = "record" => fill'[q] # NoFill
    BY <1>7 DEF Restart, Goto, TypeOK, ControlOK, Fills
  <2> QED
    BY <2>1, <2>2, <2>3, <2>4 DEF ControlOK
<1>8. CASE \E t \in Tickers : CoherenceHalt(p, t)
  <2>1. PICK t \in Tickers : CoherenceHalt(p, t)
    BY <1>8
  <2> QED
    BY <1>1, <2>1, MovesTyped DEF CoherenceHalt, TypeOK, TablesOK
<1> QED
  BY <1>2, <1>3, <1>4, <1>5, <1>6, <1>7, <1>8 DEF Cycle

\* a check or an exit begins, time passes, a market settles
LEMMA StartTyped ==
  ASSUME TypeOK, NEW p \in Traders, NEW t \in Tickers, StartCheck(p, t)
  PROVE  StepTyped'
<1>1. /\ pc' \in [Procs -> Places]
      /\ \A q \in Watchers : pc'[q] \in {"idle", "flag", "heal"}
      /\ \A q \in Traders : pc'[q] = "record" => pc[q] = "record"
  BY DEF StartCheck, Goto, TypeOK, ControlOK
<1>2. target' \in [Traders -> Tickers] /\ allowed' \in [Traders -> BOOLEAN]
  BY DEF StartCheck, TypeOK, ControlOK
<1> QED
  BY <1>1, <1>2
  DEF StartCheck, StepTyped, TypeOK, TablesOK, WorldOK, ControlOK, HistoryOK, tables, world

LEMMA WatchTyped ==
  ASSUME TypeOK, NEW p \in Procs, StartWatch(p)
  PROVE  StepTyped'
<1>1. /\ pc' \in [Procs -> Places]
      /\ \A q \in Watchers : pc'[q] \in {"idle", "flag", "heal"}
      /\ \A q \in Traders : pc'[q] = "record" => pc[q] = "record"
  BY DEF StartWatch, Goto, TypeOK, ControlOK
<1> QED
  BY <1>1
  DEF StartWatch, StepTyped, TypeOK, TablesOK, WorldOK, ControlOK, HistoryOK, tables, world

LEMMA FirewallWritesTyped ==
  \A kind \in ExitKinds : FirewallWrites(kind) \in Seq(Writes)
<1>1. <<"lockout", "roundTrip", "pnl">> \in Seq(Writes)
  BY DEF Writes
<1>2. <<"roundTrip", "pnl">> \in Seq(Writes)
  BY DEF Writes
<1>3. <<"pnl", "roundTrip">> \in Seq(Writes)
  BY DEF Writes
<1>4. <<"pnl">> \in Seq(Writes)
  BY DEF Writes
<1>5. /\ FirewallWrites("salvage") = <<"lockout", "roundTrip", "pnl">>
      /\ FirewallWrites("take_profit") = <<"roundTrip", "pnl">>
      /\ FirewallWrites("swap") = <<"pnl", "roundTrip">>
      /\ FirewallWrites("partial_swap") = <<"pnl">>
  BY DEF FirewallWrites
<1> QED
  BY <1>1, <1>2, <1>3, <1>4, <1>5 DEF ExitKinds

LEMMA ExitFillTyped ==
  ASSUME TypeOK, NEW p \in Traders, NEW t \in Tickers,
         NEW kind \in ExitKinds, NEW pnl \in Amounts, ExitFill(p, t, kind, pnl)
  PROVE  StepTyped'
<1>1. orders + 1 \in Orders /\ orders + 1 \in 0..MaxOrders
  BY TimeAssumption DEF ExitFill, TypeOK, WorldOK
<1> DEFINE new == [order |-> orders + 1, pnl |-> pnl, kind |-> kind]
<1>2. new \in Fills /\ new # NoFill
  <2>1. orders + 1 # 0
    BY <1>1, TimeAssumption
  <2> QED
    BY <1>1, <2>1 DEF Fills, NoFill
<1>3. fill' = [fill EXCEPT ![p] = new]
  BY DEF ExitFill
<1> HIDE DEF new
<1>4. /\ fill' \in [Traders -> Fills]
      /\ \A q \in Traders : pc'[q] = "record" => fill'[q] # NoFill
  BY <1>2, <1>3 DEF ExitFill, Goto, TypeOK, ControlOK
<1>5. /\ pc' \in [Procs -> Places]
      /\ \A q \in Watchers : pc'[q] \in {"idle", "flag", "heal"}
  BY ProcsAssumption DEF ExitFill, Goto, TypeOK, ControlOK
<1>6. todo' \in [Traders -> Seq(Writes)]
  BY FirewallWritesTyped DEF ExitFill, TypeOK, ControlOK
<1>7. target' \in [Traders -> Tickers] /\ allowed' \in [Traders -> BOOLEAN]
  BY DEF ExitFill, TypeOK, ControlOK
<1> QED
  BY <1>1, <1>4, <1>5, <1>6, <1>7
  DEF ExitFill, StepTyped, TypeOK, TablesOK, WorldOK, ControlOK, HistoryOK, tables

LEMMA StepTypes ==
  ASSUME TypeOK, Step
  PROVE  StepTyped'
<1>1. ASSUME NEW p \in Procs, Check(p) \/ Exit(p) \/ Cycle(p) \/ StartWatch(p)
      PROVE  StepTyped'
  BY <1>1, CheckTyped, ExitTyped, CycleTyped, WatchTyped
<1>2. ASSUME NEW p \in Traders, NEW t \in Tickers, StartCheck(p, t)
      PROVE  StepTyped'
  BY <1>2, StartTyped
<1>3. ASSUME NEW p \in Traders, NEW t \in Tickers, NEW kind \in ExitKinds,
             NEW pnl \in Amounts, ExitFill(p, t, kind, pnl)
      PROVE  StepTyped'
  BY <1>3, ExitFillTyped
<1>4. CASE Tick
  <2>1. clock' \in Times
    BY <1>4, TimeAssumption DEF Tick, TypeOK, WorldOK
  <2> QED
    BY <1>4, <2>1 DEF Tick, StepTyped, TypeOK, TablesOK, WorldOK, ControlOK,
                      HistoryOK, tables, control
<1>5. ASSUME NEW t \in Tickers, NEW pnl \in Amounts, Settle(t, pnl)
      PROVE  StepTyped'
  <2>1. [at |-> clock, pnl |-> pnl] \in OfficialRows
    BY DEF OfficialRows, TypeOK, WorldOK
  <2>2. settle' \in [Tickers -> OfficialRows \cup {NoRow}]
    BY <1>5, <2>1 DEF Settle, TypeOK, WorldOK
  <2> QED
    BY <1>5, <2>2 DEF Settle, StepTyped, TypeOK, TablesOK, WorldOK, ControlOK,
                      HistoryOK, tables, control
<1> QED
  BY <1>1, <1>2, <1>3, <1>4, <1>5 DEF Step

LEMMA ObserveTyped ==
  ASSUME TypeOK, Observe
  PROVE  standing' \in [Traders -> SUBSET {"blocked", "loss", "halted", "lockout",
                                          "oscillation"}]
<1>1. \A t : Bars(t)' \subseteq {"blocked", "loss", "halted", "lockout", "oscillation"}
  BY DEF Bars
<1> QED
  BY <1>1 DEF Observe, TypeOK, HistoryOK

(* Type correctness: every reachable state, in any interleaving of traders *)
(* and watchers, keeps the tables and the cycle positions well formed.     *)
THEOREM TypeInvariant == Spec => []TypeOK
<1>1. TypeOK /\ [Next]_vars => TypeOK'
  <2>1. ASSUME TypeOK, Next PROVE TypeOK'
    BY <2>1, StepTypes, ObserveTyped DEF Next, StepTyped, TypeOK, HistoryOK
  <2>2. ASSUME TypeOK, UNCHANGED vars PROVE TypeOK'
    BY <2>2 DEF vars, tables, world, control, TypeOK, TablesOK, WorldOK, ControlOK,
                HistoryOK
  <2> QED
    BY <2>1, <2>2
<1> QED
  BY InitTyped, <1>1, PTL DEF Spec

-----------------------------------------------------------------------------
(* Halts are permanent: each transaction that writes firewall_state either *)
(* adds a halted ticker or leaves the halted rows alone.                   *)

THEOREM HaltsStay == Spec => HaltsArePermanent
<1>1. Next => halted \subseteq halted'
  <2> SUFFICES ASSUME Step PROVE halted \subseteq halted'
    BY DEF Next
  <2>1. ASSUME NEW p \in Procs, Check(p) PROVE halted \subseteq halted'
    BY <2>1 DEF Check, ReadFlag, HealFlag, ReadLoss, CompareEdge, BlockEntries, CheckHalt,
                CheckLockout, CountTrips, WriteHalt, CheckFails, tables
  <2>2. ASSUME NEW p \in Procs, Exit(p) PROVE halted \subseteq halted'
    BY <2>2 DEF Exit, RecordExitLockout, RecordRoundTrip, RecordRealizedPnl, WriteFails,
                tables
  <2>3. ASSUME NEW p \in Procs, Cycle(p) PROVE halted \subseteq halted'
    BY <2>3 DEF Cycle, BeginCycle, SyncOfficialSettlementPnl, SyncFails, EndStrategy,
                EndCycle, Restart, CoherenceHalt, tables
  <2>4. ASSUME NEW p \in Procs, StartWatch(p) PROVE halted \subseteq halted'
    BY <2>4 DEF StartWatch, tables
  <2>5. ASSUME NEW p \in Traders, NEW t \in Tickers, StartCheck(p, t)
        PROVE  halted \subseteq halted'
    BY <2>5 DEF StartCheck, tables
  <2>6. ASSUME NEW p \in Traders, NEW t \in Tickers, NEW kind \in ExitKinds,
               NEW pnl \in Amounts, ExitFill(p, t, kind, pnl)
        PROVE  halted \subseteq halted'
    BY <2>6 DEF ExitFill, tables
  <2>7. CASE Tick
    BY <2>7 DEF Tick, tables
  <2>8. ASSUME NEW t \in Tickers, NEW pnl \in Amounts, Settle(t, pnl)
        PROVE  halted \subseteq halted'
    BY <2>8 DEF Settle, tables
  <2> QED
    BY <2>1, <2>2, <2>3, <2>4, <2>5, <2>6, <2>7, <2>8 DEF Step
<1>2. UNCHANGED vars => halted \subseteq halted'
  BY DEF vars, tables
<1>3. [Next]_vars => [halted \subseteq halted']_vars
  BY <1>1, <1>2
<1> QED
  BY <1>3, PTL DEF Spec, HaltsArePermanent

-----------------------------------------------------------------------------
(* No allowed entry over a standing bar.  The gates are read one after the *)
(* other, so the invariant remembers which bars each passed gate has       *)
(* ruled out: once ruled out, a bar that comes up later is not standing.   *)

AfterFlagGate == {"heal", "loss", "edge", "halt", "lockout", "trips"}
AfterLossGate == {"halt", "lockout", "trips"}

GatesPassed(p) ==
  /\ allowed[p] => pc[p] = "idle" /\ standing[p] = {}
  /\ pc[p] \in AfterFlagGate => "blocked" \notin standing[p]
  /\ pc[p] = "edge" /\ "loss" \in standing[p] => OverBankrollLimit(lossRead[p])
  /\ pc[p] \in AfterLossGate => "loss" \notin standing[p]
  /\ pc[p] \in {"lockout", "trips"} => "halted" \notin standing[p]
  /\ pc[p] = "trips" => "lockout" \notin standing[p]

LockoutsWritten == \A t \in lossExited : lockout[t] = Expiry[t]

GateInv == /\ TypeOK
           /\ LockoutsWritten
           /\ \A p \in Traders : GatesPassed(p)

\* a step that is not p's own only takes bars off
LEMMA Elsewhere ==
  ASSUME TypeOK, Observe, NEW p \in Traders, GatesPassed(p),
         pc'[p] = pc[p], allowed'[p] = allowed[p], lossRead'[p] = lossRead[p]
  PROVE  GatesPassed(p)'
<1>1. standing'[p] \subseteq standing[p]
  BY DEF Observe
<1> QED
  BY <1>1 DEF GatesPassed, OverBankrollLimit, AfterFlagGate, AfterLossGate

\* where nothing is claimed yet, or any more
LEMMA NoClaim ==
  ASSUME NEW p \in Traders, ~allowed'[p], pc'[p] \notin AfterFlagGate
  PROVE  GatesPassed(p)'
BY DEF GatesPassed, AfterFlagGate, AfterLossGate

LEMMA VetoObserved ==
  ASSUME TypeOK, NEW p \in Traders, Decide(p, "veto")
  PROVE  GatesPassed(p)'
<1>1. allowed'[p] = FALSE /\ pc'[p] = "idle"
  BY DEF Decide, Goto, TypeOK, ControlOK
<1> QED
  BY <1>1, NoClaim DEF AfterFlagGate

\* a gate passed: what it read is still there when the step is observed
LEMMA GateObserved ==
  ASSUME TypeOK, Observe, NEW p \in Traders, pc[p] # "idle",
         UNCHANGED tables, InCheck, pc'[p] \in CheckPlaces \/ allowed'[p]
  PROVE  standing'[p] = standing[p] \cap Bars(target[p])
<1>1. clock' = clock /\ lossExited' = lossExited /\ target' = target
  BY DEF InCheck, world
<1>2. Bars(target[p])' = Bars(target[p])
  BY <1>1 DEF tables, Bars, BlockedToday, Day, DayLoss, PnlOfDay, PnlBetween,
              RecentTrips
<1> QED
  BY <1>2 DEF Observe

\* the gates of p's own check
LEMMA OwnCheck ==
  ASSUME GateInv, Observe, NEW p \in Traders, Check(p)
  PROVE  GatesPassed(p)'
<1> USE DEF GateInv
<1>1. p \in Procs /\ p \notin Watchers /\ target[p] \in Tickers /\ ~allowed[p]
  BY ProcsAssumption DEF TypeOK, ControlOK, GatesPassed, Check, ReadFlag, HealFlag,
     ReadLoss, CompareEdge, BlockEntries, CheckHalt, CheckLockout, CountTrips,
     WriteHalt, CheckFails
<1>2. ASSUME NEW place, Goto(p, place) PROVE pc'[p] = place
  BY <1>2 DEF Goto, TypeOK, ControlOK
<1>3. CASE ReadFlag(p)
  <2>1. CASE Decide(p, "veto")
    BY <2>1, VetoObserved
  <2>2. CASE ~BlockedToday /\ pc'[p] \in {"loss", "heal"} /\ UNCHANGED allowed
    <3>1. standing'[p] = standing[p] \cap Bars(target[p])
      BY <1>3, <2>2, GateObserved DEF ReadFlag
    <3>2. "blocked" \notin standing'[p]
      BY <2>2, <3>1 DEF Bars
    <3> QED
      BY <1>1, <2>2, <3>2 DEF GatesPassed, AfterFlagGate, AfterLossGate
  <2> QED
    BY <1>1, <1>2, <1>3, <2>1, <2>2 DEF ReadFlag, AfterFlag, BlockedToday
<1>4. CASE HealFlag(p)
  <2>1. pc'[p] = "loss" /\ UNCHANGED allowed
    BY <1>1, <1>2, <1>4 DEF HealFlag, AfterFlag
  <2>2. "blocked" \notin standing[p] /\ standing'[p] \subseteq standing[p]
    BY <1>4, <2>1 DEF HealFlag, Observe, GatesPassed, AfterFlagGate
  <2> QED
    BY <1>1, <2>1, <2>2 DEF GatesPassed, AfterFlagGate, AfterLossGate
<1>5. CASE ReadLoss(p)
  <2> DEFINE loss == DayLoss(Day(clock))
  <2>1. /\ pc'[p] = IF loss > 0 THEN "edge" ELSE "halt"
        /\ UNCHANGED allowed /\ lossRead'[p] = loss
    BY <1>2, <1>5 DEF ReadLoss, TypeOK, ControlOK
  <2>2. standing'[p] = standing[p] \cap Bars(target[p])
    BY <1>5, <2>1, GateObserved DEF ReadLoss
  <2>3. "blocked" \notin standing'[p]
    BY <1>5, <2>2 DEF ReadLoss, GatesPassed, AfterFlagGate
  <2>4. "loss" \in standing'[p] => OverBankrollLimit(loss)
    BY <2>2 DEF Bars
  <2>5. "loss" \in standing'[p] => loss > 0
    BY <2>4 DEF OverBankrollLimit
  <2>6. "loss" \in standing'[p] => OverBankrollLimit(lossRead[p])'
    BY <2>1, <2>4 DEF OverBankrollLimit
  <2> HIDE DEF loss
  <2>7. CASE loss > 0
    BY <1>1, <2>1, <2>3, <2>6, <2>7 DEF GatesPassed, AfterFlagGate, AfterLossGate
  <2>8. CASE ~(loss > 0)
    BY <1>1, <2>1, <2>3, <2>5, <2>8 DEF GatesPassed, AfterFlagGate, AfterLossGate
  <2> QED
    BY <2>7, <2>8
<1>6. CASE CompareEdge(p)
  <2>1. CASE pc'[p] = "block"
    BY <1>1, <1>6, <2>1, NoClaim DEF CompareEdge, AfterFlagGate
  <2>2. CASE pc'[p] = "halt" /\ ~OverBankrollLimit(lossRead[p])
    <3>1. /\ "blocked" \notin standing[p] /\ "loss" \notin standing[p]
          /\ standing'[p] \subseteq standing[p] /\ UNCHANGED allowed
      BY <1>6, <2>2 DEF CompareEdge, Observe, GatesPassed, AfterFlagGate
    <3> QED
      BY <1>1, <2>2, <3>1 DEF GatesPassed, AfterFlagGate, AfterLossGate
  <2> QED
    BY <1>2, <1>6, <2>1, <2>2 DEF CompareEdge
<1>7. CASE BlockEntries(p)
  BY <1>7, VetoObserved DEF BlockEntries
<1>8. CASE CheckHalt(p)
  <2>1. CASE pc'[p] = "lockout" /\ UNCHANGED allowed /\ target[p] \notin halted
    <3>1. standing'[p] = standing[p] \cap Bars(target[p])
      BY <1>8, <2>1, GateObserved DEF CheckHalt
    <3>2. "halted" \notin standing'[p]
      BY <2>1, <3>1 DEF Bars
    <3>3. "blocked" \notin standing'[p] /\ "loss" \notin standing'[p]
      BY <1>8, <3>1 DEF CheckHalt, GatesPassed, AfterFlagGate, AfterLossGate
    <3> QED
      BY <1>1, <2>1, <3>2, <3>3 DEF GatesPassed, AfterFlagGate, AfterLossGate
  <2> QED
    BY <1>2, <1>8, <2>1, VetoObserved DEF CheckHalt
<1>9. CASE CheckLockout(p)
  <2>1. CASE pc'[p] = "trips" /\ UNCHANGED allowed /\ ~(clock < lockout[target[p]])
    <3>1. standing'[p] = standing[p] \cap Bars(target[p])
      BY <1>9, <2>1, GateObserved DEF CheckLockout
    <3>2. "lockout" \notin standing'[p]
      BY <2>1, <3>1 DEF Bars, LockoutsWritten
    <3>3. "blocked" \notin standing'[p] /\ "loss" \notin standing'[p]
          /\ "halted" \notin standing'[p]
      BY <1>9, <3>1 DEF CheckLockout, GatesPassed, AfterFlagGate, AfterLossGate
    <3> QED
      BY <1>1, <2>1, <3>2, <3>3 DEF GatesPassed, AfterFlagGate, AfterLossGate
  <2> QED
    BY <1>2, <1>9, <2>1, VetoObserved DEF CheckLockout
<1>10. CASE CountTrips(p)
  <2>1. CASE Goto(p, "writeHalt") /\ UNCHANGED allowed
    BY <1>1, <1>2, <2>1, NoClaim DEF AfterFlagGate
  <2>2. CASE Decide(p, "allow") /\ ~(RecentTrips(target[p]) >= TripLimit)
    <3>1. allowed'[p] = TRUE /\ pc'[p] = "idle"
      BY <1>1, <2>2 DEF Decide, Goto, TypeOK, ControlOK
    <3>2. standing'[p] = standing[p] \cap Bars(target[p])
      BY <1>10, <3>1, GateObserved DEF CountTrips
    <3>3. "oscillation" \notin standing'[p]
      BY <2>2, <3>2 DEF Bars
    <3>4. standing[p] \subseteq {"oscillation"}
      BY <1>10 DEF CountTrips, GatesPassed, AfterFlagGate, AfterLossGate,
                  TypeOK, HistoryOK
    <3>5. standing'[p] = {}
      BY <3>2, <3>3, <3>4
    <3> QED
      BY <3>1, <3>5 DEF GatesPassed, AfterFlagGate, AfterLossGate
  <2> QED
    BY <1>10, <2>1, <2>2 DEF CountTrips
<1>11. CASE WriteHalt(p)
  BY <1>11, VetoObserved DEF WriteHalt
<1>12. CASE CheckFails(p)
  BY <1>12, VetoObserved DEF CheckFails
<1> QED
  BY <1>3, <1>4, <1>5, <1>6, <1>7, <1>8, <1>9, <1>10, <1>11, <1>12 DEF Check

\* every other step of the process p, or of the world
LEMMA OwnStep ==
  ASSUME GateInv, Observe, NEW p \in Traders,
         Exit(p) \/ Cycle(p) \/ StartWatch(p)
  PROVE  GatesPassed(p)'
<1> USE DEF GateInv
<1>1. p \notin Watchers
  BY ProcsAssumption
<1>2. CASE Exit(p)
  <2>1. pc[p] = "record" /\ pc'[p] \in {"record", "idle"} /\ allowed' = allowed
    BY <1>2 DEF Exit, RecordExitLockout, RecordRoundTrip, RecordRealizedPnl, WriteFails,
                NextWrite, Written, Leave, Goto, TypeOK, ControlOK
  <2>2. ~allowed'[p]
    BY <2>1 DEF GatesPassed
  <2> QED
    BY <2>1, <2>2, NoClaim DEF AfterFlagGate
<1>3. CASE Cycle(p)
  <2>1. pc'[p] = "idle" /\ allowed'[p] = FALSE
    BY <1>3 DEF Cycle, BeginCycle, SyncOfficialSettlementPnl, SyncFails, EndStrategy,
                EndCycle, CoherenceHalt, Restart, Moves, Goto, TypeOK, ControlOK
  <2> QED
    BY <2>1, NoClaim DEF AfterFlagGate
<1>4. CASE StartWatch(p)
  BY <1>1, <1>4 DEF StartWatch
<1> QED
  BY <1>2, <1>3, <1>4

\* a step of q leaves the check of p where it is
LEMMA OthersStep ==
  ASSUME TypeOK, NEW p \in Traders, NEW q \in Procs, p # q,
         Check(q) \/ Exit(q) \/ Cycle(q) \/ StartWatch(q)
  PROVE  pc'[p] = pc[p] /\ allowed'[p] = allowed[p] /\ lossRead'[p] = lossRead[p]
<1> USE DEF Goto, Decide, InCheck, TypeOK, ControlOK
<1>1. CASE Check(q)
  BY <1>1 DEF Check, ReadFlag, AfterFlag, HealFlag, ReadLoss, CompareEdge, BlockEntries,
              CheckHalt, CheckLockout, CountTrips, WriteHalt, CheckFails
<1>2. CASE Exit(q)
  BY <1>2 DEF Exit, RecordExitLockout, RecordRoundTrip, RecordRealizedPnl, WriteFails,
              NextWrite, Written, Leave
<1>3. CASE Cycle(q)
  BY <1>3 DEF Cycle, BeginCycle, SyncOfficialSettlementPnl, SyncFails, EndStrategy,
              EndCycle, CoherenceHalt, Restart, Moves
<1>4. CASE StartWatch(q)
  BY <1>4 DEF StartWatch
<1> QED
  BY <1>1, <1>2, <1>3, <1>4

\* record_exit_lockout writes what the gate compares with the clock
LEMMA LockoutsStep ==
  ASSUME GateInv, Step
  PROVE  LockoutsWritten'
<1> USE DEF GateInv, LockoutsWritten
<1>1. ASSUME NEW p \in Procs, RecordExitLockout(p) PROVE LockoutsWritten'
  <2>1. target[p] \in Tickers
    BY <1>1 DEF RecordExitLockout, NextWrite, TypeOK, ControlOK
  <2> QED
    BY <1>1, <2>1 DEF RecordExitLockout, TypeOK, TablesOK, HistoryOK
<1>2. CASE lockout' = lockout /\ lossExited' = lossExited
  BY <1>2
<1>3. ASSUME NEW p \in Procs, Check(p)
      PROVE  lockout' = lockout /\ lossExited' = lossExited
  BY <1>3 DEF Check, ReadFlag, HealFlag, ReadLoss, CompareEdge, BlockEntries, CheckHalt,
              CheckLockout, CountTrips, WriteHalt, CheckFails, InCheck, tables
<1>4. ASSUME NEW p \in Procs, Cycle(p) \/ StartWatch(p)
      PROVE  lockout' = lockout /\ lossExited' = lossExited
  BY <1>4 DEF Cycle, BeginCycle, SyncOfficialSettlementPnl, SyncFails, EndStrategy,
              EndCycle, CoherenceHalt, Restart, Moves, StartWatch, tables
<1>5. ASSUME NEW p \in Procs, RecordRoundTrip(p) \/ RecordRealizedPnl(p) \/ WriteFails(p)
      PROVE  lockout' = lockout /\ lossExited' = lossExited
  BY <1>5 DEF RecordRoundTrip, RecordRealizedPnl, WriteFails, tables
<1>6. ASSUME NEW p \in Traders, NEW t \in Tickers, StartCheck(p, t)
      PROVE  lockout' = lockout /\ lossExited' = lossExited
  BY <1>6 DEF StartCheck, tables
<1>7. ASSUME NEW p \in Traders, NEW t \in Tickers, NEW kind \in ExitKinds,
             NEW pnl \in Amounts, ExitFill(p, t, kind, pnl)
      PROVE  lockout' = lockout /\ lossExited' = lossExited
  BY <1>7 DEF ExitFill, tables
<1>8. Tick \/ (\E t \in Tickers, pnl \in Amounts : Settle(t, pnl))
        => lockout' = lockout /\ lossExited' = lossExited
  BY DEF Tick, Settle, tables
<1> QED
  BY <1>1, <1>2, <1>3, <1>4, <1>5, <1>6, <1>7, <1>8 DEF Step, Exit

LEMMA GatesStep ==
  ASSUME GateInv, Step, Observe, NEW p \in Traders
  PROVE  GatesPassed(p)'
<1> USE DEF GateInv
<1>1. ASSUME NEW q \in Procs, Check(q) \/ Exit(q) \/ Cycle(q) \/ StartWatch(q)
      PROVE  GatesPassed(p)'
  <2>1. CASE p = q
    BY <1>1, <2>1, OwnCheck, OwnStep
  <2>2. CASE p # q
    BY <1>1, <2>2, OthersStep, Elsewhere
  <2> QED
    BY <2>1, <2>2
<1>2. ASSUME NEW q \in Traders, NEW t \in Tickers, StartCheck(q, t)
      PROVE  GatesPassed(p)'
  <2>1. CASE p = q
    <3>1. pc'[p] = "flag" /\ allowed'[p] = FALSE
      BY <1>2, <2>1 DEF StartCheck, Goto, TypeOK, ControlOK
    <3> QED
      BY <3>1, NoClaim DEF AfterFlagGate
  <2>2. CASE p # q
    BY <1>2, <2>2, Elsewhere DEF StartCheck, Goto, TypeOK, ControlOK
  <2> QED
    BY <2>1, <2>2
<1>3. ASSUME NEW q \in Traders, NEW t \in Tickers, NEW kind \in ExitKinds,
             NEW pnl \in Amounts, ExitFill(q, t, kind, pnl)
      PROVE  GatesPassed(p)'
  <2>1. CASE p = q
    <3>1. pc'[p] = "record" /\ allowed'[p] = FALSE
      BY <1>3, <2>1 DEF ExitFill, Goto, TypeOK, ControlOK
    <3> QED
      BY <3>1, NoClaim DEF AfterFlagGate
  <2>2. CASE p # q
    BY <1>3, <2>2, Elsewhere DEF ExitFill, Goto, TypeOK, ControlOK
  <2> QED
    BY <2>1, <2>2
<1>4. CASE Tick
  BY <1>4, Elsewhere DEF Tick, control
<1>5. ASSUME NEW t \in Tickers, NEW pnl \in Amounts, Settle(t, pnl)
      PROVE  GatesPassed(p)'
  BY <1>5, Elsewhere DEF Settle, control
<1> QED
  BY <1>1, <1>2, <1>3, <1>4, <1>5 DEF Step

(* What a passed gate ruled out stays ruled out for the rest of the check, *)
(* whatever the other processes write between the gates.                   *)
THEOREM GateInvariant == Spec => []GateInv
<1>1. Init => GateInv
  <2> SUFFICES ASSUME Init PROVE GateInv
    OBVIOUS
  <2>1. TypeOK /\ LockoutsWritten
    BY InitTyped DEF Init, LockoutsWritten
  <2>2. \A p \in Traders : GatesPassed(p)
    BY DEF Init, GatesPassed, AfterFlagGate, AfterLossGate
  <2> QED
    BY <2>1, <2>2 DEF GateInv
<1>2. GateInv /\ [Next]_vars => GateInv'
  <2>1. ASSUME GateInv, Next PROVE GateInv'
    <3>1. TypeOK'
      BY <2>1, StepTypes, ObserveTyped DEF GateInv, Next, StepTyped, TypeOK, HistoryOK
    <3> QED
      BY <2>1, <3>1, LockoutsStep, GatesStep DEF Next, GateInv
  <2>2. ASSUME GateInv, UNCHANGED vars PROVE GateInv'
    BY <2>2 DEF vars, tables, world, control, GateInv, LockoutsWritten, GatesPassed,
                OverBankrollLimit, TypeOK, TablesOK, WorldOK, ControlOK, HistoryOK
  <2> QED
    BY <2>1, <2>2
<1> QED
  BY <1>1, <1>2, PTL DEF Spec

(* No entry check allows an entry over a bar that stood from its first     *)
(* gate to its verdict: blocked day, day loss over the limit, halted       *)
(* ticker, loss-exit lockout, or oscillation.                              *)
THEOREM FirewallVetoes == Spec => []StandingBarVetoes
<1>1. GateInv => StandingBarVetoes
  BY DEF GateInv, GatesPassed, StandingBarVetoes
<1> QED
  BY <1>1, GateInvariant, PTL

-----------------------------------------------------------------------------
(* The day's bucket.  It is summed again whenever an event is written; an  *)
(* exit's event adds to the day of its writing alone, since its order has  *)
(* no event yet.                                                           *)

\* orders of fills under way are of the past, and each is its trader's own
OrdersApart ==
  \A p \in Traders :
    /\ fill[p].order <= orders
    /\ \A q \in Traders : fill[p] # NoFill /\ fill[p].order = fill[q].order => p = q
\* no event has been written for an order of the future, or for one that is to be written
EventsOnce ==
  /\ \A o \in Orders : o > orders => exitRow[o] = NoRow
  /\ \A p \in Traders : \A i \in 1..Len(todo[p]) : todo[p][i] = "pnl" =>
       /\ fill[p] # NoFill /\ exitRow[fill[p].order] = NoRow
       /\ \A j \in 1..Len(todo[p]) : todo[p][j] = "pnl" => j = i
BucketsInd == TypeOK /\ OrdersApart /\ EventsOnce /\ DayBucketsExact

\* the fold over rows is a sum of what they hold
Between(rows, from, to) == {o \in Orders : rows[o] # NoRow /\ rows[o].at \in from..to}
LEMMA ExitSumIs ==
  ASSUME NEW rows, NEW from, NEW to, NEW S, S = Between(rows, from, to)
  PROVE  \E g : IsSum([o \in S |-> rows[o].pnl], S, g) /\ ExitSum(rows, from, to) = g[S]
<1> DEFINE f == [o \in S |-> rows[o].pnl]
           IsFold(g) == g = [s \in SUBSET S |->
             IF s = {} THEN 0 ELSE rows[CHOOSE x \in s : TRUE].pnl
                                     + g[s \ {CHOOSE x \in s : TRUE}]]
<1>1. ExitSum(rows, from, to) = (CHOOSE g : IsFold(g))[S]
  BY DEF ExitSum, MapThenSumSet, MapThenFoldSet, Between
<1>2. ASSUME NEW g PROVE IsFold(g) <=> IsSum(f, S, g)
  <2> DEFINE one(s) == IF s = {} THEN 0 ELSE rows[Pick(s)].pnl + g[Rest(s)]
             two(s) == IF s = {} THEN 0 ELSE f[Pick(s)] + g[Rest(s)]
  <2>1. ASSUME NEW s \in SUBSET S PROVE one(s) = two(s)
    <3>1. s # {} => Pick(s) \in S
      BY RestSmaller
    <3> QED
      BY <3>1
  <2>2. IsFold(g) <=> g = [s \in SUBSET S |-> one(s)]
    BY DEF Pick, Rest
  <2>3. IsSum(f, S, g) <=> g = [s \in SUBSET S |-> two(s)]
    BY DEF IsSum
  <2>4. [s \in SUBSET S |-> one(s)] = [s \in SUBSET S |-> two(s)]
    <3> HIDE DEF one, two
    <3> QED
      BY <2>1
  <2> HIDE DEF one, two, IsFold
  <2> QED
    BY <2>2, <2>3, <2>4
<1>3. IsFiniteSet(S)
  <2>1. IsFiniteSet(Orders)
    BY TimeAssumption, FS_Interval DEF Orders
  <2>2. S \subseteq Orders
    BY DEF Between
  <2> QED
    BY <2>1, <2>2, FS_Subset
<1>4. \E g : IsSum(f, S, g)
  BY <1>3, SumExists
<1> HIDE DEF IsFold, f
<1>5. IsSum(f, S, CHOOSE g : IsFold(g))
  BY <1>2, <1>4
<1> QED
  BY <1>1, <1>5 DEF f

\* hence only the rows between the two ticks tell
LEMMA ExitSumsAgree ==
  ASSUME NEW rows, NEW others, NEW from, NEW to,
         Between(rows, from, to) = Between(others, from, to),
         \A o \in Between(rows, from, to) : rows[o].pnl = others[o].pnl
  PROVE  ExitSum(rows, from, to) = ExitSum(others, from, to)
<1>1. PICK S : S = Between(rows, from, to)
  OBVIOUS
<1>2. S = Between(others, from, to)
  BY <1>1
<1>3. PICK g : IsSum([o \in S |-> rows[o].pnl], S, g) /\ ExitSum(rows, from, to) = g[S]
  BY <1>1, ExitSumIs
<1>4. PICK h : IsSum([o \in S |-> others[o].pnl], S, h) /\ ExitSum(others, from, to) = h[S]
  BY <1>2, ExitSumIs
<1>5. [o \in S |-> rows[o].pnl] = [o \in S |-> others[o].pnl]
  BY <1>1
<1>6. IsFiniteSet(S)
  <2>1. IsFiniteSet(Orders) /\ S \subseteq Orders
    BY <1>1, TimeAssumption, FS_Interval DEF Orders, Between
  <2> QED
    BY <2>1, FS_Subset
<1>7. g[S] = h[S]
  <2> DEFINE f == [o \in S |-> rows[o].pnl]
  <2>1. IsSum(f, S, g) /\ IsSum(f, S, h)
    BY <1>3, <1>4, <1>5
  <2> HIDE DEF f
  <2>2. S \in SUBSET (S \cap S)
    OBVIOUS
  <2> QED
    BY <1>6, <2>1, <2>2, SumsAgree
<1> QED
  BY <1>3, <1>4, <1>7

\* a tick lies in its own day and in no other
LEMMA DaysApart ==
  ASSUME NEW t \in Times, NEW d \in Days, d # Day(t)
  PROVE  t \notin (d * DayLength)..(d * DayLength + DayLength - 1)
<1> DEFINE q == Day(t)
<1>1. t \in Nat /\ DayLength \in Nat /\ DayLength > 0
  BY TimeAssumption DEF Times
<1>2. d \in Nat /\ q \in Nat
  BY <1>1, QuotientTyped, TimeAssumption DEF Day, Days, Times
<1>3. t % DayLength \in 0..(DayLength - 1) /\ t = DayLength * q + (t % DayLength)
  BY <1>1 DEF Day
<1> HIDE DEF q
<1>4. PICK a \in Nat, b \in Nat : a = d * DayLength /\ b = q * DayLength
  BY <1>1, <1>2
<1>5. b <= t /\ t <= b + DayLength - 1
  <2>1. DayLength * q = b
    BY <1>1, <1>2, <1>4
  <2> QED
    BY <1>1, <1>3, <1>4, <2>1
<1>6. CASE d < q
  <2>1. (d + 1) * DayLength <= b
    BY <1>1, <1>2, <1>4, <1>6, ProductIsMonotone
  <2>2. (d + 1) * DayLength = a + DayLength
    BY <1>1, <1>2, <1>4
  <2> QED
    BY <1>1, <1>4, <1>5, <2>1, <2>2
<1>7. CASE q < d
  <2>1. (q + 1) * DayLength <= a
    BY <1>1, <1>2, <1>4, <1>7, ProductIsMonotone
  <2>2. (q + 1) * DayLength = b + DayLength
    BY <1>1, <1>2, <1>4
  <2> QED
    BY <1>1, <1>4, <1>5, <2>1, <2>2
<1> QED
  BY <1>2, <1>6, <1>7 DEF q

\* the sums of the other days do not see a row that is added today
LEMMA RowTouchesToday ==
  ASSUME TypeOK, NEW o \in Orders, exitRow[o] = NoRow, NEW r \in ExitRows, r.at = clock,
         exitRow' = [exitRow EXCEPT ![o] = r], officialRow' = officialRow,
         NEW d \in Days, d # Day(clock)
  PROVE  PnlOfDay(d)' = PnlOfDay(d)
<1>1. PICK from, to : from = d * DayLength /\ to = d * DayLength + DayLength - 1
  OBVIOUS
<1>2. clock \notin from..to
  BY <1>1, DaysApart DEF TypeOK, WorldOK
<1>3. exitRow \in [Orders -> ExitRows \cup {NoRow}] /\ r # NoRow
  BY NoRowAssumption DEF TypeOK, TablesOK
<1>4. PICK rows, later : rows = exitRow /\ later = [exitRow EXCEPT ![o] = r]
  OBVIOUS
<1>5. Between(rows, from, to) = Between(later, from, to)
  BY <1>2, <1>3, <1>4 DEF Between
<1>6. \A x \in Between(rows, from, to) : rows[x].pnl = later[x].pnl
  BY <1>2, <1>3, <1>4 DEF Between
<1>7. ExitSum(rows, from, to) = ExitSum(later, from, to)
  BY <1>5, <1>6, ExitSumsAgree
<1>8. ExitSum(exitRow, from, to) = ExitSum(exitRow', from, to)
  BY <1>4, <1>7
<1>9. PnlOfDay(d) = ExitSum(exitRow, from, to) + OfficialSum(officialRow, from, to)
  BY <1>1 DEF PnlOfDay, PnlBetween
<1>10. PnlOfDay(d)' = ExitSum(exitRow', from, to) + OfficialSum(officialRow', from, to)
  BY <1>1 DEF PnlOfDay, PnlBetween
<1> QED
  BY <1>8, <1>9, <1>10

LEMMA BucketsStay ==
  ASSUME DayBucketsExact, UNCHANGED <<exitRow, officialRow, dayPnl>>
  PROVE  DayBucketsExact'
<1>1. \A d \in Days : PnlOfDay(d)' = PnlOfDay(d)
  BY DEF PnlOfDay, PnlBetween
<1> QED
  BY <1>1 DEF DayBucketsExact

\* a step that takes no fill and writes no event
LEMMA NoEvent ==
  ASSUME BucketsInd, TypeOK', UNCHANGED <<exitRow, officialRow, dayPnl, orders, todo, fill>>
  PROVE  BucketsInd'
BY BucketsStay DEF BucketsInd, OrdersApart, EventsOnce

\* the writes left to a trader: all but the first, or none
LEMMA LeaveKeeps ==
  ASSUME TypeOK, OrdersApart, EventsOnce, NEW p \in Traders, NEW writes, Leave(p, writes),
         writes \in {<<>>, Tail(todo[p])}, todo[p] # <<>>,
         \A o \in Orders : exitRow'[o] = exitRow[o]
            \/ (o = fill[p].order /\ Head(todo[p]) = "pnl" /\ exitRow[o] = NoRow)
  PROVE  OrdersApart' /\ EventsOnce'
<1>1. /\ todo \in [Traders -> Seq(Writes)] /\ fill \in [Traders -> Fills] /\ orders' = orders
      /\ todo[p] \in Seq(Writes)
  BY DEF Leave, world, TypeOK, ControlOK
<1>2. NoFill.order = 0 /\ orders \in Nat /\ \A q \in Traders : fill[q].order \in Int
        /\ (fill[q] # NoFill => fill[q].order \in Orders)
  BY <1>1, TimeAssumption DEF NoFill, Fills, TypeOK, WorldOK
<1>3. /\ fill' = IF writes = <<>> THEN [fill EXCEPT ![p] = NoFill] ELSE fill
      /\ todo' = [todo EXCEPT ![p] = writes]
  BY DEF Leave
<1>4. OrdersApart'
  BY <1>1, <1>2, <1>3 DEF OrdersApart
<1>5. \A i \in 1..Len(writes) : writes = Tail(todo[p]) /\ i + 1 \in 1..Len(todo[p]) /\ writes[i] = todo[p][i + 1]
        /\ i \in Nat
  BY <1>1
<1>6. ASSUME NEW o \in Orders, o > orders' PROVE exitRow'[o] = NoRow
  <2>1. o # fill[p].order
    BY <1>1, <1>2, <1>6 DEF OrdersApart
  <2> QED
    BY <1>1, <1>6, <2>1 DEF EventsOnce
<1>7. ASSUME NEW q \in Traders, NEW i \in 1..Len(todo'[q]), todo'[q][i] = "pnl"
      PROVE  /\ fill'[q] # NoFill /\ exitRow'[fill'[q].order] = NoRow
             /\ \A j \in 1..Len(todo'[q]) : todo'[q][j] = "pnl" => j = i
  <2>1. CASE q = p
    <3>1. todo'[p] = writes /\ i \in 1..Len(writes) /\ writes # <<>> /\ fill' = fill
      BY <1>1, <1>3, <1>7, <2>1
    <3>2. i + 1 \in 1..Len(todo[p]) /\ todo[p][i + 1] = "pnl" /\ i + 1 # 1
      BY <1>5, <1>7, <2>1, <3>1
    <3>3. /\ fill[p] # NoFill /\ exitRow[fill[p].order] = NoRow
          /\ \A j \in 1..Len(todo[p]) : todo[p][j] = "pnl" => j = i + 1
      BY <3>2 DEF EventsOnce
    <3>4. Head(todo[p]) # "pnl"
      <4>1. Head(todo[p]) = todo[p][1] /\ 1 \in 1..Len(todo[p])
        BY <1>1
      <4> QED
        BY <3>2, <3>3, <4>1
    <3>5. ASSUME NEW j \in 1..Len(writes), writes[j] = "pnl" PROVE j = i
      <4>1. j + 1 \in 1..Len(todo[p]) /\ todo[p][j + 1] = "pnl"
        BY <1>5, <3>5
      <4>2. j + 1 = i + 1
        BY <3>3, <4>1
      <4>3. i \in Int /\ j \in Int
        BY <3>1
      <4> QED
        BY <4>2, <4>3
    <3> QED
      BY <1>2, <2>1, <3>1, <3>3, <3>4, <3>5
  <2>2. CASE q # p
    <3>1. todo'[q] = todo[q] /\ fill'[q] = fill[q]
      BY <1>1, <1>3, <2>2
    <3>2. /\ fill[q] # NoFill /\ exitRow[fill[q].order] = NoRow
          /\ \A j \in 1..Len(todo[q]) : todo[q][j] = "pnl" => j = i
      BY <1>7, <3>1 DEF EventsOnce
    <3>3. fill[q].order # fill[p].order
      BY <2>2, <3>2 DEF OrdersApart
    <3> QED
      BY <1>2, <3>1, <3>2, <3>3
  <2> QED
    BY <2>1, <2>2
<1> QED
  BY <1>4, <1>6, <1>7 DEF EventsOnce

\* a write of the queue's head other than the event, or none at all
LEMMA OtherWrite ==
  ASSUME BucketsInd, TypeOK', NEW p \in Traders, NEW writes, Leave(p, writes),
         writes \in {<<>>, Tail(todo[p])}, todo[p] # <<>>,
         UNCHANGED <<exitRow, officialRow, dayPnl>>
  PROVE  BucketsInd'
<1>1. DayBucketsExact'
  BY BucketsStay DEF BucketsInd
<1>2. \A o \in Orders : exitRow'[o] = exitRow[o]
  OBVIOUS
<1>3. OrdersApart' /\ EventsOnce'
  BY <1>2, LeaveKeeps DEF BucketsInd
<1> QED
  BY <1>1, <1>3 DEF BucketsInd

LEMMA RealizedPnlIsSummed ==
  ASSUME BucketsInd, TypeOK', NEW p \in Traders, RecordRealizedPnl(p)
  PROVE  BucketsInd'
<1>1. /\ NextWrite(p, "pnl") /\ Leave(p, Tail(todo[p])) /\ clock' = clock
      /\ officialRow' = officialRow /\ todo[p] # <<>> /\ Head(todo[p]) = "pnl"
  BY DEF RecordRealizedPnl, NextWrite, Written, Leave, world
<1>2. 1 \in 1..Len(todo[p]) /\ todo[p][1] = "pnl"
  BY <1>1 DEF BucketsInd, TypeOK, ControlOK
<1>3. fill[p] # NoFill /\ exitRow[fill[p].order] = NoRow
  BY <1>2 DEF BucketsInd, EventsOnce
<1>4. PICK o : o = fill[p].order
  OBVIOUS
<1>5. o \in Orders /\ fill[p].pnl \in Amounts
  BY <1>3, <1>4 DEF BucketsInd, TypeOK, ControlOK, Fills
<1>6. PICK r : r = [ticker |-> target[p], at |-> clock, pnl |-> fill[p].pnl]
  OBVIOUS
<1>7. r \in ExitRows /\ r.at = clock
  BY <1>5, <1>6 DEF ExitRows, BucketsInd, TypeOK, ControlOK, WorldOK
<1>8. exitRow' = [exitRow EXCEPT ![o] = r]
  BY <1>4, <1>6 DEF RecordRealizedPnl
<1>9. exitRow \in [Orders -> ExitRows \cup {NoRow}] /\ DOMAIN dayPnl = Days
  BY DEF BucketsInd, TypeOK, TablesOK
<1>10. \A x \in Orders : exitRow'[x] = exitRow[x]
         \/ (x = fill[p].order /\ Head(todo[p]) = "pnl" /\ exitRow[x] = NoRow)
  BY <1>1, <1>3, <1>4, <1>8, <1>9
<1>11. OrdersApart' /\ EventsOnce'
  BY <1>1, <1>10, LeaveKeeps DEF BucketsInd
<1>12. ASSUME NEW d \in Days, d # Day(clock)
       PROVE  dayPnl'[d] = PnlOfDay(d)'
  <2>1. PnlOfDay(d)' = PnlOfDay(d)
    BY <1>1, <1>3, <1>4, <1>5, <1>7, <1>8, <1>12, RowTouchesToday DEF BucketsInd
  <2>2. dayPnl'[d] = dayPnl[d]
    BY <1>9, <1>12 DEF RecordRealizedPnl
  <2> QED
    BY <2>1, <2>2 DEF BucketsInd, DayBucketsExact
<1>13. ASSUME NEW d \in Days, d = Day(clock)
       PROVE  dayPnl'[d] = PnlOfDay(d)'
  <2>1. PICK sum : sum = PnlOfDay(Day(clock))'
    OBVIOUS
  <2>2. dayPnl' = [dayPnl EXCEPT ![Day(clock)] = sum]
    BY <2>1 DEF RecordRealizedPnl
  <2>3. Day(clock)' = Day(clock)
    BY <1>1 DEF Day
  <2>4. sum = PnlOfDay(d)'
    BY <1>13, <2>1, <2>3
  <2> QED
    BY <1>9, <1>13, <2>2, <2>4
<1>14. DayBucketsExact'
  <2>1. Days' = Days
    BY DEF Days, Day
  <2> QED
    BY <1>12, <1>13, <2>1 DEF DayBucketsExact
<1> QED
  BY <1>11, <1>14 DEF BucketsInd

LEMMA SyncSumsAll ==
  ASSUME BucketsInd, TypeOK', NEW p \in Traders, SyncOfficialSettlementPnl(p)
  PROVE  BucketsInd'
<1>1. UNCHANGED <<orders, todo, fill>>
  BY DEF SyncOfficialSettlementPnl, Moves, world
<1>2. ASSUME NEW o \in Orders PROVE exitRow'[o] \in {NoRow, exitRow[o]}
  BY DEF SyncOfficialSettlementPnl
<1>3. OrdersApart'
  BY <1>1 DEF BucketsInd, OrdersApart
<1>4. \A q \in Traders : fill[q] # NoFill => fill[q].order \in Orders
  BY DEF BucketsInd, TypeOK, ControlOK, Fills
<1>5. EventsOnce'
  BY <1>1, <1>2, <1>4 DEF BucketsInd, EventsOnce
<1>6. \A d \in Days : dayPnl'[d] = PnlOfDay(d)'
  <2>1. dayPnl' = [d \in Days |-> PnlOfDay(d)']
    BY DEF SyncOfficialSettlementPnl
  <2> QED
    BY <2>1
<1>7. DayBucketsExact'
  <2>1. Days' = Days
    BY DEF Days, Day
  <2> QED
    BY <1>6, <2>1 DEF DayBucketsExact
<1> QED
  BY <1>3, <1>5, <1>7 DEF BucketsInd

\* the fill of a new order: one event is to be written, and no other trader's
LEMMA FillIsApart ==
  ASSUME BucketsInd, TypeOK', NEW p \in Traders, NEW t \in Tickers, NEW kind \in ExitKinds,
         NEW pnl \in Amounts, ExitFill(p, t, kind, pnl)
  PROVE  BucketsInd'
<1>1. /\ UNCHANGED <<exitRow, officialRow, dayPnl>>
      /\ orders' = orders + 1 /\ orders < MaxOrders
  BY DEF ExitFill, tables
<1>2. DayBucketsExact'
  BY <1>1, BucketsStay DEF BucketsInd
<1>3. orders \in Nat /\ orders + 1 \in Orders /\ NoFill.order = 0
  BY <1>1, TimeAssumption DEF BucketsInd, TypeOK, WorldOK, NoFill
<1>4. PICK made : made = [order |-> orders + 1, pnl |-> pnl, kind |-> kind]
  OBVIOUS
<1>5. fill' = [fill EXCEPT ![p] = made] /\ made.order = orders + 1
  BY <1>4 DEF ExitFill
<1>6. fill \in [Traders -> Fills] /\ todo \in [Traders -> Seq(Writes)]
  BY DEF BucketsInd, TypeOK, ControlOK
<1>7. \A q \in Traders : fill[q].order \in Int /\ (fill[q] # NoFill => fill[q].order \in Orders)
  BY <1>3, <1>6, TimeAssumption DEF Fills
<1>8. OrdersApart'
  BY <1>1, <1>3, <1>5, <1>6, <1>7 DEF BucketsInd, OrdersApart
<1>9. PICK writes : writes = FirewallWrites(kind)
  OBVIOUS
<1>10. todo' = [todo EXCEPT ![p] = writes]
  BY <1>9 DEF ExitFill
<1>11. \A i, j \in 1..Len(writes) : writes[i] = "pnl" /\ writes[j] = "pnl" => i = j
  BY <1>9 DEF FirewallWrites, ExitKinds
<1>12. exitRow[orders + 1] = NoRow
  BY <1>3 DEF BucketsInd, EventsOnce
<1>13. ASSUME NEW q \in Traders, NEW i \in 1..Len(todo'[q]), todo'[q][i] = "pnl"
       PROVE  /\ fill'[q] # NoFill /\ exitRow'[fill'[q].order] = NoRow
              /\ \A j \in 1..Len(todo'[q]) : todo'[q][j] = "pnl" => j = i
  <2>1. CASE q = p
    BY <1>1, <1>3, <1>5, <1>6, <1>10, <1>11, <1>12, <1>13, <2>1
  <2>2. CASE q # p
    <3>1. todo'[q] = todo[q] /\ fill'[q] = fill[q]
      BY <1>5, <1>6, <1>10, <2>2
    <3>2. /\ fill[q] # NoFill /\ exitRow[fill[q].order] = NoRow
          /\ \A j \in 1..Len(todo[q]) : todo[q][j] = "pnl" => j = i
      BY <1>13, <3>1 DEF BucketsInd, EventsOnce
    <3> QED
      BY <1>1, <3>1, <3>2
  <2> QED
    BY <2>1, <2>2
<1>14. \A o \in Orders : o > orders' => exitRow'[o] = NoRow
  BY <1>1, <1>3, TimeAssumption DEF BucketsInd, EventsOnce
<1>15. EventsOnce'
  BY <1>13, <1>14 DEF EventsOnce
<1> QED
  BY <1>2, <1>8, <1>15 DEF BucketsInd

\* a process that dies takes its fill and its writes with it
LEMMA RestartForgets ==
  ASSUME BucketsInd, TypeOK', NEW p \in Traders, Restart(p)
  PROVE  BucketsInd'
<1>1. /\ UNCHANGED <<exitRow, officialRow, dayPnl, orders>>
      /\ fill' = [fill EXCEPT ![p] = NoFill] /\ todo' = [todo EXCEPT ![p] = <<>>]
  BY DEF Restart, tables, world
<1>2. DayBucketsExact'
  BY <1>1, BucketsStay DEF BucketsInd
<1>3. /\ fill \in [Traders -> Fills] /\ todo \in [Traders -> Seq(Writes)]
      /\ orders \in Nat /\ NoFill.order = 0
  BY TimeAssumption DEF BucketsInd, TypeOK, ControlOK, WorldOK, NoFill
<1>4. OrdersApart'
  <2>1. \A q \in Traders : fill'[q] = fill[q] \/ (q = p /\ fill'[q] = NoFill)
    BY <1>1, <1>3
  <2>2. \A q \in Traders : fill'[q].order <= orders
    BY <1>3, <2>1 DEF BucketsInd, OrdersApart
  <2>3. ASSUME NEW q \in Traders, NEW r \in Traders, fill'[q] # NoFill,
               fill'[q].order = fill'[r].order
        PROVE  q = r
    <3>1. fill'[q] = fill[q] /\ fill[q].order # 0
      BY <1>3, <2>1, <2>3, TimeAssumption DEF Fills
    <3>2. fill'[r] = fill[r]
      BY <1>3, <2>1, <2>3, <3>1
    <3> QED
      BY <2>3, <3>1, <3>2 DEF BucketsInd, OrdersApart
  <2> QED
    BY <1>1, <2>2, <2>3 DEF OrdersApart
<1>5. EventsOnce'
  <2>1. \A i \in 1..Len(<<>>) : FALSE
    OBVIOUS
  <2> QED
    BY <1>1, <1>3, <2>1 DEF BucketsInd, EventsOnce
<1> QED
  BY <1>2, <1>4, <1>5 DEF BucketsInd

LEMMA BucketsInitInd == Init => BucketsInd
<1> SUFFICES ASSUME Init PROVE BucketsInd
  OBVIOUS
<1>1. TypeOK
  BY InitTyped
<1>2. OrdersApart /\ EventsOnce
  <2>1. orders = 0 /\ \A p \in Traders : fill[p] = NoFill /\ todo[p] = <<>>
    BY DEF Init
  <2>2. \A o \in Orders : exitRow[o] = NoRow
    BY DEF Init
  <2>3. NoFill.order = 0
    BY DEF NoFill
  <2> QED
    BY <2>1, <2>2, <2>3 DEF OrdersApart, EventsOnce
<1>3. ASSUME NEW d \in Days PROVE dayPnl[d] = PnlOfDay(d)
  <2>1. PICK from, to : from = d * DayLength /\ to = d * DayLength + DayLength - 1
    OBVIOUS
  <2>2. ExitSum(exitRow, from, to) = 0
    <3>1. PICK S : S = Between(exitRow, from, to)
      OBVIOUS
    <3>2. PICK g : IsSum([o \in S |-> exitRow[o].pnl], S, g) /\ ExitSum(exitRow, from, to) = g[S]
      BY <3>1, ExitSumIs
    <3>3. S = {}
      BY <3>1 DEF Between, Init
    <3> QED
      BY <3>2, <3>3 DEF IsSum
  <2>3. OfficialSum(officialRow, from, to) = 0
    <3>1. {t \in Tickers : officialRow[t] # NoRow /\ officialRow[t].at \in from..to} = {}
      BY DEF Init
    <3> DEFINE IsFold(g) == g = [s \in SUBSET {} |->
                 IF s = {} THEN 0 ELSE officialRow[CHOOSE x \in s : TRUE].pnl
                                         + g[s \ {CHOOSE x \in s : TRUE}]]
    <3>2. OfficialSum(officialRow, from, to) = (CHOOSE g : IsFold(g))[{}]
      BY <3>1 DEF OfficialSum, MapThenSumSet, MapThenFoldSet
    <3>3. \A g : IsFold(g) <=> g = [s \in SUBSET {} |-> 0]
      OBVIOUS
    <3> HIDE DEF IsFold
    <3>4. IsFold(CHOOSE g : IsFold(g))
      BY <3>3
    <3> QED
      BY <3>2, <3>3, <3>4
  <2> QED
    BY <1>3, <2>1, <2>2, <2>3 DEF PnlOfDay, PnlBetween, Init
<1> QED
  BY <1>1, <1>2, <1>3 DEF BucketsInd, DayBucketsExact

LEMMA BucketsStep == ASSUME BucketsInd, TypeOK', Step PROVE BucketsInd'
<1>1. \A p \in Procs : p \in Traders \/ p \in Watchers
  OBVIOUS
<1>2. ASSUME NEW p \in Procs, Check(p) \/ StartWatch(p) PROVE BucketsInd'
  <2>1. UNCHANGED <<exitRow, officialRow, dayPnl, orders, todo, fill>>
    BY <1>2 DEF Check, ReadFlag, HealFlag, ReadLoss, CompareEdge, BlockEntries, CheckHalt,
                CheckLockout, CountTrips, WriteHalt, CheckFails, StartWatch, InCheck, tables, world
  <2> QED
    BY <2>1, NoEvent
<1>3. ASSUME NEW p \in Procs, Exit(p) PROVE BucketsInd'
  <2>1. pc[p] = "record" /\ todo[p] # <<>>
    BY <1>3 DEF Exit, RecordExitLockout, RecordRoundTrip, RecordRealizedPnl, WriteFails, NextWrite
  <2>2. p \in Traders
    BY <1>1, <2>1 DEF BucketsInd, TypeOK, ControlOK
  <2>3. CASE RecordRealizedPnl(p)
    BY <2>2, <2>3, RealizedPnlIsSummed
  <2>4. CASE RecordExitLockout(p) \/ RecordRoundTrip(p) \/ WriteFails(p)
    <3>1. PICK writes \in {<<>>, Tail(todo[p])} : Leave(p, writes)
      BY <2>4 DEF RecordExitLockout, RecordRoundTrip, WriteFails, Written
    <3>2. UNCHANGED <<exitRow, officialRow, dayPnl>>
      BY <2>4 DEF RecordExitLockout, RecordRoundTrip, WriteFails, tables
    <3> QED
      BY <2>1, <2>2, <3>1, <3>2, OtherWrite
  <2> QED
    BY <1>3, <2>3, <2>4 DEF Exit
<1>4. ASSUME NEW p \in Procs, Cycle(p) PROVE BucketsInd'
  <2>1. p \in Traders
    BY <1>4 DEF Cycle, BeginCycle, SyncOfficialSettlementPnl, SyncFails, EndStrategy, EndCycle,
                Restart, CoherenceHalt, Moves
  <2>2. CASE SyncOfficialSettlementPnl(p)
    BY <2>1, <2>2, SyncSumsAll
  <2>3. CASE Restart(p)
    BY <2>1, <2>3, RestartForgets
  <2>4. CASE \/ BeginCycle(p) \/ SyncFails(p) \/ EndStrategy(p) \/ EndCycle(p)
             \/ \E t \in Tickers : CoherenceHalt(p, t)
    <3>1. UNCHANGED <<exitRow, officialRow, dayPnl, orders, todo, fill>>
      BY <2>4 DEF BeginCycle, SyncFails, EndStrategy, EndCycle, CoherenceHalt, Moves, tables, world
    <3> QED
      BY <3>1, NoEvent
  <2> QED
    BY <1>4, <2>2, <2>3, <2>4 DEF Cycle
<1>5. ASSUME NEW p \in Traders, NEW t \in Tickers, StartCheck(p, t) PROVE BucketsInd'
  <2>1. UNCHANGED <<exitRow, officialRow, dayPnl, orders, todo, fill>>
    BY <1>5 DEF StartCheck, tables, world
  <2> QED
    BY <2>1, NoEvent
<1>6. ASSUME NEW p \in Traders, NEW t \in Tickers, NEW kind \in ExitKinds, NEW pnl \in Amounts,
             ExitFill(p, t, kind, pnl)
      PROVE  BucketsInd'
  BY <1>6, FillIsApart
<1>7. ASSUME Tick \/ \E t \in Tickers, pnl \in Amounts : Settle(t, pnl) PROVE BucketsInd'
  <2>1. UNCHANGED <<exitRow, officialRow, dayPnl, orders, todo, fill>>
    BY <1>7 DEF Tick, Settle, tables, control
  <2> QED
    BY <2>1, NoEvent
<1> QED
  BY <1>2, <1>3, <1>4, <1>5, <1>6, <1>7 DEF Step

(* The bucket of every UTC day is the sum of the day's events, in every    *)
(* state between two transactions: record_realized_pnl sums only the day   *)
(* of its event again, which suffices because no order is recorded twice   *)
(* and an event is dated with the tick of its writing, and                 *)
(* sync_official_settlement_pnl, which moves amounts between days, sums    *)
(* every day again.                                                        *)
THEOREM BucketsAreSums == Spec => []DayBucketsExact
<1>1. BucketsInd /\ [Next]_vars => BucketsInd'
  <2>1. ASSUME BucketsInd, Next PROVE BucketsInd'
    <3>1. TypeOK'
      BY <2>1, StepTypes, ObserveTyped DEF BucketsInd, Next, StepTyped, TypeOK, HistoryOK
    <3> QED
      BY <2>1, <3>1, BucketsStep DEF Next
  <2>2. ASSUME BucketsInd, UNCHANGED vars PROVE BucketsInd'
    <3>1. TypeOK'
      BY <2>2 DEF vars, tables, world, control, BucketsInd, TypeOK, TablesOK, WorldOK,
                  ControlOK, HistoryOK
    <3>2. UNCHANGED <<exitRow, officialRow, dayPnl, orders, todo, fill>>
      BY <2>2 DEF vars, tables, world, control
    <3> QED
      BY <2>2, <3>1, <3>2, NoEvent
  <2> QED
    BY <2>1, <2>2
<1>2. BucketsInd => DayBucketsExact
  BY DEF BucketsInd
<1> QED
  BY BucketsInitInd, <1>1, <1>2, PTL DEF Spec

-----------------------------------------------------------------------------
(* Readiness.                                                              *)

LanePlaces == {"idle", "begun", "discovered", "allowed", "sweeping", "monitoring", "caching", "dead"}
LaneShows == {"UNKNOWN", "OPERATIONAL", "BROKER_DISCONNECTED", "NO_TRADABLE_CONTRACTS",
              "NO_UNDERLIERS"}
Blockers == {"audit", "heartbeat", "incident", "provider", "stale weather", "balance"}
Rows == [known : BOOLEAN, active : BOOLEAN, beat : Ages(StaleAfter), shows : LaneShows,
         tradable : BOOLEAN, power : Nat]
Cycles == [at : LanePlaces, linked : BOOLEAN, stamped : BOOLEAN, age : Ages(StaleAfter),
           approved : SUBSET Series, refused : SUBSET Blockers]
Verdicts == {"none", "BLOCKED", "PASS_WITH_WARNINGS", "READY_FOR_LIVE"}

\* how old a series' data are, or that there are none
Dates(data) == data \in [Series -> Int] /\ \A s \in Series : data[s] \in Ages(Limit[s]) \cup {NoData}

LaneTyped == row \in Rows /\ loop \in [Loops -> Cycles]
WorldTyped == cash \in Nat /\ critical \in BOOLEAN /\ listed \in SUBSET Series /\ Dates(weather)
AuditsTyped ==
  /\ artifact \in [passing : BOOLEAN, balanceOk : BOOLEAN, seen : [Series -> Int]]
  /\ Dates(artifact.seen)
  /\ promotion \in [verdict : Verdicts, audited : BOOLEAN]

\* what a process that has stamped the row knows of it, and what one that has
\* not asked the gate yet says
StampsFollow ==
  \A p \in Loops :
    /\ loop[p].stamped => row.beat <= loop[p].age
    /\ loop[p].at \in {"idle", "dead"} => ~loop[p].stamped
    /\ loop[p].at \in {"begun", "discovered"} => loop[p].refused = {}
AuditsCompare == artifact.passing => artifact.balanceOk

ReadinessInd ==
  LaneTyped /\ WorldTyped /\ AuditsTyped /\ StampsFollow /\ AuditsCompare /\ PromotionIsHosted

LEMMA ReadinessInitInd == ASSUME ReadinessInit PROVE ReadinessInd
<1>1. LaneTyped
  BY ReadinessAssumption DEF ReadinessInit, LaneTyped, Rows, Cycles, AtRest, Ages, LaneShows, LanePlaces
<1>2. WorldTyped
  <2>1. weather \in [Series -> Int] /\ \A s \in Series : weather[s] \in Ages(Limit[s])
    BY ReadinessAssumption DEF ReadinessInit, Ages
  <2> QED
    BY <2>1, ReadinessAssumption DEF ReadinessInit, WorldTyped, Dates
<1>3. AuditsTyped
  BY ReadinessAssumption DEF ReadinessInit, AuditsTyped, Dates, NoArtifact, NoPromotion, NoData, Ages, Verdicts
<1>4. StampsFollow /\ AuditsCompare /\ PromotionIsHosted
  BY DEF ReadinessInit, StampsFollow, AtRest, AuditsCompare, NoArtifact, PromotionIsHosted, NoPromotion
<1> QED
  BY <1>1, <1>2, <1>3, <1>4 DEF ReadinessInd

LEMMA OlderTyped ==
  ASSUME NEW limit \in Nat, NEW age \in Ages(limit)
  PROVE  Older(age, limit) \in Ages(limit) /\ age <= Older(age, limit)
         /\ \A other \in Ages(limit) : other <= age => Older(other, limit) <= Older(age, limit)
BY DEF Older, Ages

LEMMA TimePassesKeeps ==
  ASSUME ReadinessInd, TimePasses
  PROVE  ReadinessInd'
<1> USE DEF ReadinessInd
<1> PICK beat \in Ages(StaleAfter) : beat = Older(row.beat, StaleAfter)
  BY OlderTyped, ReadinessAssumption DEF LaneTyped, Rows
<1>1. row' = [row EXCEPT !.beat = beat]
  BY DEF TimePasses
<1>2. row' \in Rows /\ row'.beat = Older(row.beat, StaleAfter)
  BY <1>1 DEF LaneTyped, Rows
<1>3. ASSUME NEW p \in Loops
      PROVE  /\ loop'[p] \in Cycles
             /\ loop'[p].at = loop[p].at /\ loop'[p].stamped = loop[p].stamped
             /\ loop'[p].refused = loop[p].refused
             /\ loop[p].at \in {"idle", "dead"} \/ loop'[p].age = Older(loop[p].age, StaleAfter)
  <2>1. loop[p] \in Cycles
    BY DEF LaneTyped
  <2>2. CASE loop[p].at \in {"idle", "dead"}
    BY <2>1, <2>2 DEF TimePasses, LaneTyped
  <2>3. CASE loop[p].at \notin {"idle", "dead"}
    <3> PICK age \in Ages(StaleAfter) : age = Older(loop[p].age, StaleAfter)
      BY <2>1, OlderTyped, ReadinessAssumption DEF Cycles
    <3>1. loop'[p] = [loop[p] EXCEPT !.age = age]
      BY <2>3 DEF TimePasses, LaneTyped
    <3> QED
      BY <2>1, <3>1 DEF Cycles
  <2> QED
    BY <2>2, <2>3
<1>4. loop' \in [Loops -> Cycles]
  <2>1. loop' = [p \in Loops |-> loop'[p]]
    BY DEF TimePasses
  <2> QED
    BY <1>3, <2>1
<1>5. LaneTyped'
  BY <1>2, <1>4 DEF LaneTyped
<1>6. WorldTyped'
  <2>1. ASSUME NEW s \in Series PROVE weather'[s] \in Ages(Limit[s]) \cup {NoData} /\ weather'[s] \in Int
    <3>1. weather[s] \in Ages(Limit[s]) \cup {NoData} /\ Limit[s] \in Nat
      BY ReadinessAssumption DEF WorldTyped, Dates
    <3>2. weather'[s] = IF weather[s] = NoData THEN NoData ELSE Older(weather[s], Limit[s])
      BY DEF TimePasses
    <3>3. weather'[s] \in Ages(Limit[s]) \cup {NoData}
      BY <3>1, <3>2, OlderTyped
    <3> QED
      BY <3>1, <3>3 DEF NoData, Ages
  <2>2. weather' = [s \in Series |-> weather'[s]]
    BY DEF TimePasses
  <2> QED
    BY <2>1, <2>2 DEF WorldTyped, Dates, TimePasses
<1>7. StampsFollow'
  <2>1. ASSUME NEW p \in Loops, loop[p].stamped PROVE row'.beat <= loop'[p].age
    <3>1. loop[p] \in Cycles /\ row.beat \in Ages(StaleAfter) /\ row.beat <= loop[p].age
          /\ loop[p].at \notin {"idle", "dead"}
      BY <2>1 DEF StampsFollow, LaneTyped, Rows
    <3> QED
      BY <1>2, <1>3, <3>1, OlderTyped, ReadinessAssumption DEF Cycles
  <2> QED
    BY <2>1, <1>3 DEF StampsFollow
<1>8. (AuditsTyped /\ AuditsCompare /\ PromotionIsHosted)'
  BY DEF TimePasses, AuditsTyped, AuditsCompare, PromotionIsHosted
<1> QED
  BY <1>5, <1>6, <1>7, <1>8

LEMMA WorldKeeps ==
  ASSUME ReadinessInd, WorldTurns \/ \E s \in Series : SeriesTurns(s)
  PROVE  ReadinessInd'
<1> USE DEF ReadinessInd
<1>1. (LaneTyped /\ AuditsTyped /\ StampsFollow /\ AuditsCompare /\ PromotionIsHosted)'
  BY DEF WorldTurns, SeriesTurns, LaneTyped, AuditsTyped, StampsFollow, AuditsCompare, PromotionIsHosted
<1>2. CASE WorldTurns
  <2>1. cash' \in Nat
    BY <1>2, ReadinessAssumption DEF WorldTurns, WorldTyped
  <2>2. critical' \in BOOLEAN
    BY <1>2, Zenon DEF WorldTurns, WorldTyped
  <2>3. listed' \in SUBSET Series /\ Dates(weather)'
    BY <1>2 DEF WorldTurns, WorldTyped, Dates
  <2> QED
    BY <1>1, <2>1, <2>2, <2>3 DEF WorldTyped
<1>3. ASSUME NEW s \in Series, SeriesTurns(s) PROVE WorldTyped'
  <2>1. 0 \in Ages(Limit[s])
    BY ReadinessAssumption DEF Ages
  <2>2. Dates(weather)'
    BY <1>3, <2>1 DEF SeriesTurns, WorldTyped, Dates, NoData
  <2> QED
    BY <1>3, <2>2 DEF SeriesTurns, WorldTyped
<1> QED
  BY <1>1, <1>2, <1>3

\* a process goes on, and may stamp or publish the row
LEMMA LoopMoves ==
  ASSUME ReadinessInd, NEW p \in Loops, NEW n \in Cycles, loop' = [loop EXCEPT ![p] = n],
         row' \in Rows, row'.beat \in {0, row.beat}, n.stamped => row'.beat <= n.age,
         n.at \in {"idle", "dead"} => ~n.stamped, n.at \in {"begun", "discovered"} => n.refused = {},
         cash' \in Nat, UNCHANGED <<critical, weather, listed, artifact, promotion>>
  PROVE  ReadinessInd'
<1>1. LaneTyped'
  BY DEF ReadinessInd, LaneTyped
<1>2. StampsFollow'
  <2>1. ASSUME NEW q \in Loops, loop'[q].stamped PROVE row'.beat <= loop'[q].age
    <3>1. CASE q = p
      BY <2>1, <3>1 DEF ReadinessInd, LaneTyped
    <3>2. CASE q # p
      BY <2>1, <3>2 DEF ReadinessInd, LaneTyped, StampsFollow, Cycles, Rows, Ages
    <3> QED
      BY <3>1, <3>2
  <2> QED
    BY <2>1 DEF ReadinessInd, LaneTyped, StampsFollow
<1> QED
  BY <1>1, <1>2
  DEF ReadinessInd, WorldTyped, AuditsTyped, Dates, AuditsCompare, PromotionIsHosted

LEMMA RowsTyped ==
  ASSUME ReadinessInd, NEW linked \in BOOLEAN, NEW shows \in LaneShows
  PROVE  /\ Stamped(row) \in Rows /\ Stamped(row).beat = 0
         /\ Published(row, linked, shows) \in Rows /\ Published(row, linked, shows).beat = row.beat
         /\ \A tradable \in BOOLEAN :
              /\ [Published(row, linked, shows) EXCEPT !.tradable = tradable] \in Rows
              /\ [Published(row, linked, shows) EXCEPT !.tradable = tradable].beat = row.beat
<1>1. row \in Rows /\ 0 \in Ages(StaleAfter)
  BY ReadinessAssumption DEF ReadinessInd, LaneTyped, Ages
<1>2. Stamped(row) \in Rows /\ Stamped(row).beat = 0
  BY <1>1 DEF Stamped, Rows
<1>3. PICK power \in Nat : power = IF linked THEN BalanceSeen ELSE 0
  BY DEF BalanceSeen, ReadinessInd, WorldTyped
<1>4. PICK published : published = Published(row, linked, shows)
  OBVIOUS
<1>5. published = [row EXCEPT !.known = TRUE, !.active = TRUE, !.shows = shows, !.power = power]
  BY <1>3, <1>4 DEF Published
<1>6. published \in Rows /\ published.beat = row.beat
  BY <1>1, <1>5 DEF Rows
<1>7. ASSUME NEW tradable \in BOOLEAN
      PROVE  /\ [published EXCEPT !.tradable = tradable] \in Rows
             /\ [published EXCEPT !.tradable = tradable].beat = row.beat
  BY <1>6 DEF Rows
<1> QED
  BY <1>2, <1>4, <1>6, <1>7

LEMMA CycleKeeps ==
  ASSUME ReadinessInd, NEW p \in Loops,
         \/ \E written \in BOOLEAN : BeginExecutionCycle(p, written)
         \/ \E found \in {"contracts", "stubs", "nothing", "error"} : Discover(p, found)
         \/ EvaluateAll(p) \/ SkipSweep(p) \/ EndSweep(p) \/ Monitor(p) \/ Cache(p) \/ LoopDies(p)
  PROVE  ReadinessInd'
<1> USE DEF Cycles, LanePlaces
<1>1. /\ loop[p] \in Cycles /\ loop \in [Loops -> Cycles] /\ row \in Rows /\ cash \in Nat
      /\ row.beat \in Ages(StaleAfter) /\ 0 \in Ages(StaleAfter)
  BY ReadinessAssumption DEF ReadinessInd, LaneTyped, WorldTyped, Ages, Rows
<1>2. /\ loop[p].stamped => row.beat <= loop[p].age
      /\ loop[p].at \in {"begun", "discovered"} => loop[p].refused = {}
  BY DEF ReadinessInd, StampsFollow
<1>3. ASSUME NEW written \in BOOLEAN, BeginExecutionCycle(p, written) PROVE ReadinessInd'
  <2> PICK linked \in BOOLEAN : linked = (loop[p].linked \/ answering)
    OBVIOUS
  <2> PICK n : n = [AtRest EXCEPT !.at = "begun", !.linked = linked, !.stamped = written]
    OBVIOUS
  <2>1. n \in Cycles /\ n.stamped = written /\ n.age = 0 /\ n.refused = {} /\ n.at = "begun"
    BY <1>1 DEF AtRest
  <2>2. loop' = [loop EXCEPT ![p] = n]
    BY <1>3 DEF BeginExecutionCycle, CycleBegun
  <2>3. row' \in Rows /\ row'.beat \in {0, row.beat} /\ (written => row'.beat <= 0)
    <3>1. CASE written
      <4>1. row' = Stamped(row) /\ "UNKNOWN" \in LaneShows
        BY <1>3, <3>1 DEF BeginExecutionCycle, CycleBegun, LaneShows
      <4>2. Stamped(row) \in Rows /\ Stamped(row).beat = 0
        BY <4>1, RowsTyped
      <4> QED
        BY <4>1, <4>2
    <3>2. CASE ~written
      BY <1>1, <1>3, <3>2 DEF BeginExecutionCycle, CycleBegun
    <3> QED
      BY <3>1, <3>2
  <2> QED
    BY <1>1, <1>3, <2>1, <2>2, <2>3, LoopMoves DEF BeginExecutionCycle
<1>4. ASSUME NEW found \in {"contracts", "stubs", "nothing", "error"}, Discover(p, found) PROVE ReadinessInd'
  <2> PICK n : n = [loop[p] EXCEPT !.at = "discovered"]
    OBVIOUS
  <2>1. n \in Cycles /\ n.stamped = loop[p].stamped /\ n.age = loop[p].age /\ n.refused = {} /\ n.at = "discovered"
    BY <1>1, <1>2, <1>4 DEF Discover
  <2>2. loop' = [loop EXCEPT ![p] = n]
    BY <1>4 DEF Discover, Advance
  <2>3. \A f : Snapshot(loop[p].linked, f) \in LaneShows
    BY DEF Snapshot, LaneShows
  <2>4. PICK tradable \in BOOLEAN : tradable = (found = "contracts")
    OBVIOUS
  <2>5. row' \in Rows /\ row'.beat = row.beat
    <3>1. CASE found = "error"
      <4>1. row' = Published(row, loop[p].linked, Snapshot(loop[p].linked, "contracts"))
        BY <1>4, <3>1 DEF Discover
      <4> QED
        BY <1>1, <2>3, <4>1, RowsTyped
    <3>2. CASE found # "error"
      <4>1. row' = [Published(row, loop[p].linked, Snapshot(loop[p].linked, found)) EXCEPT !.tradable = tradable]
        BY <1>4, <2>4, <3>2 DEF Discover
      <4> QED
        BY <1>1, <2>3, <4>1, RowsTyped
    <3> QED
      BY <3>1, <3>2
  <2> QED
    BY <1>1, <1>2, <1>4, <2>1, <2>2, <2>5, LoopMoves DEF Discover
<1>5. CASE EvaluateAll(p)
  <2> PICK approved \in SUBSET Series : approved = {s \in listed : WithinLimit(s)}
    BY DEF ReadinessInd, WorldTyped
  <2> PICK n : n = [loop[p] EXCEPT !.at = "sweeping", !.approved = approved]
    OBVIOUS
  <2>1. n \in Cycles /\ n.stamped = loop[p].stamped /\ n.age = loop[p].age /\ n.at = "sweeping"
    BY <1>1
  <2>2. loop' = [loop EXCEPT ![p] = n]
    BY <1>1, <1>5 DEF EvaluateAll
  <2>3. UNCHANGED <<row, cash, critical, weather, listed, artifact, promotion>>
    BY <1>5 DEF EvaluateAll
  <2> QED
    BY <1>1, <1>2, <2>1, <2>2, <2>3, LoopMoves
<1>6. CASE SkipSweep(p) \/ EndSweep(p)
  <2> PICK n : n = [loop[p] EXCEPT !.at = "monitoring"]
    OBVIOUS
  <2>1. n \in Cycles /\ n.stamped = loop[p].stamped /\ n.age = loop[p].age /\ n.at = "monitoring"
    BY <1>1
  <2>2. loop' = [loop EXCEPT ![p] = n]
    BY <1>1, <1>6 DEF SkipSweep, EndSweep, Advance
  <2> QED
    BY <1>1, <1>2, <1>6, <2>1, <2>2, LoopMoves DEF SkipSweep, EndSweep
<1>7. CASE Monitor(p)
  <2> PICK n : n = [loop[p] EXCEPT !.at = "caching"]
    OBVIOUS
  <2>1. n \in Cycles /\ n.stamped = loop[p].stamped /\ n.age = loop[p].age /\ n.at = "caching"
    BY <1>1
  <2>2. loop' = [loop EXCEPT ![p] = n]
    BY <1>1, <1>7 DEF Monitor, Advance
  <2>3. row' \in Rows /\ row'.beat \in {0, row.beat}
    BY <1>1, <1>7, RowsTyped DEF Monitor, LaneShows
  <2>4. loop[p].stamped => row'.beat <= loop[p].age
    BY <1>1, <1>2, <2>3 DEF Ages
  <2> QED
    BY <1>1, <1>7, <2>1, <2>2, <2>3, <2>4, LoopMoves DEF Monitor
<1>8. CASE Cache(p)
  <2> PICK linked \in BOOLEAN : linked = loop[p].linked
    BY <1>1
  <2> PICK n : n = [AtRest EXCEPT !.linked = linked]
    OBVIOUS
  <2>1. n \in Cycles /\ n.stamped = FALSE /\ n.at = "idle"
    BY <1>1 DEF AtRest
  <2>2. loop' = [loop EXCEPT ![p] = n]
    BY <1>1, <1>8 DEF Cache
  <2>3. row' \in Rows /\ row'.beat = row.beat
    BY <1>1, <1>8, RowsTyped DEF Cache, LaneShows
  <2> QED
    BY <1>1, <1>8, <2>1, <2>2, <2>3, LoopMoves DEF Cache
<1>9. CASE LoopDies(p)
  <2> PICK n : n = [AtRest EXCEPT !.at = "dead"]
    OBVIOUS
  <2>1. n \in Cycles /\ n.stamped = FALSE /\ n.at = "dead"
    BY <1>1 DEF AtRest
  <2>2. loop' = [loop EXCEPT ![p] = n]
    BY <1>1, <1>9 DEF LoopDies
  <2> QED
    BY <1>1, <1>9, <2>1, <2>2, LoopMoves DEF LoopDies
<1> QED
  BY <1>3, <1>4, <1>5, <1>6, <1>7, <1>8, <1>9

\* the reasons of the gate, and what is behind them
LEMMA BlockersTyped ==
  ASSUME NEW sample
  PROVE  /\ ReleaseBlockers(sample) \in SUBSET Blockers
         /\ "audit" \in ReleaseBlockers(sample) <=> ~artifact.passing
         /\ "heartbeat" \in ReleaseBlockers(sample) => row.beat > StaleAfter
         /\ "stale weather" \in ReleaseBlockers(sample) =>
              listed # {} /\ SystemicallyStale(ProviderData(sample))
         /\ "balance" \in ReleaseBlockers(sample) => ~artifact.balanceOk
<1> DEFINE noBalance == ~BalanceOk
           noProvider == listed # {} /\ Dated(ProviderData(sample)) = {}
           noWeather == listed # {} /\ SystemicallyStale(ProviderData(sample))
<1>1. ReleaseBlockers(sample) =
        If(~artifact.passing, "audit") \cup If(row.known /\ row.beat > StaleAfter, "heartbeat")
        \cup If(critical, "incident") \cup If(noProvider, "provider")
        \cup If(noWeather, "stale weather") \cup If(noBalance /\ ~artifact.balanceOk, "balance")
  BY DEF ReleaseBlockers
<1> HIDE DEF noBalance, noProvider, noWeather
<1>2. /\ ReleaseBlockers(sample) \in SUBSET Blockers
      /\ "audit" \in ReleaseBlockers(sample) <=> ~artifact.passing
      /\ "heartbeat" \in ReleaseBlockers(sample) => row.beat > StaleAfter
      /\ "stale weather" \in ReleaseBlockers(sample) => noWeather
      /\ "balance" \in ReleaseBlockers(sample) => ~artifact.balanceOk
  BY <1>1 DEF If, Blockers
<1> QED
  BY <1>2 DEF noWeather

\* a sample without a single series in time, of as many as are listed or looked at
LEMMA SamplesTell ==
  ASSUME ReadinessInd, NEW sample \in Samples, sample \subseteq Late
  PROVE  Cardinality(Late) >= SampleLimit \/ Late = listed
<1>1. listed \subseteq Series /\ IsFiniteSet(listed) /\ IsFiniteSet(Late) /\ IsFiniteSet(sample)
      /\ sample \subseteq listed /\ Late \subseteq listed
  <2>1. listed \subseteq Series /\ sample \subseteq listed /\ Late \subseteq listed
    BY DEF ReadinessInd, WorldTyped, Samples, Late
  <2> QED
    BY <2>1, ReadinessAssumption, FS_Subset
<1>2. /\ Cardinality(listed) \in Nat /\ Cardinality(Late) \in Nat /\ Cardinality(sample) \in Nat
      /\ Cardinality(sample) <= Cardinality(Late) /\ Cardinality(Late) <= Cardinality(listed)
      /\ Cardinality(Late) = Cardinality(listed) => Late = listed
  BY <1>1, FS_CardinalityType, FS_Subset
<1>3. Cardinality(sample) = IF Cardinality(listed) < SampleLimit THEN Cardinality(listed) ELSE SampleLimit
  BY DEF Samples
<1> QED
  BY <1>2, <1>3, ReadinessAssumption

LEMMA RefusalsHaveCause ==
  ASSUME ReadinessInd, NEW p \in Loops, NEW sample \in Samples
  PROVE  /\ "heartbeat" \in ReleaseBlockers(sample) => loop[p].age > StaleAfter \/ ~loop[p].stamped
         /\ "stale weather" \in ReleaseBlockers(sample) =>
              Cardinality(Late) >= SampleLimit \/ Late = listed
         /\ "balance" \in ReleaseBlockers(sample) => "audit" \in ReleaseBlockers(sample)
<1>1. "heartbeat" \in ReleaseBlockers(sample) => loop[p].age > StaleAfter \/ ~loop[p].stamped
  <2>1. loop[p].stamped => row.beat <= loop[p].age
    BY DEF ReadinessInd, StampsFollow
  <2>2. row.beat \in Ages(StaleAfter) /\ loop[p].age \in Ages(StaleAfter)
    BY DEF ReadinessInd, LaneTyped, Rows, Cycles
  <2>3. row.beat \in Int /\ loop[p].age \in Int /\ StaleAfter \in Int
    BY <2>2, ReadinessAssumption DEF Ages
  <2>4. "heartbeat" \in ReleaseBlockers(sample) => row.beat > StaleAfter
    BY BlockersTyped
  <2>5. CASE loop[p].stamped
    BY <2>1, <2>3, <2>4, <2>5
  <2> QED
    BY <2>5
<1>2. ASSUME "stale weather" \in ReleaseBlockers(sample)
      PROVE  Cardinality(Late) >= SampleLimit \/ Late = listed
  <2>1. sample \subseteq listed /\ listed \subseteq Series
    BY DEF ReadinessInd, WorldTyped, Samples
  <2>2. ASSUME NEW s \in sample, weather[s] # NoData PROVE weather[s] > Limit[s]
    <3>1. s \in Series /\ Sampled(sample)[s] = weather[s]
      BY <2>1 DEF Sampled
    <3>2. s \in Dated(Sampled(sample))
      BY <2>2, <3>1 DEF Dated
    <3>3. ProviderData(sample) = Sampled(sample)
      BY <3>2 DEF ProviderData
    <3>4. SystemicallyStale(Sampled(sample))
      BY <1>2, <3>3, BlockersTyped
    <3>5. s \in Stale(Sampled(sample))
      BY <3>2, <3>4 DEF SystemicallyStale
    <3> QED
      BY <3>1, <3>5 DEF Stale
  <2>3. sample \subseteq Late
    BY <2>1, <2>2 DEF Late
  <2> QED
    BY <2>3, SamplesTell
<1>3. "balance" \in ReleaseBlockers(sample) => "audit" \in ReleaseBlockers(sample)
  BY BlockersTyped DEF ReadinessInd, AuditsCompare
<1> QED
  BY <1>1, <1>2, <1>3

LEMMA GateKeeps ==
  ASSUME ReadinessInd, NEW p \in Loops, NEW sample \in Samples,
         BeginSweep(p, sample) \/ \E s \in Series, fills \in BOOLEAN : Attempt(p, s, sample, fills)
  PROVE  ReadinessInd' /\ loop'[p].refused = ReleaseBlockers(sample)
         /\ \A q \in Loops : q # p => loop'[q] = loop[q]
<1> USE DEF Cycles, LanePlaces
<1>1. /\ loop[p] \in Cycles /\ loop \in [Loops -> Cycles] /\ row \in Rows /\ cash \in Nat
      /\ loop[p].stamped => row.beat <= loop[p].age
  BY DEF ReadinessInd, LaneTyped, WorldTyped, StampsFollow
<1>2. PICK why \in SUBSET Blockers : why = ReleaseBlockers(sample)
  BY BlockersTyped
<1>3. CASE BeginSweep(p, sample)
  <2> PICK place \in {"allowed", "monitoring"} :
         place = IF ReleaseBlockers(sample) = {} THEN "allowed" ELSE "monitoring"
    OBVIOUS
  <2> PICK n : n = [loop[p] EXCEPT !.at = place, !.refused = why]
    OBVIOUS
  <2>1. /\ n \in Cycles /\ n.stamped = loop[p].stamped /\ n.age = loop[p].age /\ n.refused = why
        /\ n.at \in {"allowed", "monitoring"}
    BY <1>1
  <2>2. loop' = [loop EXCEPT ![p] = n]
    BY <1>1, <1>2, <1>3 DEF BeginSweep
  <2>3. UNCHANGED <<row, cash, critical, weather, listed, artifact, promotion>>
    BY <1>3 DEF BeginSweep
  <2> QED
    BY <1>1, <1>2, <2>1, <2>2, <2>3, LoopMoves
<1>4. ASSUME NEW s \in Series, NEW fills \in BOOLEAN, Attempt(p, s, sample, fills)
      PROVE  ReadinessInd' /\ loop'[p].refused = ReleaseBlockers(sample)
             /\ \A q \in Loops : q # p => loop'[q] = loop[q]
  <2> PICK approved \in SUBSET Series : approved = loop[p].approved \ {s}
    BY <1>1
  <2> PICK n : n = [loop[p] EXCEPT !.approved = approved, !.refused = why]
    OBVIOUS
  <2>1. /\ n \in Cycles /\ n.stamped = loop[p].stamped /\ n.age = loop[p].age /\ n.refused = why
        /\ n.at = loop[p].at
    BY <1>1
  <2>2. loop' = [loop EXCEPT ![p] = n]
    BY <1>1, <1>2, <1>4 DEF Attempt
  <2>3. UNCHANGED <<row, critical, weather, listed, artifact, promotion>> /\ loop[p].at = "sweeping"
    BY <1>4 DEF Attempt
  <2>4. cash' \in Nat
    <3>1. fills => cash >= Cost
      BY <1>4 DEF Attempt
    <3>2. cash' = IF fills THEN cash - Cost ELSE cash
      BY <1>4 DEF Attempt
    <3> QED
      BY <1>1, <3>1, <3>2, ReadinessAssumption
  <2> QED
    BY <1>1, <1>2, <2>1, <2>2, <2>3, <2>4, LoopMoves
<1> QED
  BY <1>3, <1>4

\* an audit passes only with the balance as the row shows it
LEMMA AuditedTyped ==
  ASSUME NEW scan, NEW outOfOrder, NEW data, Dates(data)
  PROVE  LET a == Audited(scan, outOfOrder, data) IN
         /\ a \in [passing : BOOLEAN, balanceOk : BOOLEAN, seen : [Series -> Int]]
         /\ a.seen = data /\ (a.passing => a.balanceOk)
<1> DEFINE blocked == HostedBlocked(scan, outOfOrder, data)
           balanced == BalanceOk
<1>1. Audited(scan, outOfOrder, data) = [passing |-> ~blocked, balanceOk |-> balanced, seen |-> data]
  BY DEF Audited
<1>2. ~blocked => balanced
  BY DEF HostedBlocked
<1>3. blocked \in BOOLEAN /\ balanced \in BOOLEAN /\ data \in [Series -> Int]
  BY DEF Dates, HostedBlocked, BalanceOk
<1> HIDE DEF blocked, balanced
<1> QED
  BY <1>1, <1>2, <1>3

LEMMA SampledTyped ==
  ASSUME ReadinessInd, NEW sample, NEW fetched
  PROVE  Dates(Sampled(sample)) /\ Dates(Warmed(sample, fetched))
<1>1. \A s \in Series : weather[s] \in Ages(Limit[s]) \cup {NoData} /\ 0 \in Ages(Limit[s]) /\ weather[s] \in Int
  BY ReadinessAssumption DEF ReadinessInd, WorldTyped, Dates, Ages
<1>2. Dates(Sampled(sample))
  BY <1>1 DEF Dates, Sampled, NoData
<1>3. Dates(Warmed(sample, fetched))
  BY <1>1, <1>2 DEF Dates, Warmed
<1> QED
  BY <1>2, <1>3

LEMMA AuditKeeps ==
  ASSUME ReadinessInd, NEW scan, NEW outOfOrder, NEW sample, NEW fetched,
         Audit(scan, outOfOrder, sample, fetched)
  PROVE  ReadinessInd'
<1>1. PICK data : data = Warmed(sample, fetched)
  OBVIOUS
<1>2. Dates(data)
  BY <1>1, SampledTyped
<1>3. artifact' = Audited(scan, outOfOrder, data)
  BY <1>1 DEF Audit
<1>4. Dates(weather)'
  <2>1. weather' = [s \in Series |-> IF data[s] = NoData THEN weather[s] ELSE data[s]]
    BY <1>1 DEF Audit
  <2> QED
    BY <1>2, <2>1 DEF ReadinessInd, WorldTyped, Dates
<1>5. WorldTyped' /\ LaneTyped' /\ StampsFollow' /\ PromotionIsHosted'
  BY <1>4 DEF Audit, ReadinessInd, WorldTyped, LaneTyped, StampsFollow, PromotionIsHosted
<1>6. AuditsTyped' /\ AuditsCompare'
  BY <1>2, <1>3, AuditedTyped DEF Audit, ReadinessInd, AuditsTyped, AuditsCompare, Dates
<1> QED
  BY <1>5, <1>6 DEF ReadinessInd

\* a promotion writes the artifact, or it is cut off
LEMMA PromoteKeeps ==
  ASSUME ReadinessInd, NEW scan, NEW clean, NEW outOfOrder, NEW reply, NEW sample,
         Promote(scan, clean, outOfOrder, reply, sample)
  PROVE  ReadinessInd'
<1>1. PICK data : data = Sampled(sample)
  OBVIOUS
<1>2. Dates(data)
  BY <1>1, SampledTyped
<1>3. artifact' = Audited(scan, outOfOrder, data) \/ artifact' = artifact
  BY <1>1 DEF Promote
<1>4. /\ artifact' \in [passing : BOOLEAN, balanceOk : BOOLEAN, seen : [Series -> Int]]
      /\ Dates(artifact'.seen) /\ (artifact'.passing => artifact'.balanceOk)
  BY <1>2, <1>3, AuditedTyped DEF ReadinessInd, AuditsTyped, AuditsCompare
<1>5. PICK audited \in BOOLEAN : audited = artifact'.passing
  BY <1>4
<1>6. PICK verdict : verdict = Verdict(LocalVerdict(scan, clean) = "BLOCKED" \/ ~RemotePasses(reply, artifact'.passing),
                                       ScanWarns(scan))
  OBVIOUS
<1>7. promotion' = [verdict |-> verdict, audited |-> audited]
  BY <1>5, <1>6 DEF Promote
<1>8. verdict \in Verdicts /\ (verdict # "BLOCKED" => audited)
  BY <1>5, <1>6 DEF Verdict, RemotePasses, Verdicts
<1>9. AuditsTyped' /\ AuditsCompare' /\ PromotionIsHosted'
  BY <1>4, <1>7, <1>8 DEF AuditsTyped, AuditsCompare, PromotionIsHosted, Dates
<1>10. WorldTyped' /\ LaneTyped' /\ StampsFollow'
  BY DEF Promote, ReadinessInd, WorldTyped, LaneTyped, StampsFollow, Dates
<1> QED
  BY <1>9, <1>10 DEF ReadinessInd

LEMMA ReadinessStepInd == ReadinessInd /\ [ReadinessNext]_readinessVars => ReadinessInd'
<1>1. ReadinessInd /\ UNCHANGED readinessVars => ReadinessInd'
  BY DEF readinessVars, ReadinessInd, LaneTyped, WorldTyped, AuditsTyped, StampsFollow, AuditsCompare,
     PromotionIsHosted, Dates
<1>2. ASSUME ReadinessInd, ReadinessNext PROVE ReadinessInd'
  BY <1>2, TimePassesKeeps, WorldKeeps, CycleKeeps, GateKeeps, AuditKeeps, PromoteKeeps
  DEF ReadinessNext
<1> QED
  BY <1>1, <1>2

LEMMA ReadinessIndTypes == ASSUME ReadinessInd PROVE ReadinessTypeOK
<1>1. /\ row.beat \in Ages(StaleAfter) /\ row.power \in Nat /\ cash \in Nat
      /\ row.shows \in LaneShows /\ loop \in [Loops -> Cycles]
      /\ listed \subseteq Series /\ artifact.passing \in BOOLEAN /\ promotion.verdict \in Verdicts
  BY DEF ReadinessInd, LaneTyped, WorldTyped, AuditsTyped, Rows
<1>2. \A s \in Series : {weather[s], artifact.seen[s]} \subseteq Ages(Limit[s]) \cup {NoData}
  BY DEF ReadinessInd, WorldTyped, AuditsTyped, Dates
<1> QED
  BY <1>1, <1>2 DEF ReadinessTypeOK, Cycles, LanePlaces, LaneShows, Blockers, Verdicts

\* the state in which the gate is asked, and the step that asks
LEMMA RefusalsGrounded ==
  ASSUME ReadinessInd, ReadinessNext, NEW p \in Loops, AsksTheGate(p)
  PROVE  LET why == loop'[p].refused IN
         /\ "heartbeat" \in why => loop[p].age > StaleAfter \/ ~loop[p].stamped
         /\ "stale weather" \in why => Cardinality(Late) >= SampleLimit \/ Late = listed
         /\ "balance" \in why => "audit" \in why
<1>1. loop \in [Loops -> Cycles] /\ loop[p] \in Cycles
  BY DEF ReadinessInd, LaneTyped
<1>2. loop'[p] # loop[p]
  BY DEF AsksTheGate
<1>3. ASSUME NEW q \in Loops, NEW sample \in Samples,
             BeginSweep(q, sample) \/ \E s \in Series, fills \in BOOLEAN : Attempt(q, s, sample, fills)
      PROVE  loop'[p].refused = ReleaseBlockers(sample)
  BY <1>2, <1>3, GateKeeps
<1>4. ASSUME NEW q \in Loops,
             \/ \E written \in BOOLEAN : BeginExecutionCycle(q, written)
             \/ \E found \in {"contracts", "stubs", "nothing", "error"} : Discover(q, found)
             \/ EvaluateAll(q) \/ SkipSweep(q) \/ EndSweep(q) \/ Monitor(q) \/ Cache(q) \/ LoopDies(q)
      PROVE  loop'[p].refused = {}
  <2>1. q = p
    BY <1>1, <1>2, <1>4
    DEF BeginExecutionCycle, CycleBegun, Discover, EvaluateAll, SkipSweep, EndSweep, Monitor, Cache,
        LoopDies, Advance
  <2>2. CASE SkipSweep(q)
    <3>1. loop[p].refused = {} /\ loop' = [loop EXCEPT ![p].at = "monitoring"]
      BY <2>1, <2>2 DEF SkipSweep, Advance, ReadinessInd, StampsFollow
    <3> QED
      BY <1>1, <3>1 DEF Cycles
  <2>3. CASE LoopDies(q)
    BY <1>1, <2>1, <2>3 DEF LoopDies, AtRest
  <2>4. CASE EndSweep(q)
    <3>1. loop[p].at = "sweeping" /\ loop' = [loop EXCEPT ![p].at = "monitoring"]
      BY <2>1, <2>4 DEF EndSweep, Advance
    <3> QED
      BY <1>1, <3>1 DEF Cycles, AsksTheGate
  <2>5. loop[p].at \in {"discovered", "sweeping"}
    BY DEF AsksTheGate
  <2> QED
    BY <1>1, <1>4, <2>1, <2>2, <2>3, <2>4, <2>5
    DEF BeginExecutionCycle, Discover, EvaluateAll, Monitor, Cache
<1>5. CASE TimePasses
  <2>1. loop'[p] = IF loop[p].at \in {"idle", "dead"} THEN loop[p]
                   ELSE [loop[p] EXCEPT !.age = Older(@, StaleAfter)]
    BY <1>5 DEF TimePasses
  <2>2. loop'[p].at = loop[p].at /\ loop'[p].approved = loop[p].approved
    BY <1>1, <2>1 DEF Cycles
  <2> QED
    BY <2>2 DEF AsksTheGate
<1>6. ASSUME UNCHANGED loop PROVE FALSE
  BY <1>2, <1>6
<1> QED
  BY <1>3, <1>4, <1>5, <1>6, RefusalsHaveCause
  DEF ReadinessNext, WorldTurns, SeriesTurns, Audit, Promote

(* For any processes, series, limits and balances: the row, the cycles and *)
(* what is known of the world keep their types.                            *)
THEOREM ReadinessTypes == ReadinessSpec => []ReadinessTypeOK
BY ReadinessInitInd, ReadinessStepInd, ReadinessIndTypes, PTL DEF ReadinessSpec

-----------------------------------------------------------------------------
(* Tuning.                                                                 *)

Statuses == {"PROPOSED", "SOAKING", "REJECTED", "PASSED", "REVERTED"}
Mutations == [key : Keys, old : Values \ {Unset}, new : Proposals, ripe : BOOLEAN, status : Statuses]
ProposalPlaces == {"idle", "read", "logged", "applied", "refused"}
Changes == [at : ProposalPlaces, key : Keys \cup {"none"}, new : Proposals \cup {0},
            old : Nat, read : [Keys -> Values], id : Nat]
Passes == [at : {"idle", "judging", "rolling", "rolled"}, queue : SUBSET Nat, all : SUBSET Nat,
           read : [Keys -> Values], clean : BOOLEAN]

TuningTyped ==
  /\ params \in [Keys -> Values] /\ mutations \in Seq(Mutations) /\ Len(mutations) <= MaxMutations
  /\ optimizer \in [Optimizers -> Changes] /\ holder \in Optimizers \cup {NoOne}
  /\ soak \in Passes /\ soak.all \subseteq Ids /\ soak.queue \subseteq soak.all
  /\ soak.at \in {"rolling", "rolled"} => soak.queue # {}
  /\ apart \in BOOLEAN

\* whoever proposes holds the lock, on a key and with values of that key
LockHeld ==
  \A p \in Optimizers : optimizer[p].at # "idle" =>
    /\ holder = p /\ optimizer[p].key \in Keys /\ optimizer[p].new \in Proposals
    /\ optimizer[p].old \in Values \ {Unset} /\ optimizer[p].id \in 0..Len(mutations)

\* what became of a mutation is known, and it was not rejected
Entered(k) ==
  {id \in Ids : mutations[id].key = k /\ mutations[id].status \notin {"PROPOSED", "REJECTED"}}
RolledOn(k) == soak.at = "rolled" /\ mutations[Judged].key = k

\* a clean pass: what it has judged is newer than what it has not, and a key of
\* which all was reverted is back where the oldest of these found it
Judgements(k) == {id \in soak.all \ soak.queue : mutations[id].key = k}
PassIsClean ==
  soak.clean /\ soak.at # "idle" =>
    /\ Proposing = {}
    /\ \A id \in soak.all \ soak.queue, other \in soak.queue : other < id
    /\ \A id \in soak.queue : mutations[id].status = "SOAKING"
    /\ \A id \in soak.all : mutations[id].status \notin {"PROPOSED", "REJECTED"}
    /\ soak.at = "rolling" => soak.read = params
    /\ soak.at = "rolled" => params[mutations[Judged].key] = mutations[Judged].old
    /\ \A k \in Keys :
         Judgements(k) # {} /\ (\A id \in Judgements(k) : mutations[id].status = "REVERTED")
           /\ ~RolledOn(k)
         => params[k] = mutations[Oldest(Judgements(k))].old

\* a proposal that meets no pass and fails no write: where it stands
ProposalStands(p) ==
  LET o == optimizer[p] IN
  /\ o.old = (IF o.read[o.key] = Unset THEN Default ELSE o.read[o.key])
  /\ params = CASE o.at = "applied" -> [o.read EXCEPT ![o.key] = o.new]
                [] o.at = "refused" -> [o.read EXCEPT ![o.key] = o.old]
                [] OTHER -> o.read
  /\ o.at # "read" =>
       /\ o.id = Len(mutations) /\ o.id \in Ids
       /\ mutations[o.id].key = o.key /\ mutations[o.id].new = o.new
       /\ mutations[o.id].status = "PROPOSED"
\* the value of a key as the log has it, before what is under way
InForce(k, value) ==
  /\ \A p \in Optimizers : optimizer[p].at # "idle" => optimizer[p].read[k] = value
  /\ Proposing = {} /\ ~RolledOn(k) => params[k] = value
LogIsTrue ==
  apart =>
    /\ soak.at # "idle" => soak.clean
    /\ \A id \in Ids : mutations[id].status = "PROPOSED" =>
         \E p \in Optimizers : optimizer[p].at \in {"logged", "applied", "refused"} /\ optimizer[p].id = id
    /\ \A p \in Optimizers : optimizer[p].at # "idle" => ProposalStands(p)
    /\ \A k \in Keys :
         Entered(k) # {} /\ (\A id \in Entered(k) : mutations[id].status # "REVERTED")
         => InForce(k, mutations[Newest(Entered(k))].new)

TuningInd == TuningTyped /\ LockHeld /\ PassIsClean /\ LogIsTrue

\* the newest and the oldest of some ids
LEMMA Extremes ==
  ASSUME NEW n \in Nat, NEW ids \in SUBSET (1..n), ids # {}
  PROVE  /\ Newest(ids) \in ids /\ \A other \in ids : other <= Newest(ids)
         /\ Oldest(ids) \in ids /\ \A other \in ids : Oldest(ids) <= other
<1>1. \E id \in ids : \A other \in ids : id <= other
  BY LeastNatural
<1>2. \E id \in ids : \A other \in ids : other <= id
  <2> DEFINE down == {n - id : id \in ids}
  <2>1. down \in SUBSET Nat /\ down # {}
    <3>1. ASSUME NEW id \in ids PROVE n - id \in Nat
      <4>1. id \in 1..n
        OBVIOUS
      <4> QED
        BY <4>1
    <3> QED
      BY <3>1
  <2>2. PICK d \in down : \A e \in down : d <= e
    <3> HIDE DEF down
    <3> QED
      BY <2>1, LeastNatural
  <2>3. PICK id \in ids : d = n - id
    OBVIOUS
  <2>4. ASSUME NEW other \in ids PROVE other <= id
    <3>1. n - other \in down
      OBVIOUS
    <3> QED
      BY <2>2, <2>3, <3>1
  <2> QED
    BY <2>4
<1> QED
  BY <1>1, <1>2 DEF Newest, Oldest

LEMMA IdsAre ==
  ASSUME TuningTyped
  PROVE  /\ Ids = 1..Len(mutations) /\ Len(mutations) \in Nat
         /\ \A id \in Ids : mutations[id] \in Mutations
BY DEF TuningTyped, Ids

\* a value read or written is a value
LEMMA ValuesAre ==
  /\ Proposals \subseteq Nat /\ Default \in Nat /\ Proposals \subseteq Values \ {Unset}
  /\ Default \in Values \ {Unset} /\ Values \ {Unset} \subseteq Nat
BY TuningAssumption DEF Values, Unset

LEMMA RestingTyped == /\ Resting \in Changes /\ Resting.at = "idle"
                      /\ NoPass \in Passes /\ NoPass.at = "idle" /\ NoPass.queue = {} /\ NoPass.all = {}
<1>1. PICK unset \in [Keys -> Values] : unset = [k \in Keys |-> Unset]
  BY DEF Values
<1>2. Resting = [at |-> "idle", key |-> "none", new |-> 0, old |-> 0, read |-> unset, id |-> 0]
  BY <1>1 DEF Resting, NoLog
<1>3. NoPass = [at |-> "idle", queue |-> {}, all |-> {}, read |-> unset, clean |-> TRUE]
  BY <1>1 DEF NoPass
<1> QED
  BY <1>2, <1>3 DEF Changes, ProposalPlaces, Passes

LEMMA TuningInitInd == ASSUME TuningInit PROVE TuningInd
<1>1. TuningTyped
  <2>1. params \in [Keys -> Values]
    BY DEF TuningInit, Values
  <2>2. mutations \in Seq(Mutations) /\ Len(mutations) = 0
    BY DEF TuningInit
  <2> QED
    BY <2>1, <2>2, RestingTyped, TuningAssumption DEF TuningInit, TuningTyped
<1>2. LockHeld /\ PassIsClean
  BY RestingTyped DEF TuningInit, LockHeld, PassIsClean
<1>3. Ids = {}
  BY DEF TuningInit, Ids
<1>4. LogIsTrue
  BY <1>3, RestingTyped DEF TuningInit, LogIsTrue, Entered
<1> QED
  BY <1>1, <1>2, <1>4 DEF TuningInd

\* the lock keeps proposals apart, and a clean pass apart from all
LEMMA Alone ==
  ASSUME TuningInd, NEW p \in Optimizers, optimizer[p].at # "idle"
  PROVE  /\ holder = p /\ \A q \in Optimizers : q # p => optimizer[q].at = "idle"
         /\ ~(soak.clean /\ soak.at # "idle") /\ (apart => soak.at = "idle")
         /\ optimizer[p] \in Changes
<1>1. holder = p /\ \A q \in Optimizers : q # p => optimizer[q].at = "idle"
  BY DEF TuningInd, LockHeld
<1>2. ~(soak.clean /\ soak.at # "idle")
  BY DEF TuningInd, PassIsClean, Proposing
<1>3. apart => soak.at = "idle"
  BY <1>2 DEF TuningInd, LogIsTrue
<1>4. optimizer[p] \in Changes
  BY DEF TuningInd, TuningTyped
<1> QED
  BY <1>1, <1>2, <1>3, <1>4

\* a step of the proposal of p: what else has to be shown
LEMMA ProposalMoves ==
  ASSUME TuningInd, NEW p \in Optimizers, optimizer[p].at # "idle", TuningTyped', LockHeld',
         UNCHANGED soak, apart' => LogIsTrue'
  PROVE  TuningInd'
<1>1. PassIsClean'
  BY Alone DEF PassIsClean
<1>2. LogIsTrue'
  BY DEF LogIsTrue
<1> QED
  BY <1>1, <1>2 DEF TuningInd

LEMMA ReadConfigKeeps ==
  ASSUME TuningInd, NEW p \in Optimizers, NEW k \in Keys, NEW value \in Proposals,
         ReadConfig(p, k, value)
  PROVE  TuningInd'
<1>1. Proposing = {} /\ \A q \in Optimizers : optimizer[q].at = "idle"
  BY TuningAssumption DEF ReadConfig, LockTaken, TuningInd, LockHeld, Proposing
<1>2. PICK old \in Values \ {Unset} : old = IF params[k] = Unset THEN Default ELSE params[k]
  BY ValuesAre DEF TuningInd, TuningTyped
<1>3. PICK n : n = [Resting EXCEPT !.at = "read", !.key = k, !.new = value, !.read = params, !.old = old]
  OBVIOUS
<1>4. PICK now : now = params
  OBVIOUS
<1>5. PICK unset : unset = [key \in Keys |-> Unset]
  OBVIOUS
<1>6. n = [at |-> "read", key |-> k, new |-> value, old |-> old, read |-> now, id |-> 0]
  BY <1>3, <1>4, <1>5 DEF Resting, NoLog
<1>7. optimizer' = [optimizer EXCEPT ![p] = n]
  BY <1>2, <1>3 DEF ReadConfig
<1>8. n \in Changes
  BY <1>4, <1>6, ValuesAre DEF Changes, ProposalPlaces, TuningInd, TuningTyped
<1>9. soak' \in Passes /\ soak'.at = soak.at /\ soak'.all = soak.all /\ soak'.queue = soak.queue
      /\ (soak.at # "idle" => ~soak'.clean)
  BY DEF ReadConfig, TuningInd, TuningTyped, Passes
<1>10. TuningTyped'
  BY <1>7, <1>8, <1>9 DEF ReadConfig, LockTaken, TuningInd, TuningTyped, Ids
<1>11. LockHeld'
  <2>1. mutations' = mutations /\ holder' = p /\ 0 \in 0..Len(mutations)
    BY IdsAre DEF ReadConfig, LockTaken, TuningInd
  <2>2. optimizer'[p] = n /\ \A q \in Optimizers : q # p => optimizer'[q].at = "idle"
    BY <1>1, <1>7 DEF TuningInd, TuningTyped
  <2> QED
    BY <1>6, <2>1, <2>2 DEF LockHeld
<1>12. PassIsClean'
  BY <1>9 DEF PassIsClean
<1>13. ASSUME apart' PROVE LogIsTrue'
  <2>1. apart /\ soak.at = "idle" /\ soak'.at = "idle"
    BY <1>9, <1>13 DEF ReadConfig
  <2>2. optimizer \in [Optimizers -> Changes] /\ mutations' = mutations /\ params' = params /\ now = params
    BY <1>4 DEF TuningInd, TuningTyped, ReadConfig
  <2>3. \A id \in Ids' : mutations'[id].status # "PROPOSED"
    BY <1>1, <2>1, <2>2 DEF TuningInd, LogIsTrue, Ids
  <2>4. ProposalStands(p)'
    BY <1>2, <1>6, <1>7, <2>2 DEF ProposalStands
  <2>5. ASSUME NEW j \in Keys, Entered(j)' # {}, \A id \in Entered(j)' : mutations'[id].status # "REVERTED"
        PROVE  InForce(j, mutations[Newest(Entered(j))].new)'
    <3>1. Entered(j)' = Entered(j)
      BY <2>2 DEF Entered, Ids
    <3>2. params[j] = mutations[Newest(Entered(j))].new
      BY <1>1, <2>1, <2>2, <2>5, <3>1 DEF TuningInd, LogIsTrue, InForce, RolledOn
    <3>3. p \in Proposing'
      BY <1>6, <1>7, <2>2 DEF Proposing
    <3> QED
      BY <1>1, <1>6, <1>7, <2>2, <3>1, <3>2, <3>3 DEF InForce
  <2> QED
    BY <1>1, <1>7, <2>1, <2>2, <2>3, <2>4, <2>5 DEF LogIsTrue
<1>14. LogIsTrue'
  BY <1>13 DEF LogIsTrue
<1> QED
  BY <1>10, <1>11, <1>12, <1>14 DEF TuningInd

\* the ledger has a new row
LEMMA RowAppended ==
  ASSUME TuningTyped, NEW m \in Mutations, mutations' = Append(mutations, m)
  PROVE  /\ mutations' \in Seq(Mutations) /\ Len(mutations') = Len(mutations) + 1
         /\ Ids' = Ids \cup {Len(mutations) + 1} /\ Len(mutations) + 1 \notin Ids
         /\ \A id \in Ids : mutations'[id] = mutations[id]
         /\ mutations'[Len(mutations) + 1] = m
<1>1. mutations' \in Seq(Mutations) /\ Len(mutations') = Len(mutations) + 1
      /\ \A id \in 1..Len(mutations) : mutations'[id] = mutations[id]
      /\ mutations'[Len(mutations) + 1] = m
  BY DEF TuningTyped
<1>2. Ids' = 1..(Len(mutations) + 1) /\ Ids = 1..Len(mutations) /\ Len(mutations) \in Nat
  BY <1>1 DEF TuningTyped, Ids
<1> QED
  BY <1>1, <1>2

LEMMA RecordKeeps ==
  ASSUME TuningInd, NEW p \in Optimizers, NEW logged \in BOOLEAN, Record(p, logged)
  PROVE  TuningInd'
<1>1. optimizer[p].at = "read" /\ optimizer[p] \in Changes /\ optimizer \in [Optimizers -> Changes]
  BY DEF Record, TuningInd, TuningTyped
<1>2. /\ holder = p /\ optimizer[p].key \in Keys /\ optimizer[p].new \in Proposals
      /\ optimizer[p].old \in Values \ {Unset}
  BY <1>1 DEF TuningInd, LockHeld
<1>3. PICK m : m = [key |-> optimizer[p].key, old |-> optimizer[p].old, new |-> optimizer[p].new,
                    status |-> "PROPOSED", ripe |-> FALSE]
  OBVIOUS
<1>4. m \in Mutations /\ m.key = optimizer[p].key /\ m.new = optimizer[p].new /\ m.status = "PROPOSED"
  BY <1>2, <1>3 DEF Mutations, Statuses
<1>5. mutations' = IF logged THEN Append(mutations, m) ELSE mutations
  BY <1>3 DEF Record
<1>6. TuningTyped /\ Len(mutations) \in Nat /\ Len(mutations) + 1 \in Nat
  BY IdsAre DEF TuningInd
<1>7. PICK id \in Nat : id = IF logged THEN Len(mutations) + 1 ELSE NoLog
  BY <1>6 DEF NoLog
<1>8. PICK n : n = [optimizer[p] EXCEPT !.at = "logged", !.id = id]
  OBVIOUS
<1>9. /\ n \in Changes /\ n.at = "logged" /\ n.id = id /\ n.key = optimizer[p].key /\ n.new = optimizer[p].new
      /\ n.old = optimizer[p].old /\ n.read = optimizer[p].read
  BY <1>1, <1>8 DEF Changes, ProposalPlaces
<1>10. optimizer' = [optimizer EXCEPT ![p] = n]
  BY <1>1, <1>7, <1>8 DEF Record
<1>11. /\ mutations' \in Seq(Mutations) /\ Len(mutations') <= MaxMutations /\ Ids \subseteq Ids'
       /\ id \in 0..Len(mutations') /\ Len(mutations') \in Nat
       /\ \A i \in Ids : mutations'[i] = mutations[i]
  <2>1. CASE logged
    <3>1. Len(mutations) < MaxMutations /\ MaxMutations \in Nat
      BY TuningAssumption DEF Record
    <3>2. mutations' = Append(mutations, m) /\ id = Len(mutations) + 1
      BY <1>5, <1>7, <2>1
    <3>3. /\ mutations' \in Seq(Mutations) /\ Len(mutations') = Len(mutations) + 1 /\ Ids \subseteq Ids'
          /\ \A i \in Ids : mutations'[i] = mutations[i]
      BY <1>4, <1>6, <3>2, RowAppended
    <3>4. Len(mutations') \in Nat /\ id \in 0..Len(mutations') /\ Len(mutations') <= MaxMutations
      <4> DEFINE old == Len(mutations)
                 new == Len(mutations')
      <4>1. old \in Nat /\ new = old + 1 /\ id = old + 1 /\ old < MaxMutations /\ MaxMutations \in Nat
        BY <1>6, <3>1, <3>2, <3>3
      <4> HIDE DEF old, new
      <4>2. new \in Nat /\ id \in 0..new /\ new <= MaxMutations
        BY <4>1
      <4> QED
        BY <4>2 DEF new
    <3> QED
      BY <3>3, <3>4
  <2>2. CASE ~logged
    BY <1>5, <1>6, <1>7, <2>2 DEF NoLog, TuningTyped, Ids
  <2> QED
    BY <2>1, <2>2
<1>12. TuningTyped'
  <2>1. apart' \in BOOLEAN
    BY DEF Record, TuningInd, TuningTyped
  <2>2. UNCHANGED <<params, holder, soak>>
    BY DEF Record
  <2> QED
    BY <1>6, <1>9, <1>10, <1>11, <2>1, <2>2 DEF TuningTyped
<1>13. LockHeld'
  <2>1. ASSUME NEW q \in Optimizers, optimizer'[q].at # "idle" PROVE q = p
    BY <1>1, <1>10, <2>1, Alone
  <2>2. holder' = p /\ optimizer'[p] = n
    BY <1>1, <1>2, <1>10 DEF Record
  <2> QED
    BY <1>2, <1>9, <1>11, <2>1, <2>2 DEF LockHeld
<1>14. ASSUME apart' PROVE LogIsTrue'
  <2>1. apart /\ logged /\ UNCHANGED <<params, soak>> /\ soak.at = "idle"
    BY <1>1, <1>14, Alone DEF Record
  <2>2. /\ Ids' = Ids \cup {id} /\ id \notin Ids /\ \A i \in Ids : mutations'[i] = mutations[i]
        /\ mutations'[id] = m /\ id = Len(mutations')
    BY <1>4, <1>5, <1>6, <1>7, <2>1, RowAppended
  <2>3. \A q \in Optimizers : q # p => optimizer'[q].at = "idle"
    BY <1>1, <1>10, Alone
  <2>4. \A i \in Ids : mutations[i].status # "PROPOSED"
    BY <1>1, <2>1, Alone DEF TuningInd, LogIsTrue
  <2>5. ProposalStands(p)'
    <3>1. optimizer'[p] = n
      BY <1>1, <1>10
    <3>2. ProposalStands(p)
      BY <1>1, <2>1 DEF TuningInd, LogIsTrue
    <3> QED
      BY <1>1, <1>4, <1>9, <2>1, <2>2, <3>1, <3>2 DEF ProposalStands
  <2>6. ASSUME NEW j \in Keys, Entered(j)' # {}, \A i \in Entered(j)' : mutations'[i].status # "REVERTED"
        PROVE  InForce(j, mutations[Newest(Entered(j))].new)'
    <3>1. Entered(j)' = Entered(j)
      BY <1>4, <2>2 DEF Entered
    <3>2. Newest(Entered(j)) \in Ids
      <4>1. Entered(j) \subseteq Ids /\ Entered(j) # {}
        BY <2>6, <3>1 DEF Entered
      <4> QED
        BY <4>1, <1>6, IdsAre, Extremes
    <3>3. InForce(j, mutations[Newest(Entered(j))].new)
      BY <2>1, <2>2, <2>6, <3>1, <3>2 DEF TuningInd, LogIsTrue, Entered
    <3>4. p \in Proposing'
      BY <1>1, <1>9, <1>10 DEF Proposing
    <3> QED
      BY <1>1, <1>9, <1>10, <2>2, <2>3, <3>1, <3>2, <3>3, <3>4 DEF InForce
  <2> QED
    BY <1>9, <1>10, <1>1, <2>1, <2>2, <2>3, <2>4, <2>5, <2>6 DEF LogIsTrue
<1> QED
  BY <1>1, <1>12, <1>13, <1>14, ProposalMoves DEF Record

\* the proposed value is written, or the old one
LEMMA WriteKeeps ==
  ASSUME TuningInd, NEW p \in Optimizers, Apply(p) \/ TakeBack(p)
  PROVE  TuningInd'
<1>1. /\ optimizer[p] \in Changes /\ optimizer \in [Optimizers -> Changes]
      /\ optimizer[p].at \in {"logged", "applied"} /\ optimizer[p].at # "idle"
  BY DEF Apply, TakeBack, TuningInd, TuningTyped
<1>2. /\ holder = p /\ optimizer[p].key \in Keys /\ optimizer[p].new \in Values
      /\ optimizer[p].old \in Values /\ optimizer[p].read \in [Keys -> Values]
      /\ optimizer[p].id \in 0..Len(mutations)
  BY <1>1, ValuesAre DEF TuningInd, LockHeld, Changes
<1>3. PICK place \in {"applied", "refused"} :
        /\ place = IF optimizer[p].at = "logged" THEN "applied" ELSE "refused"
  OBVIOUS
<1>4. PICK n : n = [optimizer[p] EXCEPT !.at = place]
  OBVIOUS
<1>5. /\ n \in Changes /\ n.at = place /\ n.id = optimizer[p].id /\ n.key = optimizer[p].key
      /\ n.new = optimizer[p].new /\ n.old = optimizer[p].old /\ n.read = optimizer[p].read
  BY <1>1, <1>4 DEF Changes, ProposalPlaces
<1>6. /\ optimizer' = [optimizer EXCEPT ![p] = n] /\ optimizer'[p] = n
      /\ UNCHANGED <<mutations, holder, soak, apart>>
  BY <1>1, <1>3, <1>4 DEF Apply, TakeBack
<1>7. params' = [n.read EXCEPT ![n.key] = IF place = "applied" THEN n.new ELSE n.old]
  BY <1>1, <1>3, <1>5 DEF Apply, TakeBack
<1>8. params' \in [Keys -> Values]
  BY <1>2, <1>5, <1>7
<1>9. TuningTyped'
  BY <1>5, <1>6, <1>8 DEF TuningInd, TuningTyped, Ids
<1>10. \A q \in Optimizers : q # p => optimizer'[q].at = "idle"
  BY <1>1, <1>6, Alone
<1>11. LockHeld'
  BY <1>1, <1>2, <1>5, <1>6, <1>10 DEF TuningInd, LockHeld
<1>12. ASSUME apart' PROVE LogIsTrue'
  <2>1. apart /\ soak.at = "idle" /\ Ids' = Ids
    BY <1>1, <1>6, <1>12, Alone DEF Ids
  <2>2. ProposalStands(p)'
    <3>1. ProposalStands(p)
      BY <1>1, <2>1 DEF TuningInd, LogIsTrue
    <3> QED
      BY <1>1, <1>3, <1>5, <1>6, <1>7, <2>1, <3>1 DEF ProposalStands
  <2>3. ASSUME NEW id \in Ids', mutations'[id].status = "PROPOSED"
        PROVE  \E q \in Optimizers : optimizer'[q].at \in {"logged", "applied", "refused"} /\ optimizer'[q].id = id
    BY <1>1, <1>5, <1>6, <2>1, <2>3, Alone DEF TuningInd, LogIsTrue
  <2>4. ASSUME NEW j \in Keys, Entered(j)' # {}, \A i \in Entered(j)' : mutations'[i].status # "REVERTED"
        PROVE  InForce(j, mutations[Newest(Entered(j))].new)'
    <3>1. Entered(j)' = Entered(j)
      BY <1>6 DEF Entered, Ids
    <3>2. InForce(j, mutations[Newest(Entered(j))].new)
      BY <1>6, <2>1, <2>4, <3>1 DEF TuningInd, LogIsTrue
    <3>3. p \in Proposing'
      BY <1>3, <1>5, <1>6 DEF Proposing
    <3> QED
      BY <1>1, <1>5, <1>6, <1>10, <3>1, <3>2, <3>3 DEF InForce
  <2> QED
    BY <1>6, <1>10, <2>1, <2>2, <2>3, <2>4 DEF LogIsTrue
<1> QED
  BY <1>1, <1>6, <1>9, <1>11, <1>12, ProposalMoves

\* a row of the ledger gets another status, or ripens
LEMMA RowChanged ==
  ASSUME TuningTyped, NEW id \in Ids, NEW m \in Mutations, mutations' = [mutations EXCEPT ![id] = m],
         m.key = mutations[id].key, m.old = mutations[id].old, m.new = mutations[id].new
  PROVE  /\ mutations' \in Seq(Mutations) /\ Len(mutations') = Len(mutations) /\ Ids' = Ids
         /\ \A i \in Ids : /\ mutations'[i].key = mutations[i].key /\ mutations'[i].old = mutations[i].old
                           /\ mutations'[i].new = mutations[i].new
                           /\ mutations'[i].status = IF i = id THEN m.status ELSE mutations[i].status
<1>1. Ids = 1..Len(mutations) /\ mutations \in Seq(Mutations)
  BY IdsAre DEF TuningTyped
<1>2. mutations' \in Seq(Mutations) /\ Len(mutations') = Len(mutations)
  BY <1>1
<1>3. Ids' = Ids
  BY <1>1, <1>2 DEF Ids
<1>4. \A i \in Ids : mutations'[i] = IF i = id THEN m ELSE mutations[i]
  BY <1>1
<1> QED
  BY <1>2, <1>3, <1>4

LEMMA StatusWritten ==
  ASSUME TuningTyped, NEW id \in Ids, NEW status \in Statuses, mutations' = StatusSet(id, status)
  PROVE  /\ mutations' \in Seq(Mutations) /\ Len(mutations') = Len(mutations) /\ Ids' = Ids
         /\ \A i \in Ids : /\ mutations'[i].key = mutations[i].key /\ mutations'[i].old = mutations[i].old
                           /\ mutations'[i].new = mutations[i].new
                           /\ mutations'[i].status = IF i = id THEN status ELSE mutations[i].status
<1>1. mutations[id] \in Mutations /\ id # NoLog
  BY IdsAre DEF NoLog
<1>2. PICK m : m = [mutations[id] EXCEPT !.status = status]
  OBVIOUS
<1>3. /\ m \in Mutations /\ m.key = mutations[id].key /\ m.old = mutations[id].old
      /\ m.new = mutations[id].new /\ m.status = status
  BY <1>1, <1>2 DEF Mutations
<1>4. mutations' = [mutations EXCEPT ![id] = m]
  BY <1>1, <1>2 DEF StatusSet
<1>5. /\ mutations' \in Seq(Mutations) /\ Len(mutations') = Len(mutations) /\ Ids' = Ids
      /\ \A i \in Ids : /\ mutations'[i].key = mutations[i].key /\ mutations'[i].old = mutations[i].old
                        /\ mutations'[i].new = mutations[i].new
                        /\ mutations'[i].status = IF i = id THEN m.status ELSE mutations[i].status
  BY <1>3, <1>4, RowChanged
<1> QED
  BY <1>3, <1>5

\* the end of a proposal
LEMMA EndKeeps ==
  ASSUME TuningInd, NEW p \in Optimizers,
         (\E written \in BOOLEAN : Conclude(p, written)) \/ Abandon(p)
  PROVE  TuningInd'
<1>1. /\ optimizer[p] \in Changes /\ optimizer \in [Optimizers -> Changes]
      /\ optimizer[p].at # "idle" /\ TuningTyped
  BY DEF Conclude, Abandon, TuningInd, TuningTyped
<1>2. /\ holder = p /\ optimizer[p].key \in Keys /\ optimizer[p].new \in Proposals
      /\ optimizer[p].old \in Values /\ optimizer[p].id \in 0..Len(mutations)
  BY <1>1, ValuesAre DEF TuningInd, LockHeld
<1>3. /\ optimizer' = [optimizer EXCEPT ![p] = Resting] /\ holder' = NoOne /\ UNCHANGED <<params, soak>>
      /\ apart' \in BOOLEAN /\ (apart' => apart)
  BY <1>2 DEF Conclude, Abandon, TuningInd, TuningTyped
<1>4. PICK status \in {"SOAKING", "REJECTED"} :
        status = IF optimizer[p].at = "applied" THEN "SOAKING" ELSE "REJECTED"
  OBVIOUS
<1>5. mutations' = mutations \/ (optimizer[p].id \in Ids /\ mutations' = StatusSet(optimizer[p].id, status))
  <2>1. optimizer[p].id = NoLog \/ optimizer[p].id \in Ids
    BY <1>1, <1>2, IdsAre DEF NoLog
  <2>2. CASE Abandon(p)
    BY <2>2 DEF Abandon
  <2>3. ASSUME NEW written \in BOOLEAN, Conclude(p, written)
        PROVE  mutations' = mutations \/ (optimizer[p].id \in Ids /\ mutations' = StatusSet(optimizer[p].id, status))
    BY <1>4, <2>1, <2>3 DEF Conclude, StatusSet
  <2> QED
    BY <2>2, <2>3
<1>6. /\ mutations' \in Seq(Mutations) /\ Len(mutations') = Len(mutations) /\ Ids' = Ids
      /\ \A i \in Ids : /\ mutations'[i].key = mutations[i].key /\ mutations'[i].old = mutations[i].old
                        /\ mutations'[i].new = mutations[i].new
  <2>1. CASE mutations' = mutations
    BY <1>1, <2>1 DEF TuningTyped, Ids
  <2>2. CASE optimizer[p].id \in Ids /\ mutations' = StatusSet(optimizer[p].id, status)
    BY <1>1, <2>2, StatusWritten DEF Statuses
  <2> QED
    BY <1>5, <2>1, <2>2
<1>7. TuningTyped'
  BY <1>1, <1>3, <1>6, RestingTyped DEF TuningTyped
<1>8. \A q \in Optimizers : optimizer'[q].at = "idle"
  BY <1>1, <1>3, RestingTyped, Alone
<1>9. LockHeld' /\ Proposing' = {}
  BY <1>8 DEF LockHeld, Proposing
<1>10. ASSUME apart' PROVE LogIsTrue'
  <2>1. apart /\ soak.at = "idle" /\ soak'.at = "idle" /\ ProposalStands(p)
    BY <1>1, <1>3, <1>10, Alone DEF TuningInd, LogIsTrue
  <2>2. \A i \in Ids : mutations[i].status = "PROPOSED" => i = optimizer[p].id /\ optimizer[p].at # "read"
    BY <1>1, <2>1, Alone DEF TuningInd, LogIsTrue
  <2>3. ASSUME NEW j \in Keys, Entered(j) # {}, \A i \in Entered(j) : mutations[i].status # "REVERTED"
        PROVE  Newest(Entered(j)) \in Ids /\ optimizer[p].read[j] = mutations[Newest(Entered(j))].new
    <3>1. Newest(Entered(j)) \in Ids
      <4>1. Entered(j) \subseteq Ids
        BY DEF Entered
      <4> QED
        BY <2>3, <4>1, <1>1, IdsAre, Extremes
    <3> QED
      BY <1>1, <2>1, <2>3, <3>1 DEF TuningInd, LogIsTrue, InForce
  <2>4. CASE Abandon(p)
    <3>1. optimizer[p].at = "read" /\ mutations' = mutations /\ params' = optimizer[p].read
      BY <1>3, <1>10, <2>1, <2>4 DEF Abandon, ProposalStands
    <3>2. \A i \in Ids' : mutations'[i].status # "PROPOSED"
      BY <2>2, <1>6, <3>1
    <3>3. ASSUME NEW j \in Keys, Entered(j)' # {}, \A i \in Entered(j)' : mutations'[i].status # "REVERTED"
          PROVE  InForce(j, mutations[Newest(Entered(j))].new)'
      <4>1. Entered(j)' = Entered(j)
        BY <3>1 DEF Entered, Ids
      <4> QED
        BY <1>8, <2>3, <3>1, <3>3, <4>1 DEF InForce
    <3> QED
      BY <1>8, <2>1, <3>2, <3>3 DEF LogIsTrue
  <2>5. ASSUME NEW written \in BOOLEAN, Conclude(p, written) PROVE LogIsTrue'
    <3> DEFINE o == optimizer[p]
    <3>1. o.at \in {"applied", "refused"} /\ written
      BY <1>10, <2>5 DEF Conclude
    <3>2. /\ o.id \in Ids /\ o.id = Len(mutations) /\ mutations[o.id].key = o.key /\ mutations[o.id].new = o.new
          /\ o.old = (IF o.read[o.key] = Unset THEN Default ELSE o.read[o.key])
          /\ mutations[o.id].status = "PROPOSED"
      BY <2>1, <3>1 DEF ProposalStands
    <3>3. mutations' = StatusSet(o.id, status)
      BY <1>4, <2>5, <3>1 DEF Conclude
    <3>4. \A i \in Ids : mutations'[i].status = IF i = o.id THEN status ELSE mutations[i].status
      BY <1>1, <3>2, <3>3, StatusWritten DEF Statuses
    <3>5. \A i \in Ids' : mutations'[i].status # "PROPOSED"
      BY <1>6, <2>2, <3>4
    <3>6. params' = IF o.at = "applied" THEN [o.read EXCEPT ![o.key] = o.new] ELSE [o.read EXCEPT ![o.key] = o.old]
      BY <1>3, <2>1, <3>1 DEF ProposalStands
    <3>7. ASSUME NEW j \in Keys, Entered(j)' # {}, \A i \in Entered(j)' : mutations'[i].status # "REVERTED"
          PROVE  InForce(j, mutations[Newest(Entered(j))].new)'
      <4>1. o.read \in [Keys -> Values]
        BY <1>1 DEF Changes
      <4>2. CASE o.at = "applied" /\ j = o.key
        <5>1. o.id \in Entered(j)' /\ Entered(j)' \subseteq 1..Len(mutations)
          BY <1>1, <1>4, <1>6, <3>2, <3>4, <4>2, IdsAre DEF Entered
        <5>2. Newest(Entered(j)') \in Entered(j)' /\ o.id <= Newest(Entered(j)') /\ Len(mutations) \in Nat
          BY <1>1, <5>1, IdsAre, Extremes
        <5>3. Newest(Entered(j)') = o.id
          BY <3>2, <5>1, <5>2
        <5>4. params'[j] = mutations'[o.id].new
          BY <1>2, <1>6, <3>2, <3>6, <4>1, <4>2
        <5> QED
          BY <1>8, <5>3, <5>4 DEF InForce
      <4>3. CASE ~(o.at = "applied" /\ j = o.key)
        <5>1. Entered(j)' = Entered(j)
          BY <1>4, <1>6, <3>1, <3>2, <3>4, <4>3 DEF Entered
        <5>2. \A i \in Entered(j) : mutations[i].status # "REVERTED"
          BY <3>2, <3>4, <3>7, <5>1 DEF Entered
        <5>3. Newest(Entered(j)) \in Ids /\ o.read[j] = mutations[Newest(Entered(j))].new
          BY <2>3, <3>7, <5>1, <5>2
        <5>4. o.read[j] # Unset
          <6>1. mutations[Newest(Entered(j))] \in Mutations
            BY <1>1, <5>3, IdsAre
          <6> QED
            BY <5>3, <6>1, ValuesAre DEF Mutations
        <5>5. params'[j] = o.read[j]
          BY <1>2, <3>1, <3>2, <3>6, <4>1, <4>3, <5>4
        <5> QED
          BY <1>6, <1>8, <5>1, <5>3, <5>5 DEF InForce
      <4> QED
        BY <4>2, <4>3
    <3> QED
      BY <1>8, <2>1, <3>5, <3>7 DEF LogIsTrue
  <2> QED
    BY <2>4, <2>5
<1> QED
  BY <1>1, <1>3, <1>7, <1>9, <1>10, ProposalMoves

\* the mutation at hand is the newest of those the pass has left
LEMMA JudgedIs ==
  ASSUME TuningTyped, soak.queue # {}
  PROVE  Judged \in soak.queue /\ Judged \in Ids /\ \A id \in soak.queue : id <= Judged
<1>1. soak.queue \subseteq 1..Len(mutations) /\ Len(mutations) \in Nat /\ soak.queue \subseteq Ids
  BY IdsAre DEF TuningTyped
<1> QED
  BY <1>1, Extremes DEF Judged, NewestFirst

\* time goes by for a mutation
LEMMA RipensKeeps ==
  ASSUME TuningInd, NEW id \in Ids, Ripens(id)
  PROVE  TuningInd'
<1>1. TuningTyped /\ mutations[id] \in Mutations
  BY IdsAre DEF TuningInd
<1>2. PICK m : m = [mutations[id] EXCEPT !.ripe = TRUE]
  OBVIOUS
<1>3. /\ m \in Mutations /\ m.key = mutations[id].key /\ m.old = mutations[id].old
      /\ m.new = mutations[id].new /\ m.status = mutations[id].status
  BY <1>1, <1>2 DEF Mutations
<1>4. mutations' = [mutations EXCEPT ![id] = m] /\ UNCHANGED <<params, optimizer, holder, soak, apart>>
  BY <1>2 DEF Ripens
<1>5. /\ mutations' \in Seq(Mutations) /\ Len(mutations') = Len(mutations) /\ Ids' = Ids
      /\ \A i \in Ids : /\ mutations'[i].key = mutations[i].key /\ mutations'[i].old = mutations[i].old
                        /\ mutations'[i].new = mutations[i].new
                        /\ mutations'[i].status = IF i = id THEN m.status ELSE mutations[i].status
  BY <1>1, <1>3, <1>4, RowChanged
<1>6. \A i \in Ids : mutations'[i].status = mutations[i].status
  BY <1>3, <1>5
<1>7. TuningTyped' /\ LockHeld'
  BY <1>1, <1>4, <1>5 DEF TuningTyped, TuningInd, LockHeld
<1>8. soak.at \in {"rolling", "rolled"} => Judged \in Ids
  BY <1>1, JudgedIs DEF TuningTyped
<1>9. PassIsClean'
  <2>1. ASSUME soak.clean, soak.at # "idle" PROVE PassIsClean'
    <3>1. Judged' = Judged /\ Proposing' = Proposing /\ soak.queue \subseteq Ids /\ soak.all \subseteq Ids
      BY <1>1, <1>4 DEF Judged, Proposing, TuningTyped
    <3>2. \A k \in Keys : Judgements(k)' = Judgements(k) /\ (RolledOn(k)' <=> RolledOn(k))
      BY <1>4, <1>5, <1>8, <3>1 DEF Judgements, RolledOn
    <3>3. \A k \in Keys : Judgements(k) # {} => Oldest(Judgements(k)) \in Ids
      <4>1. ASSUME NEW k \in Keys, Judgements(k) # {} PROVE Oldest(Judgements(k)) \in Ids
        <5>1. Judgements(k) \subseteq Ids
          BY <3>1 DEF Judgements
        <5> QED
          BY <1>1, <4>1, <5>1, IdsAre, Extremes
      <4> QED
        BY <4>1
    <3>4. PassIsClean
      BY DEF TuningInd
    <3>5. ASSUME NEW k \in Keys, Judgements(k)' # {}, ~RolledOn(k)',
                 \A i \in Judgements(k)' : mutations'[i].status = "REVERTED"
          PROVE  params'[k] = mutations'[Oldest(Judgements(k)')].old
      <4>1. \A i \in Judgements(k) : mutations[i].status = "REVERTED"
        BY <1>6, <3>1, <3>2, <3>5 DEF Judgements
      <4> QED
        BY <2>1, <1>4, <1>5, <3>2, <3>3, <3>4, <3>5, <4>1 DEF PassIsClean
    <3> QED
      BY <2>1, <1>4, <1>5, <1>6, <1>8, <3>1, <3>4, <3>5 DEF PassIsClean
  <2> QED
    BY <1>4, <2>1 DEF PassIsClean
<1>10. LogIsTrue'
  <2>1. ASSUME apart PROVE LogIsTrue'
    <3>1. LogIsTrue /\ Proposing' = Proposing /\ Judged' = Judged
      BY <1>4 DEF TuningInd, Proposing, Judged
    <3>2. \A p \in Optimizers : ProposalStands(p) => ProposalStands(p)'
      BY <1>4, <1>5, <1>6 DEF ProposalStands
    <3>3. ASSUME NEW k \in Keys, Entered(k)' # {}, \A i \in Entered(k)' : mutations'[i].status # "REVERTED"
          PROVE  InForce(k, mutations[Newest(Entered(k))].new)'
      <4>1. Entered(k)' = Entered(k) /\ Entered(k) \subseteq Ids
        BY <1>5, <1>6 DEF Entered
      <4>2. Newest(Entered(k)) \in Ids
        BY <1>1, <3>3, <4>1, IdsAre, Extremes
      <4>3. InForce(k, mutations[Newest(Entered(k))].new)
        BY <2>1, <1>6, <3>1, <3>3, <4>1 DEF LogIsTrue
      <4>4. RolledOn(k)' <=> RolledOn(k)
        BY <1>4, <1>5, <1>8, <3>1 DEF RolledOn
      <4> QED
        BY <1>4, <1>5, <3>1, <4>1, <4>2, <4>3, <4>4 DEF InForce
    <3> QED
      BY <2>1, <1>4, <1>5, <1>6, <3>1, <3>2, <3>3 DEF LogIsTrue
  <2> QED
    BY <1>4, <2>1 DEF LogIsTrue
<1> QED
  BY <1>7, <1>9, <1>10 DEF TuningInd

\* a step of the pass that leaves the ledger alone: what the log says of keys
LEMMA LogStays ==
  ASSUME TuningInd, UNCHANGED <<mutations, optimizer>>, apart' => apart,
         apart' /\ soak'.at # "idle" => soak'.clean,
         \A p \in Optimizers : apart' /\ optimizer[p].at # "idle" => params' = params,
         \A k \in Keys : apart' /\ Proposing = {} /\ ~RolledOn(k)' => ~RolledOn(k) /\ params'[k] = params[k]
  PROVE  LogIsTrue'
<1>1. SUFFICES ASSUME apart' PROVE LogIsTrue'
  BY DEF LogIsTrue
<1>2. apart /\ Ids' = Ids /\ Proposing' = Proposing /\ \A k \in Keys : Entered(k)' = Entered(k)
  BY <1>1 DEF Ids, Proposing, Entered
<1>3. \A p \in Optimizers : optimizer'[p].at # "idle" => ProposalStands(p)'
  BY <1>1, <1>2 DEF TuningInd, LogIsTrue, ProposalStands
<1>4. ASSUME NEW k \in Keys, Entered(k)' # {}, \A i \in Entered(k)' : mutations'[i].status # "REVERTED"
      PROVE  InForce(k, mutations[Newest(Entered(k))].new)'
  <2>1. InForce(k, mutations[Newest(Entered(k))].new)
    BY <1>2, <1>4 DEF TuningInd, LogIsTrue
  <2> QED
    BY <1>1, <1>2, <2>1 DEF InForce
<1> QED
  BY <1>1, <1>2, <1>3, <1>4 DEF TuningInd, LogIsTrue

LEMMA BeginPassKeeps == ASSUME TuningInd, BeginSoakPass PROVE TuningInd'
<1>1. PICK all \in SUBSET Ids : all = Soaking
  BY DEF Soaking
<1>2. PICK clean \in BOOLEAN : clean = (Proposing = {})
  OBVIOUS
<1>3. PICK unset \in [Keys -> Values] : unset = [k \in Keys |-> Unset]
  BY DEF Values
<1>4. soak' = [at |-> "judging", queue |-> all, all |-> all, read |-> unset, clean |-> clean]
  BY <1>1, <1>2, <1>3 DEF BeginSoakPass, NoPass
<1>5. soak' \in Passes /\ all \in SUBSET Nat
  <2>1. all \in SUBSET Nat
    BY <1>1, IdsAre DEF TuningInd
  <2> QED
    BY <1>4, <2>1 DEF Passes
<1>6. UNCHANGED <<params, mutations, optimizer, holder>> /\ (apart' => apart /\ clean) /\ apart' \in BOOLEAN
      /\ soak.at = "idle"
  BY <1>2 DEF BeginSoakPass, TuningInd, TuningTyped
<1>7. TuningTyped' /\ LockHeld'
  BY <1>4, <1>5, <1>6 DEF TuningInd, TuningTyped, LockHeld, Ids
<1>8. PassIsClean'
  <2>1. \A k \in Keys : Judgements(k)' = {}
    BY <1>4 DEF Judgements
  <2>2. \A id \in all : mutations'[id].status = "SOAKING"
    BY <1>1, <1>6 DEF Soaking
  <2>3. soak'.clean => Proposing' = {}
    BY <1>2, <1>4, <1>6 DEF Proposing
  <2> QED
    BY <1>4, <2>1, <2>2, <2>3 DEF PassIsClean
<1>9. LogIsTrue'
  BY <1>4, <1>6, LogStays DEF RolledOn
<1> QED
  BY <1>7, <1>8, <1>9 DEF TuningInd

LEMMA DegradedKeeps == ASSUME TuningInd, Degraded PROVE TuningInd'
<1>1. PICK now \in [Keys -> Values] : now = params
  BY DEF TuningInd, TuningTyped
<1>2. soak' = [soak EXCEPT !.at = "rolling", !.read = now] /\ soak.at = "judging" /\ soak.queue # {}
      /\ UNCHANGED <<params, mutations, optimizer, holder, apart>>
  BY <1>1 DEF Degraded, Judging
<1>3. /\ soak' \in Passes /\ soak'.at = "rolling" /\ soak'.read = now /\ soak'.queue = soak.queue
      /\ soak'.all = soak.all /\ soak'.clean = soak.clean
  BY <1>2 DEF TuningInd, TuningTyped, Passes
<1>4. TuningTyped' /\ LockHeld'
  BY <1>2, <1>3 DEF TuningInd, TuningTyped, LockHeld, Ids
<1>5. PassIsClean'
  BY <1>1, <1>2, <1>3 DEF TuningInd, PassIsClean, Proposing, Judgements, RolledOn, Judged
<1>6. LogIsTrue'
  <2>1. apart' /\ soak'.at # "idle" => soak'.clean
    BY <1>2, <1>3 DEF TuningInd, LogIsTrue
  <2> QED
    BY <1>2, <1>3, <2>1, LogStays DEF RolledOn
<1> QED
  BY <1>4, <1>5, <1>6 DEF TuningInd

LEMMA RollBackKeeps == ASSUME TuningInd, NEW written \in BOOLEAN, RollBack(written) PROVE TuningInd'
<1>1. TuningTyped /\ soak.at = "rolling" /\ soak \in Passes /\ soak.queue # {}
  BY DEF RollBack, TuningInd, TuningTyped
<1>2. Judged \in soak.queue /\ Judged \in Ids /\ mutations[Judged] \in Mutations
  BY <1>1, JudgedIs, IdsAre
<1>3. PICK clean \in BOOLEAN : clean = (soak.clean /\ written)
  OBVIOUS
<1>4. soak' = [soak EXCEPT !.at = "rolled", !.clean = clean]
  BY <1>3 DEF RollBack
<1>5. /\ soak' \in Passes /\ soak'.at = "rolled" /\ soak'.queue = soak.queue /\ soak'.all = soak.all
      /\ soak'.clean = clean
  BY <1>1, <1>4 DEF Passes
<1>6. /\ params' = IF written THEN [soak.read EXCEPT ![mutations[Judged].key] = mutations[Judged].old] ELSE params
      /\ UNCHANGED <<mutations, optimizer, holder>> /\ apart' \in BOOLEAN /\ (apart' => apart /\ written)
      /\ Judged' = Judged
  BY <1>1, <1>5 DEF RollBack, TuningTyped, Judged
<1>7. params' \in [Keys -> Values]
  BY <1>1, <1>2, <1>6 DEF TuningTyped, Passes, Mutations
<1>8. TuningTyped' /\ LockHeld'
  BY <1>1, <1>5, <1>6, <1>7 DEF TuningInd, TuningTyped, LockHeld, Ids
<1>9. \A k \in Keys : RolledOn(k)' <=> mutations[Judged].key = k
  BY <1>5, <1>6 DEF RolledOn
<1>10. ASSUME clean
       PROVE  /\ Proposing = {} /\ params'[mutations[Judged].key] = mutations[Judged].old
              /\ \A k \in Keys : ~RolledOn(k)' => params'[k] = params[k]
  <2>1. soak.clean /\ written /\ soak.read = params /\ Proposing = {}
    BY <1>1, <1>3, <1>10 DEF TuningInd, PassIsClean
  <2>2. params' = [params EXCEPT ![mutations[Judged].key] = mutations[Judged].old]
    BY <1>6, <2>1
  <2> QED
    BY <1>1, <1>2, <1>9, <2>1, <2>2 DEF TuningTyped, Mutations
<1>11. PassIsClean'
  <2>1. ASSUME clean PROVE PassIsClean'
    <3>1. PassIsClean /\ soak.clean /\ Proposing' = {} /\ \A k \in Keys : Judgements(k)' = Judgements(k)
      BY <1>3, <1>5, <1>6, <1>10, <2>1 DEF TuningInd, Judgements, Proposing
    <3>2. \A k \in Keys : ~RolledOn(k)
      BY <1>1 DEF RolledOn
    <3> QED
      BY <1>1, <1>5, <1>6, <1>10, <2>1, <3>1, <3>2 DEF PassIsClean
  <2> QED
    BY <1>5, <2>1 DEF PassIsClean
<1>12. LogIsTrue'
  <2>1. apart' => clean
    BY <1>1, <1>3, <1>6 DEF TuningInd, LogIsTrue
  <2>2. \A k \in Keys : ~RolledOn(k)
    BY <1>1 DEF RolledOn
  <2> QED
    BY <1>5, <1>6, <1>10, <2>1, <2>2, LogStays DEF Proposing
<1> QED
  BY <1>8, <1>11, <1>12 DEF TuningInd

LEMMA EndPassKeeps == ASSUME TuningInd, EndSoakPass PROVE TuningInd'
<1>1. TuningTyped' /\ LockHeld'
  BY RestingTyped DEF EndSoakPass, TuningInd, TuningTyped, LockHeld, Ids
<1>2. PassIsClean'
  BY RestingTyped DEF EndSoakPass, PassIsClean
<1>3. LogIsTrue'
  BY RestingTyped, LogStays DEF EndSoakPass, RolledOn
<1> QED
  BY <1>1, <1>2, <1>3 DEF TuningInd

\* the verdict on the mutation at hand
LEMMA DecidedKeeps == ASSUME TuningInd, MarkReverted \/ SoaksOn PROVE TuningInd'
<1>1. TuningTyped /\ soak.at \in {"judging", "rolled"} /\ soak \in Passes /\ soak.queue # {}
  BY DEF MarkReverted, SoaksOn, Judging, TuningInd, TuningTyped
<1>2. PICK status \in {"SOAKING", "PASSED", "REVERTED"} :
        Decided(status) /\ (status = "REVERTED" <=> soak.at = "rolled")
  <2>1. CASE MarkReverted
    BY <2>1 DEF MarkReverted
  <2>2. CASE SoaksOn
    BY <2>2 DEF SoaksOn, Judging
  <2> QED
    BY <2>1, <2>2
<1>3. PICK j \in Ids : j = Judged /\ j \in soak.queue /\ \A id \in soak.queue : id <= j
  BY <1>1, JudgedIs
<1>4. Ids \in SUBSET Nat /\ soak.all \subseteq Ids /\ soak.queue \subseteq soak.all
  BY <1>1, IdsAre DEF TuningTyped
<1>5. PICK rest \in SUBSET Nat : rest = soak.queue \ {j}
  BY <1>1 DEF Passes
<1>6. soak' = [soak EXCEPT !.at = "judging", !.queue = rest]
  BY <1>2, <1>3, <1>5 DEF Decided
<1>7. /\ soak' \in Passes /\ soak'.at = "judging" /\ soak'.queue = rest /\ soak'.all = soak.all
      /\ soak'.clean = soak.clean /\ soak'.read = soak.read
  BY <1>1, <1>6 DEF Passes
<1>8. UNCHANGED <<params, optimizer, holder, apart>>
  BY <1>2 DEF Decided
<1>9. /\ mutations' \in Seq(Mutations) /\ Len(mutations') = Len(mutations) /\ Ids' = Ids
      /\ \A i \in Ids : /\ mutations'[i].key = mutations[i].key /\ mutations'[i].old = mutations[i].old
                        /\ mutations'[i].new = mutations[i].new
                        /\ i # j => mutations'[i].status = mutations[i].status
      /\ (status = "SOAKING" => mutations'[j].status = mutations[j].status)
      /\ (status # "SOAKING" => mutations'[j].status = status)
  <2>1. CASE status = "SOAKING"
    <3>1. mutations' = mutations
      BY <1>2, <2>1 DEF Decided
    <3> QED
      BY <1>1, <2>1, <3>1 DEF TuningTyped, Ids
  <2>2. CASE status # "SOAKING"
    <3>1. mutations' = StatusSet(j, status)
      BY <1>2, <1>3, <2>2 DEF Decided
    <3> QED
      BY <1>1, <2>2, <3>1, StatusWritten DEF Statuses
  <2> QED
    BY <2>1, <2>2
<1>10. TuningTyped' /\ LockHeld'
  BY <1>1, <1>4, <1>5, <1>7, <1>8, <1>9 DEF TuningTyped, TuningInd, LockHeld
<1>11. ASSUME soak.clean
       PROVE  /\ Proposing = {} /\ PassIsClean /\ mutations[j].status = "SOAKING"
              /\ \A id \in soak.all \ soak.queue : j < id
              /\ mutations'[j].status = status /\ (status = "REVERTED" => params[mutations[j].key] = mutations[j].old)
  BY <1>1, <1>2, <1>3, <1>9, <1>11 DEF TuningInd, PassIsClean
<1>12. ASSUME soak.clean PROVE PassIsClean'
  <2>1. \A id \in soak.all \ rest : id = j \/ id \in soak.all \ soak.queue
    BY <1>5
  <2>2. \A id \in soak.all \ rest, other \in rest : other < id
    <3>1. \A other \in rest : other \in soak.queue /\ other # j /\ other <= j /\ other \in Nat /\ j \in Nat
      BY <1>3, <1>4, <1>5
    <3>2. \A id \in soak.all \ soak.queue, other \in soak.queue : other < id
      BY <1>1, <1>12, <1>11 DEF PassIsClean
    <3> QED
      BY <2>1, <3>1, <3>2
  <2>3. \A id \in rest : mutations'[id].status = "SOAKING"
    BY <1>1, <1>3, <1>4, <1>5, <1>9, <1>11, <1>12 DEF PassIsClean
  <2>4. \A id \in soak.all : mutations'[id].status \notin {"PROPOSED", "REJECTED"}
    BY <1>1, <1>4, <1>9, <1>11, <1>12 DEF PassIsClean
  <2>5. ASSUME NEW k \in Keys, Judgements(k)' # {}, \A id \in Judgements(k)' : mutations'[id].status = "REVERTED"
        PROVE  params'[k] = mutations'[Oldest(Judgements(k)')].old
    <3>1. Judgements(k)' = {id \in soak.all \ rest : mutations[id].key = k}
      BY <1>4, <1>7, <1>9 DEF Judgements
    <3>2. CASE mutations[j].key = k
      <4>1. j \in Judgements(k)' /\ Judgements(k)' \subseteq 1..Len(mutations) /\ Len(mutations) \in Nat
        BY <1>1, <1>3, <1>4, <1>5, <3>1, <3>2, IdsAre
      <4>2. \A id \in Judgements(k)' : j <= id /\ j \in Nat /\ id \in Nat
        BY <1>4, <1>11, <1>12, <2>1, <3>1
      <4>3. Oldest(Judgements(k)') \in Judgements(k)' /\ Oldest(Judgements(k)') <= j
        BY <4>1, Extremes
      <4>4. Oldest(Judgements(k)') = j
        BY <4>2, <4>3
      <4>5. status = "REVERTED"
        BY <1>11, <1>12, <2>5, <4>1
      <4> QED
        BY <1>8, <1>9, <1>11, <1>12, <3>2, <4>4, <4>5
    <3>3. CASE mutations[j].key # k
      <4>1. Judgements(k)' = Judgements(k) /\ ~RolledOn(k)
        BY <1>3, <1>5, <3>1, <3>3 DEF Judgements, RolledOn
      <4>2. \A id \in Judgements(k) : id \in Ids /\ mutations[id].status = "REVERTED"
        BY <1>4, <1>9, <2>5, <3>3, <4>1 DEF Judgements
      <4>3. params[k] = mutations[Oldest(Judgements(k))].old
        BY <1>1, <1>11, <1>12, <2>5, <4>1, <4>2 DEF PassIsClean
      <4>4. Oldest(Judgements(k)) \in Ids
        <5>1. Judgements(k) \subseteq 1..Len(mutations) /\ Len(mutations) \in Nat
          BY <1>1, <4>2, IdsAre
        <5> QED
          BY <2>5, <4>1, <4>2, <5>1, Extremes
      <4> QED
        BY <1>8, <1>9, <4>1, <4>3, <4>4
    <3> QED
      BY <3>2, <3>3
  <2>6. Proposing' = {}
    BY <1>8, <1>11, <1>12 DEF Proposing
  <2> QED
    BY <1>7, <2>2, <2>3, <2>4, <2>5, <2>6 DEF PassIsClean
<1>13. PassIsClean'
  BY <1>7, <1>12 DEF PassIsClean
<1>14. ASSUME apart' PROVE LogIsTrue'
  <2>1. apart /\ soak.clean /\ LogIsTrue
    BY <1>1, <1>8, <1>14 DEF TuningInd, LogIsTrue
  <2>2. \A p \in Optimizers : optimizer[p].at = "idle" /\ optimizer'[p].at = "idle"
    BY <1>8, <1>11, <2>1 DEF Proposing
  <2>3. \A id \in Ids : mutations'[id].status # "PROPOSED"
    BY <1>9, <1>11, <2>1, <2>2 DEF LogIsTrue
  <2>4. ASSUME NEW k \in Keys, Entered(k)' # {}, \A i \in Entered(k)' : mutations'[i].status # "REVERTED"
        PROVE  InForce(k, mutations[Newest(Entered(k))].new)'
    <3>1. Entered(k)' = Entered(k) /\ Entered(k) \subseteq Ids
      BY <1>9, <1>11, <2>1 DEF Entered
    <3>2. ~RolledOn(k)
      <4>1. mutations[j].key = k => j \in Entered(k)
        BY <1>11, <2>1 DEF Entered
      <4> QED
        BY <1>2, <1>3, <1>11, <2>1, <2>4, <3>1, <4>1 DEF RolledOn
    <3>3. \A i \in Entered(k) : mutations[i].status # "REVERTED"
      BY <1>9, <1>11, <2>1, <2>4, <3>1
    <3>4. params[k] = mutations[Newest(Entered(k))].new
      BY <1>11, <2>1, <2>4, <3>1, <3>2, <3>3 DEF LogIsTrue, InForce
    <3>5. Newest(Entered(k)) \in Ids
      BY <1>1, <2>4, <3>1, IdsAre, Extremes
    <3> QED
      BY <1>8, <1>9, <2>2, <3>1, <3>4, <3>5 DEF InForce
  <2> QED
    BY <1>7, <1>9, <2>1, <2>2, <2>3, <2>4 DEF LogIsTrue
<1>15. LogIsTrue'
  BY <1>14 DEF LogIsTrue
<1> QED
  BY <1>10, <1>13, <1>15 DEF TuningInd

LEMMA TuningStepInd == TuningInd /\ [TuningNext]_tuningVars => TuningInd'
<1>1. TuningInd /\ UNCHANGED tuningVars => TuningInd'
  BY DEF tuningVars, TuningInd, TuningTyped, LockHeld, PassIsClean, LogIsTrue, Ids, Proposing, Entered,
     RolledOn, Judgements, Judged, ProposalStands, InForce
<1>2. ASSUME TuningInd, TuningNext PROVE TuningInd'
  BY <1>2, ReadConfigKeeps, RecordKeeps, WriteKeeps, EndKeeps, RipensKeeps, BeginPassKeeps, DegradedKeeps,
     RollBackKeeps, DecidedKeeps, EndPassKeeps DEF TuningNext
<1> QED
  BY <1>1, <1>2

LEMMA TuningIndTypes == ASSUME TuningInd PROVE TuningTypeOK
<1>1. TuningTyped
  BY DEF TuningInd
<1>2. \A id \in Ids : mutations[id] \in Mutations
  BY <1>1, IdsAre
<1> QED
  BY <1>1, <1>2 DEF TuningTyped, TuningTypeOK, Mutations, Statuses, Changes, ProposalPlaces, Passes

LEMMA TuningIndLog == ASSUME TuningInd PROVE \A k \in Keys : LogTellsValue(k)
<1> SUFFICES ASSUME NEW k \in Keys, apart, Proposing = {}, soak.at = "idle", Of(k) # {},
                    \A id \in Of(k) : mutations[id].status # "REVERTED"
             PROVE  params[k] = mutations[Newest(Of(k))].new
  BY DEF LogTellsValue
<1>1. \A id \in Ids : mutations[id].status # "PROPOSED"
  BY DEF TuningInd, LogIsTrue, Proposing
<1>2. Of(k) = Entered(k)
  BY <1>1 DEF Of, Entered
<1> QED
  BY <1>2 DEF TuningInd, LogIsTrue, InForce, RolledOn

\* the end of a pass finds every key where its judgements left it
LEMMA TuningStepRestores ==
  ASSUME TuningInd, TuningNext, soak.at = "judging", soak'.at = "idle", soak.clean, NEW k \in Keys,
         soak.all \cap Of(k) # {}, \A id \in soak.all \cap Of(k) : mutations[id].status = "REVERTED"
  PROVE  params[k] = mutations[Oldest(soak.all \cap Of(k))].old
<1>1. soak \in Passes /\ soak.all \subseteq Ids /\ PassIsClean
  BY DEF TuningInd, TuningTyped
<1>2. soak.queue = {}
  <2>1. CASE EndSoakPass
    BY <2>1 DEF EndSoakPass
  <2>2. ASSUME NEW p \in Optimizers,
               \/ \E key \in Keys, value \in Proposals : ReadConfig(p, key, value)
               \/ \E done \in BOOLEAN : Record(p, done) \/ Conclude(p, done)
               \/ Apply(p) \/ TakeBack(p) \/ Abandon(p)
        PROVE  FALSE
    BY <1>1, <2>2 DEF ReadConfig, Record, Conclude, Apply, TakeBack, Abandon, Passes
  <2>3. ASSUME (\E id \in Ids : Ripens(id)) \/ BeginSoakPass \/ Degraded \/ MarkReverted \/ SoaksOn
               \/ \E written \in BOOLEAN : RollBack(written)
        PROVE  FALSE
    BY <1>1, <2>3 DEF Ripens, BeginSoakPass, Degraded, MarkReverted, SoaksOn, Decided, RollBack, Passes
  <2> QED
    BY <2>1, <2>2, <2>3 DEF TuningNext
<1>3. Judgements(k) = soak.all \cap Of(k)
  BY <1>1, <1>2 DEF PassIsClean, Judgements, Of
<1> QED
  BY <1>1, <1>3 DEF PassIsClean, RolledOn

(* For any processes, keys, bounds and values: parameters, ledger and pass *)
(* keep their types.                                                       *)
THEOREM TuningTypes == TuningSpec => []TuningTypeOK
BY TuningInitInd, TuningStepInd, TuningIndTypes, PTL DEF TuningSpec

-----------------------------------------------------------------------------
(* Admission.                                                              *)

\* the fee of an order: a whole number of cents, rounded up once
LEMMA FeeLinear ==
  ASSUME NEW n \in Nat, NEW price \in 0..100, NEW c, c = RawFee(1, price)
  PROVE  c \in Nat /\ RawFee(n, price) = n * c
<1>1. PICK a \in Nat : a = 7 * price * (100 - price)
  <2>1. 7 * price \in Nat /\ 100 - price \in Nat
    OBVIOUS
  <2> QED
    BY <2>1
<1>2. 7 * n * price * (100 - price) = n * (7 * price * (100 - price))
  OBVIOUS
<1> QED
  BY <1>1, <1>2 DEF RawFee

LEMMA RoundedUp ==
  ASSUME NEW raw \in Nat, NEW q, q = (raw + 9999) \div 10000
  PROVE  q \in Nat /\ raw <= 10000 * q /\ 10000 * q <= raw + 9999
<1>1. PICK a \in Nat : a = raw + 9999
  OBVIOUS
<1>2. a \div 10000 \in Nat
  BY QuotientTyped
<1>3. PICK b \in Nat : b = a \div 10000
  BY <1>2
<1>4. a % 10000 \in 0..9999 /\ a = 10000 * b + (a % 10000)
  BY <1>3
<1> QED
  BY <1>1, <1>3, <1>4

LEMMA FeeTyped ==
  ASSUME NEW n \in Nat, NEW price \in 0..100
  PROVE  RawFee(n, price) \in Nat /\ OrderFee(n, price) \in Nat
<1>1. PICK c : c = RawFee(1, price)
  OBVIOUS
<1>2. c \in Nat /\ RawFee(n, price) = n * c
  BY <1>1, FeeLinear
<1>3. n * c \in Nat
  BY <1>2
<1>4. PICK raw \in Nat : raw = RawFee(n, price)
  BY <1>2, <1>3
<1>5. OrderFee(n, price) = (raw + 9999) \div 10000
  BY <1>4 DEF OrderFee
<1>6. OrderFee(n, price) \in Nat
  BY <1>5, RoundedUp
<1> QED
  BY <1>4, <1>6

LEMMA FeeCeiled ==
  ASSUME NEW n \in Nat, NEW price \in 0..100, NEW raw, NEW fee,
         raw = RawFee(n, price), fee = OrderFee(n, price)
  PROVE  raw <= 10000 * fee /\ 10000 * fee <= raw + 9999
<1>1. raw \in Nat
  BY FeeTyped
<1> QED
  BY <1>1, RoundedUp DEF OrderFee

\* more contracts never cost less, and none cost nothing
LEMMA CostRises ==
  ASSUME NEW n \in Nat, NEW k \in Nat, k <= n, NEW price \in 0..100
  PROVE  /\ OrderCost(n, price) \in Nat /\ OrderCost(k, price) <= OrderCost(n, price)
<1>1. PICK c \in Nat : c = RawFee(1, price)
  <2>1. RawFee(1, price) \in Nat
    BY FeeTyped
  <2> QED
    BY <2>1
<1>2. PICK few, many \in Nat : few = OrderFee(k, price) /\ many = OrderFee(n, price)
  <2>1. OrderFee(k, price) \in Nat /\ OrderFee(n, price) \in Nat
    BY FeeTyped
  <2> QED
    BY <2>1
<1>3. RawFee(k, price) = k * c /\ RawFee(n, price) = n * c
  BY <1>1, FeeLinear
<1>4. k * c \in Nat /\ n * c \in Nat /\ k * c <= n * c
  BY <1>1, ProductIsMonotone
<1>5. 10000 * few <= k * c + 9999 /\ n * c <= 10000 * many
  BY <1>2, <1>3, FeeCeiled
<1>6. few <= many
  BY <1>2, <1>4, <1>5
<1>7. k * price \in Nat /\ n * price \in Nat /\ k * price <= n * price
  BY ProductIsMonotone
<1> QED
  BY <1>2, <1>6, <1>7 DEF OrderCost

LEMMA CostTyped ==
  ASSUME NEW n \in Nat, NEW price \in 0..100
  PROVE  OrderCost(n, price) \in Nat
<1>1. OrderFee(n, price) \in Nat
  BY FeeTyped
<1>2. n * price \in Nat
  OBVIOUS
<1> QED
  BY <1>1, <1>2 DEF OrderCost

LEMMA NothingIsFree ==
  ASSUME NEW price \in 0..100
  PROVE  OrderCost(0, price) = 0
<1>1. PICK c : c = RawFee(1, price)
  OBVIOUS
<1>2. c \in Nat /\ RawFee(0, price) = 0 * c
  BY <1>1, FeeLinear
<1>3. RawFee(0, price) = 0 /\ 0 * price = 0
  BY <1>2
<1> QED
  BY <1>3 DEF OrderCost, OrderFee

\* what can be paid for
LEMMA AffordableIs ==
  ASSUME NEW price \in 0..100, NEW budget \in Nat
  PROVE  /\ Affordable(price, budget) \in 0..MaxQty
         /\ \A n \in Nat : n <= Affordable(price, budget) => OrderCost(n, price) <= budget
<1> DEFINE S == {n \in 0..MaxQty : OrderCost(n, price) <= budget}
           Short == {k \in 0..MaxQty : MaxQty - k \in S}
<1>1. MaxQty \in Nat /\ 0 \in S
  <2>1. OrderCost(0, price) = 0
    BY NothingIsFree
  <2> QED
    BY <2>1 DEF MaxQty
<1>2. Short \in SUBSET Nat /\ MaxQty \in Short
  BY <1>1
<1>3. PICK k \in Short : \A other \in Short : k <= other
  BY <1>2, LeastNatural
<1>4. ASSUME NEW n \in S PROVE MaxQty - k >= n
  <2>1. MaxQty - n \in Short /\ n \in Int
    BY <1>1
  <2>2. k <= MaxQty - n /\ k \in Int
    BY <1>1, <1>3, <2>1
  <2> QED
    BY <1>1, <2>1, <2>2
<1>5. MaxQty - k \in S
  BY <1>3
<1> HIDE DEF S, Short
<1>6. Max(S) \in S
  BY <1>4, <1>5 DEF Max
<1>7. PICK most : most = Max(S)
  OBVIOUS
<1>8. most \in 0..MaxQty /\ OrderCost(most, price) <= budget
  BY <1>6, <1>7 DEF S
<1>9. ASSUME NEW n \in Nat, n <= most PROVE OrderCost(n, price) <= budget
  <2>1. most \in Nat
    BY <1>1, <1>8
  <2>2. OrderCost(n, price) \in Nat /\ OrderCost(most, price) \in Nat
    BY <2>1, CostTyped
  <2>3. OrderCost(n, price) <= OrderCost(most, price)
    BY <1>9, <2>1, CostRises
  <2> QED
    BY <1>8, <2>2, <2>3
<1>10. Affordable(price, budget) = most
  BY <1>7 DEF Affordable, S
<1> QED
  BY <1>8, <1>9, <1>10

\* the hurdle of one contract is the hurdle of many: their fee is rounded up once
LEMMA HurdleScales ==
  ASSUME NEW n \in Nat, NEW price \in 0..100, NEW prob \in Int, NetEdge(prob, price) >= 25 * EdgeFloor
  PROVE  RoundTrip(n, prob, price) >= 25 * EdgeFloor * n
<1>1. PICK c \in Nat : c = RawFee(1, price)
  <2>1. RawFee(1, price) \in Nat
    BY FeeTyped
  <2> QED
    BY <2>1
<1>2. PICK one, all \in Nat : one = OrderFee(1, price) /\ all = OrderFee(n, price)
  <2>1. OrderFee(1, price) \in Nat /\ OrderFee(n, price) \in Nat
    BY FeeTyped
  <2> QED
    BY <2>1
<1>3. RawFee(n, price) = n * c
  BY <1>1, FeeLinear
<1>4. PICK d \in Int : d = prob - price
  OBVIOUS
<1>5. c <= 10000 * one
  BY <1>1, <1>2, FeeCeiled
<1>6. PICK x, y \in Nat : x = n * c /\ y = n * one
  BY <1>1, <1>2
<1>7. 10000 * all <= x + 9999
  BY <1>1, <1>2, <1>6, <1>3, FeeCeiled
<1>8. x <= 10000 * y
  <2>1. n * c \in Nat /\ c * n <= (10000 * one) * n
    BY <1>1, <1>2, <1>5, ProductIsMonotone
  <2>2. (10000 * one) * n = 10000 * y /\ c * n = x
    BY <1>1, <1>2, <1>6
  <2> QED
    BY <2>1, <2>2
<1>9. all <= y
  BY <1>2, <1>6, <1>7, <1>8
<1>10. 25 * d - 37 * one >= 300
  BY <1>2, <1>4 DEF NetEdge, RoundTrip, EdgeFloor
<1>11. PICK rest \in Nat : 25 * d = 300 + 37 * one + rest
  <2>1. 25 * d - 300 - 37 * one \in Nat
    BY <1>2, <1>4, <1>10
  <2>2. 25 * d = 300 + 37 * one + (25 * d - 300 - 37 * one)
    BY <1>2, <1>4
  <2> QED
    BY <2>1, <2>2
<1>12. 25 * n * d = 300 * n + 37 * y + n * rest
  <2>1. 25 * n * d = n * (25 * d)
    BY <1>4
  <2>2. n * (300 + 37 * one + rest) = 300 * n + 37 * (n * one) + n * rest
    BY <1>2, <1>11
  <2> QED
    BY <1>2, <1>6, <1>11, <2>1, <2>2
<1>13. n * rest \in Nat
  BY <1>11
<1>14. RoundTrip(n, prob, price) = 25 * n * d - 37 * all
  BY <1>2, <1>4 DEF RoundTrip
<1>15. 25 * EdgeFloor * n = 300 * n
  BY DEF EdgeFloor
<1> QED
  BY <1>2, <1>6, <1>9, <1>12, <1>13, <1>14, <1>15

LEMMA ProbTyped ==
  ASSUME NEW m \in Shapes, NEW side \in Sides
  PROVE  /\ Guarded(m) \in 0..100 /\ Prob(m, side) \in 0..100 /\ Ask(m, side) \in 0..100
         /\ Confidence(m) \in 0..100 /\ DivergenceSize(m) \in Nat /\ Gap(m) \in 0..100
<1>1. PICK gap \in 0..100 : gap = Gap(m)
  BY DEF Gap, Greater, Shapes
<1>2. (90 * (gap - 20)) \div 100 \in Int /\ (gap > 20 => (90 * (gap - 20)) \div 100 \in Nat)
  BY <1>1, QuotientTyped
<1>3. (80 * (gap - 20)) \div 100 \in Int /\ (gap > 20 => (80 * (gap - 20)) \div 100 \in Nat)
  BY <1>1, QuotientTyped
<1>4. Confidence(m) \in 0..100
  BY <1>1, <1>2 DEF Confidence, Greater
<1>5. DivergenceSize(m) \in Nat
  BY <1>1, <1>3 DEF DivergenceSize, Greater
<1>6. PICK trust \in 0..100, blend \in 0..100 : trust = Confidence(m) /\ blend = m.blend
  BY <1>4 DEF Shapes
<1>7. PICK x \in Int : x = ((blend - 50) * trust) \div 100
  <2>1. (blend - 50) * trust \in Int
    OBVIOUS
  <2>2. ((blend - 50) * trust) \div 100 \in Int
    BY <2>1
  <2> QED
    BY <2>2
<1>8. Guarded(m) \in 0..100
  <2>1. Guarded(m) = IF trust = 100 THEN blend ELSE Within(3, 50 + x, 97)
    BY <1>6, <1>7 DEF Guarded
  <2> QED
    BY <2>1 DEF Within, Greater, Lesser
<1> QED
  BY <1>1, <1>4, <1>5, <1>8 DEF Prob, Ask, Sides, Shapes

\* a round trip is worth more the likelier the side, and most when it is sure
LEMMA RoundTripIs ==
  ASSUME NEW n \in Nat, NEW price \in 0..100, NEW prob \in 0..100
  PROVE  /\ RoundTrip(n, prob, price) \in Int /\ RoundTrip(n, 100, price) \in Int
         /\ RoundTrip(n, prob, price) <= RoundTrip(n, 100, price)
<1>1. PICK fee \in Nat : fee = OrderFee(n, price)
  <2>1. OrderFee(n, price) \in Nat
    BY FeeTyped
  <2> QED
    BY <2>1
<1>2. PICK more \in Nat : more = n * (100 - prob)
  <2>1. n * (100 - prob) \in Nat
    OBVIOUS
  <2> QED
    BY <2>1
<1>3. PICK low \in Int : low = n * (prob - price)
  OBVIOUS
<1>4. n * (100 - price) = low + more
  BY <1>2, <1>3
<1>5. 25 * n * (prob - price) = 25 * low /\ 25 * n * (100 - price) = 25 * (low + more)
  BY <1>3, <1>4
<1>6. /\ RoundTrip(n, prob, price) = 25 * low - 37 * fee
      /\ RoundTrip(n, 100, price) = 25 * (low + more) - 37 * fee
  BY <1>1, <1>5 DEF RoundTrip
<1> QED
  BY <1>1, <1>2, <1>3, <1>6

LEMMA KellyTyped ==
  ASSUME NEW n \in Nat, NEW price \in 0..100, NEW prob \in 0..100
  PROVE  Kelly(n, prob, price) \in Nat
<1>1. PICK k \in Nat : k = Greater(1, n)
  BY DEF Greater
<1>2. PICK edge \in Int, best \in Int :
        edge = RoundTrip(k, prob, price) /\ best = RoundTrip(k, 100, price) /\ edge <= best
  <2>1. /\ RoundTrip(k, prob, price) \in Int /\ RoundTrip(k, 100, price) \in Int
        /\ RoundTrip(k, prob, price) <= RoundTrip(k, 100, price)
    BY RoundTripIs
  <2> QED
    BY <2>1
<1>3. Kelly(n, prob, price) = IF edge <= 0 THEN 0 ELSE (1000 * edge) \div best
  BY <1>1, <1>2 DEF Kelly
<1>4. CASE edge > 0
  <2>1. 1000 * edge \in Nat /\ best \in Nat /\ best > 0
    BY <1>2, <1>4
  <2>2. (1000 * edge) \div best \in Nat
    BY <2>1, QuotientTyped
  <2> QED
    BY <1>2, <1>3, <1>4, <2>2
<1> QED
  BY <1>2, <1>3, <1>4

LEMMA MultiplierTyped ==
  ASSUME NEW m \in Shapes PROVE Multiplier(m) \in Nat
<1>1. PICK a, b, c \in Nat : a = ConvergenceSize(m) /\ b = DivergenceSize(m) /\ c = m.certainty
  <2>1. DivergenceSize(m) \in Nat
    BY ProbTyped DEF Sides
  <2>2. ConvergenceSize(m) \in Nat /\ m.certainty \in Nat
    BY DEF ConvergenceSize, Shapes
  <2> QED
    BY <2>1, <2>2
<1>2. PICK product \in Nat : product = a * b * c
  <2>1. a * b \in Nat
    OBVIOUS
  <2> QED
    BY <2>1
<1>3. PICK size \in Nat : size = product \div 10000
  <2>1. product \div 10000 \in Nat
    BY QuotientTyped
  <2> QED
    BY <2>1
<1>4. size \div 2 \in Nat
  BY QuotientTyped
<1>5. Multiplier(m) = IF m.sameEvent THEN size \div 2 ELSE size
  BY <1>1, <1>2, <1>3 DEF Multiplier
<1> QED
  BY <1>4, <1>5

LEMMA SpendTyped ==
  ASSUME NEW fraction \in Nat, NEW kelly \in Nat, NEW multiplier \in Nat, NEW prob \in 0..100
  PROVE  Spend(fraction, kelly, multiplier, prob) \in Nat
<1>1. PICK a \in Nat : a = fraction * kelly * multiplier
  <2>1. fraction * kelly \in Nat
    OBVIOUS
  <2> QED
    BY <2>1
<1>2. PICK b \in Nat : b = a \div 1000
  <2>1. a \div 1000 \in Nat
    BY QuotientTyped
  <2> QED
    BY <2>1
<1>3. PICK c \in Nat : c = b * FavoriteScaler(prob)
  <2>1. FavoriteScaler(prob) \in Nat
    BY DEF FavoriteScaler
  <2> QED
    BY <2>1
<1>4. PICK share \in Nat : share = c \div 100
  <2>1. c \div 100 \in Nat
    BY QuotientTyped
  <2> QED
    BY <2>1
<1>5. PICK d \in Nat : d = share * Bankroll
  BY AdmissionAssumption
<1>6. d \div 10000 \in Nat
  BY QuotientTyped
<1> QED
  BY <1>1, <1>2, <1>3, <1>4, <1>5, <1>6 DEF Spend

LEMMA FromBookTyped ==
  ASSUME NEW n \in Nat, NEW m \in Shapes, NEW prob \in 0..100, NEW price \in 1..100, NEW spend \in Nat
  PROVE  FromBook(n, m, prob, price, spend) \in Nat
<1>1. price \in 0..100
  OBVIOUS
<1>2. PICK raw \in Nat : raw = RawFee(1, price)
  <2>1. RawFee(1, price) \in Nat
    BY <1>1, FeeTyped
  <2> QED
    BY <2>1
<1>3. PICK d \in Nat : d = 10000 * price + raw /\ d > 0
  OBVIOUS
<1>4. PICK a \in Nat : a = 10000 * spend
  OBVIOUS
<1>5. a \div d \in Nat
  BY <1>3, QuotientTyped
<1>6. m.depth \in Nat
  BY DEF Shapes
<1> QED
  BY <1>2, <1>3, <1>4, <1>5, <1>6 DEF FromBook, Lesser

LEMMA ResizeTyped ==
  ASSUME NEW n \in Nat, NEW m \in Shapes, NEW kelly \in Nat, NEW prob \in 0..100, NEW price \in 1..100
  PROVE  Resize(n, m, kelly, prob, price) \in Nat
<1>1. price \in 0..100
  OBVIOUS
<1>2. PICK k \in Nat : k = Greater(1, n) /\ k > 0
  BY DEF Greater
<1>3. PICK fraction \in Nat : fraction = Kelly(n, prob, price)
  <2>1. Kelly(n, prob, price) \in Nat
    BY <1>1, KellyTyped
  <2> QED
    BY <2>1
<1>4. PICK spend \in Nat : spend = Spend(fraction, kelly, Multiplier(m), prob)
  <2>1. Multiplier(m) \in Nat
    BY MultiplierTyped
  <2>2. Spend(fraction, kelly, Multiplier(m), prob) \in Nat
    BY <2>1, SpendTyped
  <2> QED
    BY <2>2
<1>5. PICK fee \in Nat : fee = OrderFee(k, price)
  <2>1. OrderFee(k, price) \in Nat
    BY <1>1, FeeTyped
  <2> QED
    BY <2>1
<1>6. PICK cost \in Nat : cost = 25 * k * price + 37 * fee /\ cost > 0
  <2>1. k * price \in Nat /\ 1 * price <= k * price
    BY <1>2, ProductIsMonotone
  <2>2. 25 * k * price = 25 * (k * price)
    OBVIOUS
  <2> QED
    BY <2>1, <2>2
<1>7. PICK paid \in Nat : paid = 25 * k * spend
  <2>1. 25 * k \in Nat
    OBVIOUS
  <2> QED
    BY <2>1
<1>8. PICK bought \in Nat : bought = paid \div cost
  <2>1. paid \div cost \in Nat
    BY <1>6, QuotientTyped
  <2> QED
    BY <2>1
<1>9. PICK taken \in Nat : taken = FromBook(bought, m, prob, price, spend)
  <2>1. FromBook(bought, m, prob, price, spend) \in Nat
    BY FromBookTyped
  <2> QED
    BY <2>1
<1>10. Resize(n, m, kelly, prob, price) = IF fraction = 0 THEN 0 ELSE Lesser(taken, MaxQty)
  BY <1>2, <1>3, <1>4, <1>5, <1>6, <1>7, <1>8, <1>9 DEF Resize
<1> QED
  BY <1>10 DEF Lesser, MaxQty

\* of a higher Kelly fraction more is spent
LEMMA SpendRises ==
  ASSUME NEW fraction \in Nat, NEW less \in Nat, NEW more \in Nat, less <= more,
         NEW multiplier \in Nat, NEW prob \in 0..100
  PROVE  Spend(fraction, less, multiplier, prob) <= Spend(fraction, more, multiplier, prob)
<1>1. PICK a, b \in Nat :
        a = fraction * less * multiplier /\ b = fraction * more * multiplier /\ a <= b
  <2>1. PICK f \in Nat : f = fraction * multiplier
    OBVIOUS
  <2>2. fraction * less * multiplier = less * f /\ fraction * more * multiplier = more * f
    BY <2>1
  <2>3. less * f \in Nat /\ more * f \in Nat /\ less * f <= more * f
    BY ProductIsMonotone
  <2> QED
    BY <2>2, <2>3
<1>2. PICK c, d \in Nat : c = a \div 1000 /\ d = b \div 1000 /\ c <= d
  <2>1. a \div 1000 \in Nat /\ b \div 1000 \in Nat /\ a \div 1000 <= b \div 1000
    BY <1>1, QuotientIsMonotone
  <2> QED
    BY <2>1
<1>3. PICK scale \in Nat : scale = FavoriteScaler(prob)
  BY DEF FavoriteScaler
<1>4. PICK e, g \in Nat : e = c * scale /\ g = d * scale /\ e <= g
  <2>1. c * scale \in Nat /\ d * scale \in Nat /\ c * scale <= d * scale
    BY <1>2, ProductIsMonotone
  <2> QED
    BY <2>1
<1>5. PICK h, i \in Nat : h = e \div 100 /\ i = g \div 100 /\ h <= i
  <2>1. e \div 100 \in Nat /\ g \div 100 \in Nat /\ e \div 100 <= g \div 100
    BY <1>4, QuotientIsMonotone
  <2> QED
    BY <2>1
<1>6. PICK p, q \in Nat : p = h * Bankroll /\ q = i * Bankroll /\ p <= q
  <2>1. h * Bankroll \in Nat /\ i * Bankroll \in Nat /\ h * Bankroll <= i * Bankroll
    BY <1>5, ProductIsMonotone, AdmissionAssumption
  <2> QED
    BY <2>1
<1>7. p \div 10000 <= q \div 10000
  BY <1>6, QuotientIsMonotone
<1> QED
  BY <1>1, <1>2, <1>3, <1>4, <1>5, <1>6, <1>7 DEF Spend

\* and more is taken from the book
LEMMA FromBookRises ==
  ASSUME NEW n \in Nat, NEW o \in Nat, n <= o, NEW m \in Shapes,
         NEW prob \in 0..100, NEW price \in 1..100,
         NEW less \in Nat, NEW more \in Nat, less <= more
  PROVE  FromBook(n, m, prob, price, less) <= FromBook(o, m, prob, price, more)
<1>1. PICK raw \in Nat : raw = RawFee(1, price)
  <2>1. price \in 0..100
    OBVIOUS
  <2>2. RawFee(1, price) \in Nat
    BY <2>1, FeeTyped
  <2> QED
    BY <2>2
<1>2. PICK d \in Nat : d = 10000 * price + raw /\ d > 0
  OBVIOUS
<1>3. PICK a, b \in Nat : a = (10000 * less) \div d /\ b = (10000 * more) \div d /\ a <= b
  <2>1. 10000 * less \in Nat /\ 10000 * more \in Nat /\ 10000 * less <= 10000 * more
    OBVIOUS
  <2>2. /\ (10000 * less) \div d \in Nat /\ (10000 * more) \div d \in Nat
        /\ (10000 * less) \div d <= (10000 * more) \div d
    BY <1>2, <2>1, QuotientIsMonotone
  <2> QED
    BY <2>2
<1>4. m.depth \in Nat
  BY DEF Shapes
<1>5. PICK gain \in Int : gain = 10000 * (prob - price)
  OBVIOUS
<1>6. /\ FromBook(n, m, prob, price, less) =
           IF m.depth = 0 THEN n ELSE IF gain < raw THEN 0 ELSE Lesser(n, Lesser(m.depth, a))
      /\ FromBook(o, m, prob, price, more) =
           IF m.depth = 0 THEN o ELSE IF gain < raw THEN 0 ELSE Lesser(o, Lesser(m.depth, b))
  BY <1>1, <1>2, <1>3, <1>5 DEF FromBook
<1>7. Lesser(n, Lesser(m.depth, a)) <= Lesser(o, Lesser(m.depth, b))
  BY <1>3, <1>4 DEF Lesser
<1> QED
  BY <1>6, <1>7

(* One round of solve_optimal_size, from the same number of contracts, does *)
(* not buy more for a lower Kelly fraction: whatever the market, the book,  *)
(* the account and the rounding of the order's fee.  Five rounds on end may *)
(* do otherwise, since each begins where the one before has ended.          *)
THEOREM RoundsRiseWithKelly ==
  ASSUME NEW n \in Nat, NEW m \in Shapes, NEW less \in Nat, NEW more \in Nat, less <= more,
         NEW prob \in 0..100, NEW price \in 1..100
  PROVE  Resize(n, m, less, prob, price) <= Resize(n, m, more, prob, price)
<1>1. price \in 0..100
  OBVIOUS
<1>2. PICK k \in Nat : k = Greater(1, n) /\ k > 0
  BY DEF Greater
<1>3. PICK fraction \in Nat : fraction = Kelly(n, prob, price)
  <2>1. Kelly(n, prob, price) \in Nat
    BY <1>1, KellyTyped
  <2> QED
    BY <2>1
<1>4. PICK s, t \in Nat : /\ s = Spend(fraction, less, Multiplier(m), prob)
                          /\ t = Spend(fraction, more, Multiplier(m), prob) /\ s <= t
  <2>1. PICK multiplier \in Nat : multiplier = Multiplier(m)
    <3>1. Multiplier(m) \in Nat
      BY MultiplierTyped
    <3> QED
      BY <3>1
  <2>2. /\ Spend(fraction, less, multiplier, prob) \in Nat
        /\ Spend(fraction, more, multiplier, prob) \in Nat
    BY SpendTyped
  <2>3. Spend(fraction, less, multiplier, prob) <= Spend(fraction, more, multiplier, prob)
    BY SpendRises
  <2> QED
    BY <2>1, <2>2, <2>3
<1>5. PICK fee \in Nat : fee = OrderFee(k, price)
  <2>1. OrderFee(k, price) \in Nat
    BY <1>1, FeeTyped
  <2> QED
    BY <2>1
<1>6. PICK cost \in Nat : cost = 25 * k * price + 37 * fee /\ cost > 0
  <2>1. k * price \in Nat /\ 1 * price <= k * price
    BY <1>2, ProductIsMonotone
  <2>2. 25 * k * price = 25 * (k * price)
    OBVIOUS
  <2> QED
    BY <2>1, <2>2
<1>7. PICK a, b \in Nat : a = 25 * k * s /\ b = 25 * k * t /\ a <= b
  <2>1. PICK j \in Nat : j = 25 * k
    OBVIOUS
  <2>2. s * j \in Nat /\ t * j \in Nat /\ s * j <= t * j
    BY <1>4, ProductIsMonotone
  <2>3. 25 * k * s = s * j /\ 25 * k * t = t * j
    BY <2>1
  <2> QED
    BY <2>2, <2>3
<1>8. PICK c, d \in Nat : c = a \div cost /\ d = b \div cost /\ c <= d
  <2>1. a \div cost \in Nat /\ b \div cost \in Nat /\ a \div cost <= b \div cost
    BY <1>6, <1>7, QuotientIsMonotone
  <2> QED
    BY <2>1
<1>9. PICK x, y \in Nat : /\ x = FromBook(c, m, prob, price, s)
                          /\ y = FromBook(d, m, prob, price, t) /\ x <= y
  <2>1. FromBook(c, m, prob, price, s) \in Nat /\ FromBook(d, m, prob, price, t) \in Nat
    BY FromBookTyped
  <2>2. FromBook(c, m, prob, price, s) <= FromBook(d, m, prob, price, t)
    BY <1>4, <1>8, FromBookRises
  <2> QED
    BY <2>1, <2>2
<1>10. /\ Resize(n, m, less, prob, price) = IF fraction = 0 THEN 0 ELSE Lesser(x, MaxQty)
       /\ Resize(n, m, more, prob, price) = IF fraction = 0 THEN 0 ELSE Lesser(y, MaxQty)
  BY <1>2, <1>3, <1>4, <1>5, <1>6, <1>7, <1>8, <1>9 DEF Resize
<1> QED
  BY <1>9, <1>10 DEF Lesser, MaxQty

\* five rounds, each a number of contracts; that there are such five is seen by
\* writing them down
LEMMA SolvedTyped ==
  ASSUME NEW m \in Shapes, NEW kelly \in Nat, NEW prob \in 0..100, NEW price \in 1..100
  PROVE  Solved(m, kelly, prob, price) \in Nat
<1> DEFINE again(n) == Resize(n, m, kelly, prob, price)
           IsSolve(g) == g = [k \in 0..Rounds |-> IF k = 0 THEN 100 ELSE again(g[k - 1])]
<1>1. \A n \in Nat : again(n) \in Nat
  BY ResizeTyped
<1>2. Solved(m, kelly, prob, price) = (CHOOSE g : IsSolve(g))[Rounds]
  BY DEF Solved, Begin
<1> HIDE DEF again
<1>3. PICK a : a = again(100)
  OBVIOUS
<1>4. PICK b : b = again(a)
  OBVIOUS
<1>5. PICK c : c = again(b)
  OBVIOUS
<1>6. PICK d : d = again(c)
  OBVIOUS
<1>7. PICK last : last = again(d)
  OBVIOUS
<1>8. PICK g : g = [k \in 0..Rounds |-> IF k = 0 THEN 100 ELSE IF k = 1 THEN a ELSE IF k = 2 THEN b
                      ELSE IF k = 3 THEN c ELSE IF k = 4 THEN d ELSE last]
  OBVIOUS
<1>9. IsSolve(g)
  <2>1. \A k \in 0..5 : g[k] = IF k = 0 THEN 100 ELSE again(g[k - 1])
    <3>1. g[0] = 100 /\ g[1] = a /\ g[2] = b /\ g[3] = c /\ g[4] = d /\ g[5] = last
      BY <1>8 DEF Rounds
    <3>2. \A k \in 0..5 : k = 0 \/ k = 1 \/ k = 2 \/ k = 3 \/ k = 4 \/ k = 5
      OBVIOUS
    <3> QED
      BY <1>3, <1>4, <1>5, <1>6, <1>7, <3>1, <3>2
  <2>2. g = [k \in 0..Rounds |-> g[k]]
    BY <1>8
  <2> QED
    BY <2>1, <2>2 DEF Rounds
<1>10. PICK f : f = (CHOOSE h : IsSolve(h)) /\ IsSolve(f)
  <2> HIDE DEF IsSolve
  <2> QED
    BY <1>9
<1>11. f[0] = 100 /\ \A k \in 1..5 : f[k] = again(f[k - 1])
  BY <1>10 DEF Rounds
<1>12. /\ f[1] = again(f[0]) /\ f[2] = again(f[1]) /\ f[3] = again(f[2])
       /\ f[4] = again(f[3]) /\ f[5] = again(f[4])
  BY <1>11
<1>13. f[1] \in Nat
  BY <1>1, <1>11, <1>12
<1>14. f[2] \in Nat /\ f[3] \in Nat /\ f[4] \in Nat /\ f[5] \in Nat
  BY <1>1, <1>12, <1>13
<1> QED
  BY <1>2, <1>10, <1>14 DEF Rounds

\* the cap of a position, its part of the bankroll, and the ultra allocation
LEMMA BudgetTyped ==
  ASSUME NEW m \in Shapes, NEW prob \in 0..100
  PROVE  Budget(m, prob) \in Nat /\ UltraAlloc(m, prob) \in Int
<1>1. PICK multiplier \in Nat : multiplier = Multiplier(m)
  <2>1. Multiplier(m) \in Nat
    BY MultiplierTyped
  <2> QED
    BY <2>1
<1>2. PICK bucket \in Nat :
        bucket = (PositionUsd * (IF prob >= 90 THEN 200 ELSE IF prob >= 80 THEN 150 ELSE 100)) \div 100
  <2>1. PICK x \in Nat : x = PositionUsd * (IF prob >= 90 THEN 200 ELSE IF prob >= 80 THEN 150 ELSE 100)
    BY DEF PositionUsd
  <2>2. x \div 100 \in Nat
    BY QuotientTyped
  <2> QED
    BY <2>1, <2>2
<1>3. PositionCap(m, prob) \in Nat
  BY <1>2 DEF PositionCap, Lesser, Shapes
<1>4. PICK part \in Nat : part = (KellyCap * Bankroll) \div 100
  <2>1. PICK x \in Nat : x = KellyCap * Bankroll
    BY AdmissionAssumption DEF KellyCap
  <2>2. x \div 100 \in Nat
    BY QuotientTyped
  <2> QED
    BY <2>1, <2>2
<1>5. PICK budget \in Nat : budget = Budget(m, prob)
  BY <1>3, <1>4 DEF Budget, Lesser
<1>6. PICK share \in Nat : share = (18 * Bankroll * Greater(100, multiplier)) \div 10000
  <2>1. PICK most \in Nat : most = Greater(100, multiplier)
    BY DEF Greater
  <2>2. PICK x \in Nat : x = 18 * Bankroll * most
    <3>1. 18 * Bankroll \in Nat
      BY AdmissionAssumption
    <3> QED
      BY <3>1
  <2>3. x \div 10000 \in Nat
    BY QuotientTyped
  <2> QED
    BY <2>1, <2>2, <2>3
<1>7. UltraAlloc(m, prob) = Lesser(budget, Greater(2000, share))
  BY <1>1, <1>5, <1>6 DEF UltraAlloc
<1> QED
  BY <1>5, <1>7 DEF Lesser, Greater

\* whatever the solver and the ramp say: no more than can be paid for
LEMMA ClampTyped ==
  ASSUME NEW m \in Shapes, NEW kelly \in Nat, NEW prob \in 0..100, NEW price \in 1..100
  PROVE  LET n == Clamp(Sized(m, kelly, prob, price), m, prob, price)
         IN  n \in 0..MaxQty /\ n <= Affordable(price, Budget(m, prob))
<1>1. price \in 0..100 /\ price \in Nat /\ price > 0
  OBVIOUS
<1>2. PICK solved \in Nat : solved = Solved(m, kelly, prob, price)
  <2>1. Solved(m, kelly, prob, price) \in Nat
    BY SolvedTyped
  <2> QED
    BY <2>1
<1>3. PICK budget \in Nat, ultra \in Int : budget = Budget(m, prob) /\ ultra = UltraAlloc(m, prob)
  BY BudgetTyped
<1>4. PICK most \in 0..MaxQty : most = Affordable(price, budget)
  <2>1. Affordable(price, budget) \in 0..MaxQty
    BY <1>1, AffordableIs
  <2> QED
    BY <2>1
<1>5. PICK slots \in Int : slots = ultra \div price
  BY <1>1
<1>6. PICK more \in Nat : more = IF Convinced(m, solved, prob, price)
                               THEN Lesser(Greater(solved, slots), MaxQty) ELSE solved
  BY DEF Lesser, Greater, MaxQty
<1>7. Sized(m, kelly, prob, price) = Lesser(more, most)
  BY <1>2, <1>3, <1>4, <1>5, <1>6 DEF Sized
<1>8. PICK sized \in Nat : sized = Sized(m, kelly, prob, price)
  BY <1>7 DEF Lesser, MaxQty
<1>9. m.depth \in Nat
  BY DEF Shapes
<1>10. /\ Clamp(sized, m, prob, price) \in 0..MaxQty
       /\ Clamp(sized, m, prob, price) <= most
  BY <1>3, <1>4, <1>9 DEF Clamp, Lesser, MaxQty
<1> QED
  BY <1>3, <1>4, <1>8, <1>10

\* a side that clears the edge is likelier than its price
LEMMA ClearsAbove ==
  ASSUME NEW prob \in 0..100, NEW price \in 0..100, ClearsEdge(prob, price, EdgeFloor)
  PROVE  prob > price /\ price \in 1..100 /\ NetEdge(prob, price) >= 25 * EdgeFloor
<1>1. price \in 1..100 /\ NetEdge(prob, price) >= 25 * EdgeFloor
  BY DEF ClearsEdge, NotQuoted
<1>2. PICK fee \in Nat : fee = OrderFee(1, price)
  <2>1. OrderFee(1, price) \in Nat
    BY FeeTyped
  <2> QED
    BY <2>1
<1>3. 25 * (prob - price) - 37 * fee >= 300
  BY <1>1, <1>2 DEF NetEdge, RoundTrip, EdgeFloor
<1> QED
  BY <1>1, <1>2, <1>3

LEMMA SideClears ==
  ASSUME NEW m \in Shapes, SideOf(m) # "none"
  PROVE  SideOf(m) \in Sides /\ ClearsEdge(Prob(m, SideOf(m)), Ask(m, SideOf(m)), EdgeFloor)
<1>1. "YES" # "NO" /\ "YES" # "none" /\ "NO" # "none"
  OBVIOUS
<1> QED
  BY <1>1 DEF SideOf, Prob, Ask, Sides

\* against either side speaks what speaks against the market
Against(m) == Unpriceable(m) \/ Diverged(m) \/ m.trouble = "chaos" \/ BannedBin(m)

LEMMA NotTemptingNotVetoed ==
  ASSUME NEW m, NEW side \in Sides, ~Tempting(m, side)
  PROVE  ~Penny(m, side) /\ (side = "YES" => ~Premium(m))
BY DEF Penny, Premium

LEMMA YesIs ==
  ASSUME NEW m, ~Tempting(m, "NO")
  PROVE  SideOf(m) = "YES" <=>
           /\ ~Against(m) /\ ~Premium(m) /\ ~Penny(m, "YES")
           /\ ClearsEdge(Prob(m, "YES"), m.yes, EdgeFloor) /\ HasHeadroom(m, "YES") /\ ~PastPeak(m, "YES")
<1>1. ~Penny(m, "NO")
  BY DEF Penny
<1>2. (\E side \in Sides : Penny(m, side)) <=> Penny(m, "YES")
  BY <1>1 DEF Sides
<1>3. "YES" # "NO" /\ "YES" # "none"
  OBVIOUS
<1> QED
  BY <1>2, <1>3 DEF SideOf, Vetoed, Against

LEMMA NoIs ==
  ASSUME NEW m, ~Tempting(m, "YES"), ~ClearsEdge(Prob(m, "YES"), m.yes, EdgeFloor)
  PROVE  SideOf(m) = "NO" <=>
           /\ ~Against(m) /\ ~Penny(m, "NO")
           /\ ClearsEdge(Prob(m, "NO"), m.no, EdgeFloor) /\ HasHeadroom(m, "NO")
<1>1. ~Penny(m, "YES") /\ ~Premium(m)
  BY DEF Penny, Premium
<1>2. (\E side \in Sides : Penny(m, side)) <=> Penny(m, "NO")
  BY <1>1 DEF Sides
<1>3. "YES" # "NO" /\ "NO" # "none"
  OBVIOUS
<1> QED
  BY <1>1, <1>2, <1>3 DEF SideOf, Vetoed, Against

\* what does not depend on the other side's quote
LEMMA OtherQuote ==
  ASSUME NEW m \in Shapes, NEW k \in {[m EXCEPT !.yes = NotQuoted], [m EXCEPT !.no = NotQuoted]}
  PROVE  /\ Against(k) <=> Against(m)
         /\ \A side \in Sides : /\ Prob(k, side) = Prob(m, side)
                                /\ HasHeadroom(k, side) <=> HasHeadroom(m, side)
                                /\ PastPeak(k, side) <=> PastPeak(m, side)
<1>1. /\ k.gfs = m.gfs /\ k.ecmwf = m.ecmwf /\ k.blend = m.blend /\ k.trouble = m.trouble
      /\ k.bin = m.bin /\ k.mode = m.mode /\ k.projected = m.projected /\ k.headroom = m.headroom
  BY DEF Shapes
<1>2. Gap(k) = Gap(m)
  BY <1>1 DEF Gap
<1>3. Guarded(k) = Guarded(m)
  BY <1>1, <1>2 DEF Guarded, Confidence
<1> QED
  BY <1>1, <1>2, <1>3 DEF Against, Unpriceable, Diverged, BannedBin, Prob, HasHeadroom, PastPeak

LEMMA SidesApart ==
  ASSUME NEW m \in Shapes, m.yes # NotQuoted, m.no # NotQuoted, m.yes + m.no >= 100
  PROVE  /\ SideOf(m) = "YES" <=> SideOf([m EXCEPT !.no = NotQuoted]) = "YES"
         /\ SideOf(m) = "NO" <=> SideOf([m EXCEPT !.yes = NotQuoted]) = "NO"
<1>1. PICK g \in 0..100, yes \in 1..100, no \in 1..100 : g = Guarded(m) /\ yes = m.yes /\ no = m.no
  <2>1. Guarded(m) \in 0..100
    BY ProbTyped DEF Sides
  <2>2. m.yes \in 1..100 /\ m.no \in 1..100
    BY DEF Shapes, NotQuoted
  <2> QED
    BY <2>1, <2>2
<1>2. /\ Prob(m, "YES") = g /\ Prob(m, "NO") = 100 - g /\ Ask(m, "YES") = yes /\ Ask(m, "NO") = no
      /\ yes + no >= 100 /\ 100 - g \in 0..100
  BY <1>1 DEF Prob, Ask
<1>3. ClearsEdge(g, yes, EdgeFloor) => g > yes
  BY ClearsAbove
<1>4. ClearsEdge(100 - g, no, EdgeFloor) => 100 - g > no
  <2>1. PICK h \in 0..100 : h = 100 - g
    BY <1>2
  <2>2. no \in 0..100
    OBVIOUS
  <2>3. ClearsEdge(h, no, EdgeFloor) => h > no
    BY <2>2, ClearsAbove
  <2> QED
    BY <2>1, <2>3
<1>5. SideOf(m) = "YES" <=> SideOf([m EXCEPT !.no = NotQuoted]) = "YES"
  <2>1. PICK k : k = [m EXCEPT !.no = NotQuoted]
    OBVIOUS
  <2>2. k = [m EXCEPT !.no = NotQuoted] /\ k.yes = m.yes /\ k.no = NotQuoted
    BY <2>1 DEF Shapes
  <2>3. ~Tempting(k, "NO")
    BY <2>2 DEF Tempting, Ask
  <2>4. /\ Against(k) <=> Against(m)
        /\ Prob(k, "YES") = Prob(m, "YES") /\ Prob(k, "NO") = Prob(m, "NO")
        /\ HasHeadroom(k, "YES") <=> HasHeadroom(m, "YES")
        /\ PastPeak(k, "YES") <=> PastPeak(m, "YES")
    BY <2>2, OtherQuote DEF Sides
  <2>5. (Premium(k) <=> Premium(m)) /\ (Penny(k, "YES") <=> Penny(m, "YES"))
    BY <2>2, <2>4 DEF Premium, Penny, Tempting, Ask
  <2>6. CASE g > yes
    <3>1. ~Tempting(m, "NO")
      BY <1>1, <1>2, <2>6 DEF Tempting
    <3> QED
      BY <2>2, <2>3, <2>4, <2>5, <3>1, YesIs
  <2>7. CASE ~(g > yes)
    <3>1. ~ClearsEdge(g, yes, EdgeFloor)
      BY <1>3, <2>7
    <3>2. SideOf(k) # "YES"
      BY <1>1, <1>2, <2>2, <2>3, <2>4, <3>1, YesIs
    <3>3. SideOf(m) # "YES"
      <4>1. "YES" # "NO" /\ "YES" # "none"
        OBVIOUS
      <4> QED
        BY <1>1, <1>2, <3>1, <4>1 DEF SideOf
    <3> QED
      BY <2>2, <3>2, <3>3
  <2> QED
    BY <2>6, <2>7
<1>6. SideOf(m) = "NO" <=> SideOf([m EXCEPT !.yes = NotQuoted]) = "NO"
  <2>1. PICK k : k = [m EXCEPT !.yes = NotQuoted]
    OBVIOUS
  <2>2. k = [m EXCEPT !.yes = NotQuoted] /\ k.no = m.no /\ k.yes = NotQuoted
    BY <2>1 DEF Shapes
  <2>3. ~Tempting(k, "YES") /\ ~ClearsEdge(Prob(k, "YES"), k.yes, EdgeFloor)
    BY <2>2 DEF Tempting, Ask, ClearsEdge
  <2>4. /\ Against(k) <=> Against(m)
        /\ Prob(k, "NO") = Prob(m, "NO") /\ (HasHeadroom(k, "NO") <=> HasHeadroom(m, "NO"))
    BY <2>2, OtherQuote DEF Sides
  <2>5. Penny(k, "NO") <=> Penny(m, "NO")
    BY <2>2, <2>4 DEF Penny, Tempting, Ask
  <2>6. CASE 100 - g > no
    <3>1. ~(g > yes)
      BY <1>2, <2>6
    <3>2. ~Tempting(m, "YES") /\ ~ClearsEdge(Prob(m, "YES"), m.yes, EdgeFloor)
      BY <1>1, <1>2, <1>3, <3>1 DEF Tempting
    <3> QED
      BY <2>2, <2>3, <2>4, <2>5, <3>2, NoIs
  <2>7. CASE ~(100 - g > no)
    <3>1. ~ClearsEdge(100 - g, no, EdgeFloor)
      BY <1>4, <2>7
    <3>2. SideOf(k) # "NO"
      BY <1>1, <1>2, <2>2, <2>3, <2>4, <3>1, NoIs
    <3>3. SideOf(m) # "NO"
      <4>1. "YES" # "NO" /\ "NO" # "none"
        OBVIOUS
      <4> QED
        BY <1>1, <1>2, <3>1, <4>1 DEF SideOf
    <3> QED
      BY <2>2, <3>2, <3>3
  <2> QED
    BY <2>6, <2>7
<1> QED
  BY <1>5, <1>6

-----------------------------------------------------------------------------
(* The choice is typed and clears its hurdle; only an evaluation makes one, *)
(* and only of the market and the parameters that it then stands beside.   *)

Chosen == [side : Sides \cup {"none"}, qty : 0..MaxQty, kelly : 0..50]
TunedTyped ==
  /\ tuned \in [{"kelly", "floor"} -> Int]
  /\ tuned["kelly"] \in 1..50 \cup {Untuned} /\ tuned["floor"] \in 50..95 \cup {Untuned}
\* what is bought is bought of the side that the market of the choice clears
SideTaken == choice.qty > 0 => choice.side = SideOf(market) /\ choice.side # "none"
AdmissionInd ==
  market \in Markets /\ choice \in Chosen /\ TunedTyped /\ EntriesClearHurdle /\ SideTaken

LEMMA ChooseIs ==
  ASSUME NEW m \in Shapes, NEW readable \in BOOLEAN, TunedTyped,
         NEW made, made = Choose(m, readable), made # NoChoice
  PROVE  /\ made.side \in Sides /\ made.qty \in 0..MaxQty /\ made.kelly \in 0..50 /\ made.qty > 0
         /\ made = [side |-> made.side, qty |-> made.qty, kelly |-> made.kelly]
         /\ made.side = SideOf(m) /\ made.side # "none"
         /\ LET prob == Clamped(Prob(m, made.side))
                price == Ask(m, made.side)
            IN  made.qty <= Affordable(price, Budget(m, prob))
<1>1. PICK side : side = SideOf(m)
  OBVIOUS
<1>2. PICK kelly : kelly = Param("kelly", KellyFraction, readable)
  OBVIOUS
<1>3. kelly \in 0..50
  BY <1>2 DEF Param, TunedTyped, Untuned, KellyFraction
<1>4. PICK prob, price : prob = Clamped(Prob(m, side)) /\ price = Ask(m, side)
  OBVIOUS
<1>5. PICK n : n = Clamp(Sized(m, kelly, prob, price), m, prob, price)
  OBVIOUS
<1>6. side # "none" /\ n # 0 /\ made = [side |-> side, qty |-> n, kelly |-> kelly]
  BY <1>1, <1>2, <1>4, <1>5 DEF Choose
<1>7. side \in Sides /\ ClearsEdge(Prob(m, side), price, EdgeFloor)
  BY <1>1, <1>4, <1>6, SideClears
<1>8. Prob(m, side) \in 0..100 /\ price \in 0..100
  BY <1>4, <1>7, ProbTyped
<1>9. prob \in 0..100
  BY <1>4, <1>8 DEF Clamped, Within, Greater, Lesser
<1>10. price \in 1..100
  BY <1>7, <1>8, ClearsAbove
<1>11. n \in 0..MaxQty /\ n <= Affordable(price, Budget(m, prob))
  <2>1. kelly \in Nat
    BY <1>3
  <2> QED
    BY <1>5, <1>9, <1>10, <2>1, ClampTyped
<1>12. made.side = side /\ made.qty = n /\ made.kelly = kelly
  BY <1>6
<1>13. n > 0
  BY <1>6, <1>11 DEF MaxQty
<1> QED
  BY <1>1, <1>3, <1>4, <1>6, <1>7, <1>11, <1>12, <1>13

LEMMA ChoiceClears ==
  ASSUME NEW m \in Shapes, NEW readable \in BOOLEAN, TunedTyped,
         NEW made, made = Choose(m, readable), made # NoChoice
  PROVE  LET prob == Prob(m, made.side)
             price == Ask(m, made.side)
         IN  /\ RoundTrip(made.qty, prob, price) >= 25 * EdgeFloor * made.qty
             /\ OrderCost(made.qty, price) <= Budget(m, Clamped(prob))
<1>1. PICK side : side = made.side
  OBVIOUS
<1>2. PICK n \in Nat : n = made.qty
  <2>1. made.qty \in 0..MaxQty
    BY ChooseIs
  <2> QED
    BY <2>1 DEF MaxQty
<1>3. PICK prob, price : prob = Prob(m, side) /\ price = Ask(m, side)
  OBVIOUS
<1>4. side = SideOf(m) /\ side # "none" /\ n <= Affordable(price, Budget(m, Clamped(prob)))
  BY <1>1, <1>2, <1>3, ChooseIs
<1>5. side \in Sides /\ ClearsEdge(prob, price, EdgeFloor)
  BY <1>3, <1>4, SideClears
<1>6. prob \in 0..100 /\ price \in 0..100
  BY <1>3, <1>5, ProbTyped
<1>7. NetEdge(prob, price) >= 25 * EdgeFloor
  BY <1>5, <1>6, ClearsAbove
<1>8. RoundTrip(n, prob, price) >= 25 * EdgeFloor * n
  <2>1. prob \in Int
    BY <1>6
  <2> QED
    BY <1>6, <1>7, <2>1, HurdleScales
<1>9. PICK budget \in Nat : budget = Budget(m, Clamped(prob))
  <2>1. Clamped(prob) \in 0..100
    BY <1>6 DEF Clamped, Within, Greater, Lesser
  <2>2. Budget(m, Clamped(prob)) \in Nat
    BY <2>1, BudgetTyped
  <2> QED
    BY <2>2
<1>10. OrderCost(n, price) <= budget
  BY <1>4, <1>6, <1>9, AffordableIs
<1> QED
  BY <1>1, <1>2, <1>3, <1>8, <1>9, <1>10

LEMMA AdmissionInitInd == ASSUME AdmissionInit PROVE AdmissionInd
<1>1. tuned \in [{"kelly", "floor"} -> Int] /\ tuned["kelly"] = Untuned /\ tuned["floor"] = Untuned
  BY DEF AdmissionInit, Untuned
<1>2. choice = NoChoice /\ choice.qty = 0 /\ choice \in Chosen
  BY DEF AdmissionInit, NoChoice, Chosen, MaxQty
<1> QED
  BY <1>1, <1>2 DEF AdmissionInit, AdmissionInd, TunedTyped, EntriesClearHurdle, SideTaken

LEMMA AdmissionStepInd == ASSUME AdmissionInd, [AdmissionNext]_admissionVars PROVE AdmissionInd'
<1>1. market \in Shapes
  BY AdmissionAssumption DEF AdmissionInd
<1>2. NoChoice.qty = 0 /\ NoChoice \in Chosen
  BY DEF NoChoice, Chosen, MaxQty
<1>3. CASE UNCHANGED admissionVars
  BY <1>3 DEF admissionVars, AdmissionInd, TunedTyped, EntriesClearHurdle, SideTaken
<1>4. ASSUME NEW readable \in BOOLEAN, Evaluate(readable) PROVE AdmissionInd'
  <2>1. PICK made : made = Choose(market, readable)
    OBVIOUS
  <2>2. choice' = made /\ UNCHANGED <<market, tuned>>
    BY <1>4, <2>1 DEF Evaluate
  <2>3. made \in Chosen
    <3>1. CASE made # NoChoice
      <4>1. made.side \in Sides /\ made.qty \in 0..MaxQty /\ made.kelly \in 0..50
        BY <1>1, <2>1, <3>1, ChooseIs DEF AdmissionInd
      <4>2. made = [side |-> made.side, qty |-> made.qty, kelly |-> made.kelly]
        BY <1>1, <2>1, <3>1, ChooseIs DEF AdmissionInd
      <4>3. [side |-> made.side, qty |-> made.qty, kelly |-> made.kelly] \in Chosen
        BY <4>1 DEF Chosen
      <4> QED
        BY <4>2, <4>3
    <3> QED
      BY <1>2, <3>1
  <2>4. made.qty > 0 =>
          /\ RoundTrip(made.qty, Prob(market, made.side), Ask(market, made.side)) >= 25 * EdgeFloor * made.qty
          /\ OrderCost(made.qty, Ask(market, made.side)) <= Budget(market, Clamped(Prob(market, made.side)))
    <3>1. CASE made = NoChoice
      BY <1>2, <3>1
    <3>2. CASE made # NoChoice
      BY <1>1, <2>1, <3>2, ChoiceClears DEF AdmissionInd
    <3> QED
      BY <3>1, <3>2
  <2>5. EntriesClearHurdle'
    BY <2>2, <2>4 DEF EntriesClearHurdle
  <2>6. made.qty > 0 => made.side = SideOf(market) /\ made.side # "none"
    BY <1>1, <1>2, <2>1, ChooseIs DEF AdmissionInd
  <2>7. SideTaken'
    BY <2>2, <2>6 DEF SideTaken
  <2> QED
    BY <2>2, <2>3, <2>5, <2>7 DEF AdmissionInd, TunedTyped
<1>5. ASSUME NEW m \in Turns, MarketShows(m) PROVE AdmissionInd'
  BY <1>2, <1>5, AdmissionAssumption DEF MarketShows, AdmissionInd, TunedTyped, EntriesClearHurdle, SideTaken
<1>6. ASSUME NEW key \in {"kelly", "floor"}, NEW value \in Nat, JarvisTunes(key, value) PROVE AdmissionInd'
  <2>1. /\ tuned' = [tuned EXCEPT ![key] = value] /\ choice' = NoChoice /\ market' = market
        /\ Shielded(key, value) /\ value \in Int
    BY <1>6 DEF JarvisTunes
  <2>2. TunedTyped'
    <3>1. CASE key = "kelly"
      BY <2>1, <3>1 DEF Shielded, AdmissionInd, TunedTyped
    <3>2. CASE key = "floor"
      BY <2>1, <3>2 DEF Shielded, AdmissionInd, TunedTyped
    <3> QED
      BY <3>1, <3>2
  <2> QED
    BY <1>2, <2>1, <2>2 DEF AdmissionInd, EntriesClearHurdle, SideTaken
<1> QED
  BY <1>3, <1>4, <1>5, <1>6, AdmissionAssumption DEF AdmissionNext

LEMMA ChosenRoundsRise == ASSUME AdmissionInd, market \in Shapes PROVE LessKellyBuysNoMore
<1>1. PICK side : side = choice.side
  OBVIOUS
<1>2. PICK prob, price : prob = Prob(market, side) /\ price = Ask(market, side)
  OBVIOUS
<1>3. PICK more : more = choice.kelly
  OBVIOUS
<1>4. SUFFICES ASSUME choice.qty > 0, NEW less \in Kellies, NEW n \in 0..MaxQty \cup {Begin}, less < more
               PROVE  Resize(n, market, less, Clamped(prob), price)
                        <= Resize(n, market, more, Clamped(prob), price)
  BY <1>1, <1>2, <1>3 DEF LessKellyBuysNoMore
<1>5. side \in Sides /\ ClearsEdge(prob, price, EdgeFloor)
  BY <1>1, <1>2, <1>4, SideClears DEF AdmissionInd, SideTaken
<1>6. prob \in 0..100 /\ price \in 0..100
  BY <1>2, <1>5, ProbTyped
<1>7. Clamped(prob) \in 0..100 /\ price \in 1..100
  BY <1>5, <1>6, ClearsAbove DEF Clamped, Within, Greater, Lesser
<1>8. n \in Nat /\ less \in Nat /\ more \in Nat /\ less <= more
  BY <1>3, <1>4, AdmissionAssumption DEF AdmissionInd, Chosen, MaxQty, Begin
<1> QED
  BY <1>7, <1>8, RoundsRiseWithKelly

LEMMA AdmissionIndSound == ASSUME AdmissionInd PROVE AdmissionTypeOK /\ ChoicesAreSound
<1>1. market \in Shapes
  BY AdmissionAssumption DEF AdmissionInd
<1>2. NoSideSpoilsOther
  BY <1>1, SidesApart DEF NoSideSpoilsOther
<1>3. EntriesClearHurdle /\ LessKellyBuysNoMore
  BY <1>1, ChosenRoundsRise DEF AdmissionInd
<1>4. AdmissionTypeOK
  BY DEF AdmissionInd, TunedTyped, Chosen, AdmissionTypeOK
<1> QED
  BY <1>2, <1>3, <1>4 DEF ChoicesAreSound

(* For any book of markets and any parameters that Jarvis may set: what    *)
(* evaluate_contract buys leaves EdgeFloor at every contract, with the     *)
(* order's own rounded fee, and is paid for by the position's cap and the  *)
(* share of the bankroll; no side is missed or taken for the other side's  *)
(* sake; and no round of the solver buys more when Kelly is turned down.   *)
THEOREM EntriesAreWorthIt == AdmissionSpec => []ChoicesAreSound
BY AdmissionInitInd, AdmissionStepInd, AdmissionIndSound, PTL DEF AdmissionSpec

-----------------------------------------------------------------------------
(* The four together, one of them in focus.                                *)

LEMMA StepsAreTheirs ==
  ASSUME [DeskNext]_deskVars
  PROVE  /\ [Next]_vars /\ [ReadinessNext]_readinessVars
         /\ [TuningNext]_tuningVars /\ [AdmissionNext]_admissionVars
<1>1. CASE UNCHANGED deskVars
  BY <1>1 DEF deskVars, otherVars
<1>2. CASE FirewallStep
  BY <1>2 DEF FirewallStep, otherVars
<1>3. CASE ReadinessStep
  BY <1>3 DEF ReadinessStep
<1>4. CASE TuningStep
  BY <1>4 DEF TuningStep
<1>5. CASE MarketStep
  BY <1>5 DEF MarketStep
<1>6. CASE TuningEnds
  BY <1>6 DEF TuningEnds, deskVars, otherVars
<1> QED
  BY <1>1, <1>2, <1>3, <1>4, <1>5, <1>6 DEF DeskNext

(* A desk whose halts, lane, tuning and choices move one at a time is a    *)
(* behaviour of each of them: what is proved of the firewall, the release  *)
(* gate, the optimizers or the strategy engine alone holds of the whole.   *)
THEOREM DeskIsItsParts == DeskSpec => Spec /\ ReadinessSpec /\ TuningSpec /\ AdmissionSpec
<1>1. DeskInit => Init /\ ReadinessInit /\ TuningInit /\ AdmissionInit
  BY DEF DeskInit
<1> QED
  BY <1>1, StepsAreTheirs, PTL
    DEF DeskSpec, Spec, ReadinessSpec, TuningSpec, AdmissionSpec

LEMMA TypesStep == ASSUME TypeOK, [Next]_vars PROVE TypeOK'
<1>1. CASE Next
  BY <1>1, StepTypes, ObserveTyped DEF Next, StepTyped, TypeOK, HistoryOK
<1>2. CASE UNCHANGED vars
  BY <1>2 DEF vars, tables, world, control, TypeOK, TablesOK, WorldOK, ControlOK, HistoryOK
<1> QED
  BY <1>1, <1>2

DeskInd == TypeOK /\ ReadinessInd /\ TuningInd /\ AdmissionInd

LEMMA DeskInitInd == DeskInit => DeskInd
BY InitTyped, ReadinessInitInd, TuningInitInd, AdmissionInitInd DEF DeskInit, DeskInd

LEMMA DeskStepInd == DeskInd /\ [DeskNext]_deskVars => DeskInd'
BY StepsAreTheirs, TypesStep, ReadinessStepInd, TuningStepInd, AdmissionStepInd DEF DeskInd

(* Halts, lane, tuning and choices keep their types beside one another.    *)
THEOREM DeskTypes == DeskSpec => []DeskTypeOK
<1>1. DeskInd => DeskTypeOK
  BY ReadinessIndTypes, TuningIndTypes, AdmissionIndSound DEF DeskInd, DeskTypeOK
<1> QED
  BY DeskInitInd, DeskStepInd, <1>1, PTL DEF DeskSpec

(* The choices stay sound beside the halts, the lane and the tuning, which *)
(* move while the market of evaluate_contract stands still.                *)
THEOREM MarketChoices == DeskSpec => []MarketChoicesAreSound
<1>1. DeskInd => MarketChoicesAreSound
  BY AdmissionIndSound DEF DeskInd, MarketChoicesAreSound
<1> QED
  BY DeskInitInd, DeskStepInd, <1>1, PTL DEF DeskSpec

(* No step of the whole makes an entry ask the gate and hear of a refusal  *)
(* without its cause, and a promoted build has passed where it runs:       *)
(* run_execution_cycle, evaluate_go_no_go and promote_release_candidate    *)
(* as they read rows that others write.                                    *)
THEOREM LaneIsShown == DeskSpec => LaneIsShownAsItIs
<1> DEFINE Grounded ==
      \A p \in Loops : AsksTheGate(p) =>
        LET why == loop'[p].refused IN
        /\ "heartbeat" \in why => loop[p].age > StaleAfter \/ ~loop[p].stamped
        /\ "stale weather" \in why => Cardinality(Late) >= SampleLimit \/ Late = listed
        /\ "balance" \in why => "audit" \in why
<1>1. DeskInd /\ [DeskNext]_deskVars => [Grounded]_readinessVars
  <2> SUFFICES ASSUME DeskInd, [DeskNext]_deskVars PROVE [Grounded]_readinessVars
    OBVIOUS
  <2>1. CASE ReadinessNext
    BY <2>1, RefusalsGrounded DEF DeskInd
  <2>2. CASE UNCHANGED readinessVars
    BY <2>2
  <2> QED
    BY <2>1, <2>2, StepsAreTheirs
<1>2. DeskInd => PromotionIsHosted
  BY DEF DeskInd, ReadinessInd
<1>3. DeskSpec => [][Grounded]_readinessVars /\ []PromotionIsHosted
  BY DeskInitInd, DeskStepInd, <1>1, <1>2, PTL DEF DeskSpec
<1> QED
  BY <1>3 DEF LaneIsShownAsItIs, RefusalsAreGrounded

(* Whatever order two optimizers and a soak pass take: while no write was  *)
(* lost, a key's newest mutation tells its value in force, and a pass that *)
(* reverts all of a key's mutations leaves the value before the oldest.    *)
THEOREM TuningLogged == DeskSpec => TuningIsLogged
<1> DEFINE Restores ==
      (soak.at = "judging" /\ soak'.at = "idle" /\ soak.clean) =>
        \A k \in Keys :
          LET undone == soak.all \cap Of(k) IN
          (undone # {} /\ \A id \in undone : mutations[id].status = "REVERTED") =>
            params[k] = mutations[Oldest(undone)].old
           Logged == \A k \in Keys : LogTellsValue(k)
<1>1. DeskInd /\ [DeskNext]_deskVars => [Restores]_tuningVars
  <2> SUFFICES ASSUME DeskInd, [DeskNext]_deskVars PROVE [Restores]_tuningVars
    OBVIOUS
  <2>1. CASE TuningNext
    BY <2>1, TuningStepRestores DEF DeskInd
  <2>2. CASE UNCHANGED tuningVars
    BY <2>2
  <2> QED
    BY <2>1, <2>2, StepsAreTheirs
<1>2. DeskInd => Logged
  BY TuningIndLog DEF DeskInd
<1>3. DeskSpec => []Logged /\ [][Restores]_tuningVars
  BY DeskInitInd, DeskStepInd, <1>1, <1>2, PTL DEF DeskSpec
<1> QED
  BY <1>3 DEF TuningIsLogged, PassRestores
=============================================================================
