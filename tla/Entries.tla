------------------------------ MODULE Entries ------------------------------
(***************************************************************************)
(* How much an entry may cost: the rails of one sweep over the daily       *)
(* weather markets, from the evaluation (forecast/strategy_engine.py) over *)
(* the admission of each candidate (forecast/runner.py,                    *)
(* covariance_engine.py) to the last plan and the order                    *)
(* (execution/kalshi_execution_controller.py), with the fees of config.py. *)
(*                                                                         *)
(* The sweep takes minutes.  The account's positions, its cash and the     *)
(* quotes move meanwhile, and every rail is computed from what was read at *)
(* some earlier moment.  Forecasts, quotes, depth, Kelly sizes and the     *)
(* portfolio variance are choices: each may veto or shrink a candidate.    *)
(* The concurrency cap and its swap are those of Trading; here a swap is   *)
(* one of the reasons why a candidate is dropped or the account moves.     *)
(*                                                                         *)
(* Markets are numbered in the order of their snapshots.  Money is in      *)
(* cents; a position carries the price paid for it, without fees.          *)
(***************************************************************************)
EXTENDS Integers, FiniteSets, FiniteSetsExt

CONSTANTS
  Markets,      \* 1..n
  Family,       \* the ticker's first part: a city's highs, or its lows
  Slot,         \* its first two parts: of one day
  Region,       \* _get_city_hub
  Axis,         \* 1 if a YES is on the warm and dry side, -1 if on the other
  MaxQty,       \* KALSHI_MAX_QTY_PER_POSITION
  PositionUsd,  \* KALSHI_MAX_USD_PER_POSITION
  KellyPct,     \* KALSHI_KELLY_CAP
  EventPct,     \* KALSHI_MAX_RISK_PER_EVENT_PCT
  DeployedPct,  \* KALSHI_MAX_DEPLOYED_PCT
  RegionMin,    \* KALSHI_HUB_EXPOSURE_MIN_USD
  RegionPct,    \* KALSHI_HUB_EXPOSURE_PCT
  FamilyCap,    \* KALSHI_SAME_EVENT_FAMILY_CAP
  Slippage,     \* KALSHI_MAX_ENTRY_SLIPPAGE
  Prices,       \* what a contract may cost
  Balances,     \* what the cash may be after it moved
  MaxMoves      \* bound: changes of the account that are not of this sweep

ASSUME EntriesAssumption ==
  /\ Markets \subseteq Nat /\ IsFiniteSet(Markets)
  /\ \A m \in Markets : Axis[m] \in {1, -1}
  /\ MaxQty \in Nat \ {0} /\ Prices \subseteq 1..99 /\ Balances \subseteq Nat
  /\ {PositionUsd, KellyPct, EventPct, DeployedPct, RegionMin, RegionPct, FamilyCap,
      Slippage, MaxMoves} \subseteq Nat

VARIABLES
  positions, \* the account at the exchange
  cash,
  stage,     \* where the sweep is
  ahead,     \* markets it has not evaluated yet
  charged,   \* family_exposures_usd of the evaluation
  offers,    \* candidates left
  pick,      \* the candidate in hand, and what it was admitted for
  seen,      \* open_positions as last read for the candidates
  bankroll,  \* the cash as last read for them
  moved,     \* history: the account moved since the last look before the order
  late,      \* history: markets whose position appeared since the evaluation
  entered,   \* history: slots with an order in this sweep
  moves

entriesVars == <<positions, cash, stage, ahead, charged, offers, pick, seen, bankroll,
                 moved, late, entered, moves>>
account == <<positions, cash, moved, late, moves>>

Least(a, b) == IF a <= b THEN a ELSE b
Greatest(a, b) == IF a >= b THEN a ELSE b
Magnitude(n) == IF n < 0 THEN -n ELSE n

\* estimate_kalshi_order_fee_usd: 7 % of p(1 - p), in whole cents for the order
Fee(n, price) == (7 * n * price * (100 - price) + 9999) \div 10000
\* estimate_kalshi_order_cost_usd
Cost(n, price) == n * price + Fee(n, price)
\* max_kalshi_contracts_for_budget, of those an order may have at all
IsMostFor(n, price, budget) ==
  /\ Cost(n, price) <= budget
  /\ n < MaxQty => Cost(n + 1, price) > budget

\* get_kalshi_conviction_bucket
Convictions == {"base", "high", "ultra"}
\* get_kalshi_position_cap_usd: twice as much for the surest, half as much again
\* for the sure
PositionCap(conviction) ==
  CASE conviction = "ultra" -> 2 * PositionUsd
    [] conviction = "high"  -> (3 * PositionUsd) \div 2
    [] conviction = "base"  -> PositionUsd
\* get_kalshi_hub_exposure_cap
RegionCap(balance) == Greatest(RegionMin, (RegionPct * balance) \div 100)
\* get_kalshi_effective_same_event_family_cap
FamilyCapFor(side, conviction) ==
  IF side = "NO" /\ conviction = "ultra" THEN FamilyCap + 1 ELSE FamilyCap
\* what may be held in one family
EventBudget(balance) == (EventPct * balance) \div 100

Sides == {"YES", "NO"}
Position(side, qty, paid) == [side |-> side, qty |-> qty, paid |-> paid]
Flat0 == Position("YES", 0, 0)
HeldIn(account0) == {m \in Markets : account0[m].qty > 0}
\* get_kalshi_position_snapshot_exposure_usd, of some of the markets together
Paid(account0, some) == MapThenSumSet(LAMBDA m : account0[m].paid, some)
InFamily(m) == {k \in Markets : Family[k] = Family[m]}
InRegion(m) == {k \in Markets : Region[k] = Region[m]}
\* _weather_directional_sign
Sign(m, side) == IF side = "YES" THEN Axis[m] ELSE -Axis[m]
\* signed dollars of a region, warm and dry against cold and wet
Leaning(account0, m) ==
  LET warm == {k \in InRegion(m) : Sign(k, account0[k].side) = 1} IN
  Paid(account0, warm) - Paid(account0, InRegion(m) \ warm)

\* _final_hub_exposure_check
LeanAfter(account0, m, side, cost) == Leaning(account0, m) + cost * Sign(m, side)
RegionAllows(account0, m, side, cost, balance) ==
  Magnitude(LeanAfter(account0, m, side, cost)) <= RegionCap(balance)

-----------------------------------------------------------------------------
(* The account.                                                            *)

\* fills of n contracts: bought on the other side, they cancel contracts out
After(p, side, n, price) ==
  IF p.qty = 0 \/ p.side = side THEN Position(side, p.qty + n, p.paid + n * price)
  ELSE IF n < p.qty THEN Position(p.side, p.qty - n, (p.paid * (p.qty - n)) \div p.qty)
  ELSE IF n = p.qty THEN Flat0
  ELSE Position(side, n - p.qty, (n - p.qty) * price)

\* a trade, a settlement or a late fill that is not this sweep's
PositionMoves(m, p) ==
  /\ moves < MaxMoves /\ moves' = moves + 1
  /\ p # positions[m] /\ positions' = [positions EXCEPT ![m] = p]
  /\ late' = IF p.qty = 0 THEN late \ {m}
             ELSE IF positions[m].qty = 0 \/ p.side # positions[m].side THEN late \cup {m}
             ELSE late
  /\ moved' = (stage \in {"funded", "posting"})
  /\ UNCHANGED <<cash, stage, ahead, charged, offers, pick, seen, bankroll, entered>>

CashMoves(balance) ==
  /\ moves < MaxMoves /\ moves' = moves + 1
  /\ balance # cash /\ cash' = balance
  /\ moved' = (stage \in {"funded", "posting"})
  /\ UNCHANGED <<positions, stage, ahead, charged, offers, pick, seen, bankroll, late,
                 entered>>

-----------------------------------------------------------------------------
(* run_strategy_cycle reads the cash, then the positions, and evaluates.   *)

Nothing == [market |-> 0, side |-> "YES", price |-> 0, qty |-> 0, conviction |-> "base",
            budget |-> 0]
EmptyHanded == pick' = Nothing
\* what was read for a candidate is read anew for the next
NothingRead == bankroll' = 0 /\ seen' = [m \in Markets |-> Flat0]
Goes(there) == stage' = there

EntriesInit ==
  /\ positions = [m \in Markets |-> Flat0] /\ cash \in Balances
  /\ stage = "idle" /\ ahead = {} /\ charged = [m \in Markets |-> 0] /\ offers = {}
  /\ pick = Nothing /\ seen = positions /\ bankroll = 0
  /\ moved = FALSE /\ late = {} /\ entered = {} /\ moves = 0

\* what is held is charged to its family, at the price paid for it
FamilyCharges == [m \in Markets |-> Paid(positions, InFamily(m))]

ReadCash ==
  /\ stage = "idle" /\ Goes("started") /\ bankroll' = cash
  /\ UNCHANGED <<account, ahead, charged, offers, pick, seen, entered>>

\* the deployed cap may leave nothing to evaluate
ReadPositions ==
  /\ stage = "started" /\ seen' = positions
  /\ LET deployed == Paid(positions, Markets) IN
     IF 100 * deployed < DeployedPct * (bankroll + deployed)
     THEN Goes("evaluating") /\ ahead' = Markets
     ELSE Goes("idle") /\ ahead' = {}
  /\ charged' = FamilyCharges
  /\ offers' = {} /\ entered' = {} /\ late' = {}
  /\ UNCHANGED <<positions, cash, moved, moves, pick, bankroll>>

\* what is left of the event's budget, and of the position's
RoomFor(m, conviction) ==
  Least(PositionCap(conviction), EventBudget(bankroll) - charged[m])

\* evaluate_contract up to its sizing: it is worth its price, and fits
Approved(m, side, price, qty, conviction) ==
  /\ Cardinality(HeldIn(seen) \cap InFamily(m)) < FamilyCapFor(side, conviction)
  /\ RoomFor(m, conviction) > 0
  /\ Cost(qty, price) <= Least(RoomFor(m, conviction), (KellyPct * bankroll) \div 100)
  /\ RegionAllows(seen, m, side, Cost(qty, price), bankroll)

\* mutant: a contract that is held may be bought on its other side
HeldSameSide(m, side) == seen[m].qty > 0 /\ seen[m].side = side
\* check_strike_consistency: no contract that is held, on whichever side
AlreadyHeld(m, side) == seen[m].qty > 0

\* _weather_market_gate and the veto of anything else
NotApproved(m) ==
  /\ stage = "evaluating" /\ m \in ahead /\ \A k \in ahead : m <= k
  /\ ahead' = ahead \ {m}
  /\ UNCHANGED <<account, stage, charged, offers, pick, seen, bankroll, entered>>

\* the family is charged before the contract is found held
Evaluate(m, side, price, qty, conviction) ==
  /\ stage = "evaluating" /\ m \in ahead /\ \A k \in ahead : m <= k
  /\ ahead' = ahead \ {m}
  /\ Approved(m, side, price, qty, conviction)
  /\ charged' = [k \in Markets |-> IF k \in InFamily(m) THEN charged[k] + Cost(qty, price)
                                   ELSE charged[k]]
  /\ offers' = IF AlreadyHeld(m, side) THEN offers
               ELSE offers \cup {[market |-> m, side |-> side, price |-> price, qty |-> qty,
                                  conviction |-> conviction, budget |-> 0]}
  /\ UNCHANGED <<account, stage, pick, seen, bankroll, entered>>

\* mutant: every strike of a slot stays on offer
BestOfAll(all) == {all}
\* _apply_best_event_slot_selection: of each slot, the one that ranks highest
BestOfSlots(all) ==
  {some \in SUBSET all :
     /\ \A o, p \in some : Slot[o.market] = Slot[p.market] => o = p
     /\ \A o \in all : \E p \in some : Slot[o.market] = Slot[p.market]}

Select ==
  /\ stage = "evaluating" /\ ahead = {} /\ Goes("loop")
  /\ offers' \in BestOfSlots(offers)
  /\ charged' = [m \in Markets |-> 0] /\ NothingRead
  /\ UNCHANGED <<account, ahead, pick, entered>>

-----------------------------------------------------------------------------
(* The candidate loop.                                                     *)

Drops == Goes("loop") /\ EmptyHanded /\ NothingRead

\* the firewall, its registration, its scope or an empty size vetoes it
Veto(o) ==
  /\ stage = "loop" /\ o \in offers /\ offers' = offers \ {o}
  /\ UNCHANGED <<account, stage, ahead, charged, pick, seen, bankroll, entered>>

\* _refresh_entry_risk_book
RefreshBook(o) ==
  /\ stage = "loop" /\ o \in offers /\ offers' = offers \ {o}
  /\ pick' = o /\ seen' = positions /\ Goes("admitting")
  /\ UNCHANGED <<account, ahead, charged, bankroll, entered>>

\* a failed read, a swap without room, or any rail below
Turn ==
  /\ stage \in {"admitting", "planned", "funded", "posting"} /\ Drops
  /\ UNCHANGED <<account, ahead, charged, offers, entered>>

\* check_and_shrink_candidate: the portfolio's variance and its marginal charge
\* only shrink; the absolute backstop is fee-inclusive
ShrunkFrom(qty) == 1..qty
HeldCost ==
  LET withFee(m) == seen[m].paid + Fee(seen[m].qty, seen[m].paid \div seen[m].qty) IN
  MapThenSumSet(withFee, HeldIn(seen))
BackedBy(n, price, balance) == 100 * (HeldCost + Cost(n, price)) <= 90 * balance

\* mutant: what the event holds is not taken off
CapitalWithoutEvent(m, n, price, balance) ==
  Least((DeployedPct * balance) \div 100 - Paid(seen, Markets), Cost(n, price))
\* TradeIntent.max_capital_usd; position_fraction is that of the shrunk size
CapitalFor(m, n, price, balance) ==
  Least(Least((DeployedPct * balance) \div 100 - Paid(seen, Markets),
              EventBudget(balance) - Paid(seen, InFamily(m))),
        Cost(n, price))

\* _refresh_entry_buying_power, and every rail once more on what was read
Admit(n) ==
  /\ stage = "admitting" /\ bankroll' = cash
  /\ n \in ShrunkFrom(pick.qty)
  /\ seen[pick.market].qty = 0 \/ seen[pick.market].side # pick.side
  /\ Cardinality(HeldIn(seen) \cap InFamily(pick.market))
       < FamilyCapFor(pick.side, pick.conviction)
  /\ BackedBy(n, pick.price, cash)
  /\ RegionAllows(seen, pick.market, pick.side, Cost(n, pick.price), cash)
  /\ pick' = [pick EXCEPT !.qty = n, !.budget = CapitalFor(pick.market, n, pick.price, cash)]
  /\ Goes("planned")
  /\ UNCHANGED <<account, ahead, charged, offers, seen, entered>>

\* mutant: the budget of the admission is not among the limits
LimitOfOrder(balance) ==
  Least(Least(PositionCap(pick.conviction), (KellyPct * balance) \div 100), balance)
\* plan_entry: what one order may cost
Limit(balance) ==
  Least(Least(balance, pick.budget),
        Least(PositionCap(pick.conviction), (KellyPct * balance) \div 100))

\* execute_plan plans again on the quote of this moment: the ask may have moved,
\* and fewer contracts may be on offer.  The first plan could only stop it
Replan(price, visible, n) ==
  /\ stage = "planned"
  /\ price <= pick.price + Slippage
  /\ IsMostFor(n, price, Limit(bankroll))
  /\ LET executable == Least(Least(pick.qty, visible), n) IN
     /\ executable > 0
     /\ pick' = [pick EXCEPT !.qty = executable, !.price = price]
  /\ Goes("priced")
  /\ UNCHANGED <<account, ahead, charged, offers, seen, bankroll, entered>>

\* _refresh_submission_risk_state: the balance first
RefreshFunds ==
  /\ stage = "priced"
  /\ IF cash >= bankroll /\ Cost(pick.qty, pick.price) <= cash
     THEN Goes("funded") /\ UNCHANGED <<pick, seen, bankroll>> /\ moved' = FALSE
     ELSE Drops /\ UNCHANGED moved
  /\ UNCHANGED <<positions, cash, late, moves, ahead, charged, offers, entered>>

\* mutant: only the number of positions is compared
SameCount(now, admitted) == Cardinality(HeldIn(now)) = Cardinality(HeldIn(admitted))
\* position_book_fingerprint
SameBook(now, admitted) == now = admitted

RefreshRiskBook ==
  /\ stage = "funded"
  /\ IF SameBook(positions, seen)
     THEN Goes("posting") /\ UNCHANGED <<pick, seen, bankroll>> ELSE Drops
  /\ UNCHANGED <<account, ahead, charged, offers, entered>>

\* the last gates passed, the order goes out.  It fills in part, in full or not
\* at all, at its limit or below; the reply may be lost, or a rate limit may end
\* the loop
PostEntry(n, price) ==
  /\ stage = "posting" /\ n <= pick.qty /\ price <= pick.price
  /\ positions' = [positions EXCEPT ![pick.market] = After(@, pick.side, n, price)]
  /\ cash' = Greatest(0, cash - (IF n = 0 THEN 0 ELSE Cost(n, price)))
  /\ entered' = entered \cup {Slot[pick.market]}
  /\ stage' \in {"loop", "idle"} /\ EmptyHanded /\ NothingRead
  /\ offers' = IF stage' = "idle" THEN {} ELSE offers
  /\ moved' = FALSE
  /\ UNCHANGED <<late, moves, ahead, charged>>

EndSweepOfMarkets ==
  /\ stage = "loop" /\ offers = {} /\ Goes("idle")
  /\ UNCHANGED <<account, ahead, charged, offers, pick, seen, bankroll, entered>>

EntriesNext ==
  \/ \E m \in Markets, side \in Sides, qty \in 1..MaxQty, price \in Prices :
       PositionMoves(m, Position(side, qty, qty * price)) \/ PositionMoves(m, Flat0)
  \/ \E balance \in Balances : CashMoves(balance)
  \/ ReadCash \/ ReadPositions
  \/ \E m \in Markets : NotApproved(m)
  \/ \E m \in Markets, side \in Sides, price \in Prices, qty \in 1..MaxQty,
        conviction \in Convictions : Evaluate(m, side, price, qty, conviction)
  \/ Select
  \/ \E o \in offers : Veto(o) \/ RefreshBook(o)
  \/ Turn \/ \E n \in 1..MaxQty : Admit(n)
  \/ \E price \in Prices, visible \in 1..MaxQty, n \in 0..MaxQty : Replan(price, visible, n)
  \/ RefreshFunds \/ RefreshRiskBook
  \/ \E n \in 0..MaxQty, price \in Prices : PostEntry(n, price)
  \/ EndSweepOfMarkets

EntriesSpec == EntriesInit /\ [][EntriesNext]_entriesVars

-----------------------------------------------------------------------------
(* Properties.                                                             *)

EntriesTypeOK ==
  LET accounts == [Markets -> [side : Sides, qty : Nat, paid : Nat]]
      records  == [market : Markets \cup {0}, side : Sides, price : Prices \cup {0},
                   qty : 0..MaxQty, conviction : Convictions, budget : Int]
  IN
  /\ positions \in accounts /\ seen \in accounts /\ cash \in Nat /\ bankroll \in Nat
  /\ stage \in {"idle", "started", "evaluating", "loop", "admitting", "planned", "priced",
                "funded", "posting"}
  /\ ahead \subseteq Markets /\ charged \in [Markets -> Nat]
  /\ offers \subseteq records /\ pick \in records
  /\ moved \in BOOLEAN /\ late \subseteq Markets /\ moves \in 0..MaxMoves
  /\ entered \subseteq {Slot[m] : m \in Markets}

(* Unless the account moved after the last look at it, an order that goes  *)
(* out leaves every rail standing on the account as it is then: the cash,  *)
(* the deployed cap, the event's 8 %, the position's cap, and the region,  *)
(* which leans no further than its cap or than it did.  The quote it is    *)
(* priced on is not the one it was admitted on (runner.py:1844, plan_entry *)
(* at controller 224).                                                     *)
RailsHold ==
  (stage = "posting" /\ ~moved) =>
    LET m == pick.market  cost == Cost(pick.qty, pick.price) IN
    /\ cost <= cash /\ cost <= PositionCap(pick.conviction)
    /\ 100 * (Paid(positions, Markets) + cost) <= DeployedPct * cash
    /\ Paid(positions, InFamily(m)) + cost <= EventBudget(cash)
    /\ Magnitude(LeanAfter(positions, m, pick.side, cost))
         <= Greatest(RegionCap(cash), Magnitude(Leaning(positions, m)))

(* "stopping the engine from spraying adjacent strikes" (strategy_engine   *)
(* 1908): one sweep sends one order at most into a settlement slot.        *)
OneOrderPerSlot == stage = "posting" => Slot[pick.market] \notin entered

(* "hedge_guard: cannot bet opposite side on existing strike" (strategy    *)
(* engine 1892) is asked at the evaluation, the duplicate guard of the     *)
(* loop knows one side only: an order meets a position in its market only  *)
(* if that appeared since the evaluation, and one on its own side only if  *)
(* it appeared since the last look.                                        *)
MeetsOnlyLate ==
  (stage = "posting" /\ positions[pick.market].qty > 0) =>
    /\ pick.market \in late
    /\ positions[pick.market].side = pick.side => moved

\* What was true when a candidate was judged and may not be when its order
\* goes out: the rails, one order to a slot, and nothing held in its market.
EntriesSound == RailsHold /\ OneOrderPerSlot /\ MeetsOnlyLate
=============================================================================
