----------------------------- MODULE Admission -----------------------------
(***************************************************************************)
(* What forecast/strategy_engine.py decides about one market: from two     *)
(* models' probabilities (forecast/pricing_engine.py, primitives.py) and   *)
(* the quotes of both sides to a side and a number of contracts, or none.  *)
(* dashboard/jarvis_brain.py may change two of its parameters meanwhile.   *)
(*                                                                         *)
(* Money is in cents and probability in per cent.  Temperatures, their     *)
(* densities and the blend of the models are data: the market says what    *)
(* came out of them.  The rails of the whole book, which the sweep then    *)
(* applies, are in module Entries.                                         *)
(***************************************************************************)
EXTENDS Integers, FiniteSetsExt

CONSTANTS
  Markets,    \* what a market may show at first
  Turns,      \* and what it may turn into
  Kellies,    \* values Jarvis proposes for KELLY_FRACTION, in per cent
  Floors,     \* and for the hub's hard_rbi_threshold
  Bankroll    \* cents

\* a price of 0 is a side that is not quoted, a depth of 0 one that is not known
Shapes ==
  [yes : 0..100, no : 0..100, gfs : 0..100, ecmwf : 0..100, blend : 0..100,
   mode : STRING, bin : BOOLEAN, projected : BOOLEAN, headroom : Int, spread : Nat,
   minutes : Int, depth : Nat, room : Nat, certainty : Nat, sameEvent : BOOLEAN, proven : BOOLEAN,
   trouble : STRING]

ASSUME AdmissionAssumption ==
  /\ Markets \subseteq Shapes /\ Turns \subseteq Markets
  /\ Kellies \subseteq Nat /\ Floors \subseteq Nat /\ Bankroll \in Nat \ {0}

VARIABLES
  market,   \* the market as it stands
  tuned,    \* dynamic_system_config: its value or Untuned
  choice    \* what evaluate_contract made of it

admissionVars == <<market, tuned, choice>>

Untuned == -1
NotQuoted == 0
NoChoice == [side |-> "none", qty |-> 0, kelly |-> 0]

\* config.py
KellyFraction == 25
KellyCap == 12
MaxQty == 15
PositionUsd == 1000
EdgeFloor == 12
MinPrice == 34
PremiumPrice == 70
PremiumEdge == 1
MinHeadroom == 2
DailyBracket == 20..70

Lesser(a, b) == IF a < b THEN a ELSE b
Greater(a, b) == IF a > b THEN a ELSE b
Within(low, x, high) == Greater(low, Lesser(x, high))

-----------------------------------------------------------------------------
(* Fees                                                                    *)

\* in ten-thousandths of a cent, before the exchange rounds
RawFee(n, price) == 7 * n * price * (100 - price)
\* rounded up to a cent
OrderFee(n, price) == (RawFee(n, price) + 9999) \div 10000
OrderCost(n, price) == n * price + OrderFee(n, price)
\* mutant: the fee is paid from elsewhere
AffordableUnfeed(price, budget) == Lesser(MaxQty, budget \div price)
Affordable(price, budget) == Max({n \in 0..MaxQty : OrderCost(n, price) <= budget})

\* Of the cost of getting out again, 48 per cent count.  A round trip of n
\* contracts leaves this much, in 1/25 cents.
RoundTrip(n, prob, price) == 25 * n * (prob - price) - 37 * OrderFee(n, price)

\* _weather_net_edge, of a single contract
NetEdge(prob, price) == RoundTrip(1, prob, price)
ClearsEdge(prob, price, floor) == price # NotQuoted /\ NetEdge(prob, price) >= 25 * floor

-----------------------------------------------------------------------------
(* The probability.                                                        *)

Gap(m) == Greater(m.gfs - m.ecmwf, m.ecmwf - m.gfs)
BothIn(m, tail) == m.gfs \in tail /\ m.ecmwf \in tail

\* convergence_guardrail
Confidence(m) == IF Gap(m) > 20 THEN Greater(55, 100 - (90 * (Gap(m) - 20)) \div 100) ELSE 100
DivergenceSize(m) == IF Gap(m) > 20 THEN Greater(60, 100 - (80 * (Gap(m) - 20)) \div 100) ELSE 100
ConvergenceSize(m) == IF BothIn(m, 76..100) \/ BothIn(m, 0..24) THEN 150 ELSE 100
Diverged(m) == Gap(m) > 70

\* apply_divergence_probability_guard
Guarded(m) ==
  IF Confidence(m) = 100 THEN m.blend
  ELSE Within(3, 50 + ((m.blend - 50) * Confidence(m)) \div 100, 97)

Prob(m, side) == IF side = "YES" THEN Guarded(m) ELSE 100 - Guarded(m)
Ask(m, side) == IF side = "YES" THEN m.yes ELSE m.no
Sides == {"YES", "NO"}

-----------------------------------------------------------------------------
(* _strategy_weather_details                                               *)

Unpriceable(m) ==
  m.trouble \in {"blacklisted", "no forecast", "unsupported", "ambiguous", "pricing error"}

Tempting(m, side) == Ask(m, side) # NotQuoted /\ Prob(m, side) > Ask(m, side)

Premium(m) ==
  /\ Tempting(m, "YES") /\ m.yes >= PremiumPrice
  /\ ~ClearsEdge(Prob(m, "YES"), m.yes, Greater(EdgeFloor, PremiumEdge))

\* mutant: whichever side is cheap
CheapAtAll(m, side) == Ask(m, side) # NotQuoted /\ Ask(m, side) < MinPrice
\* penny_veto
Penny(m, side) == Tempting(m, side) /\ Ask(m, side) < MinPrice

BannedBin(m) == m.bin /\ m.mode # "TEMP"

\* _projection_headroom_f is how far the projection lies on a side's side
HasHeadroom(m, side) ==
  m.bin \/ ~m.projected \/ (IF side = "YES" THEN m.headroom ELSE -m.headroom) >= MinHeadroom
PastPeak(m, side) == side = "YES" /\ m.mode = "HIGH" /\ m.trouble = "cooling"

Vetoed(m) ==
  \/ Unpriceable(m) \/ Diverged(m) \/ m.trouble = "chaos"
  \/ Premium(m) \/ (\E side \in Sides : Penny(m, side)) \/ BannedBin(m)

\* YES is looked at first, and its last vetoes end the search
SideOf(m) ==
  IF Vetoed(m) THEN "none"
  ELSE IF ClearsEdge(Prob(m, "YES"), m.yes, EdgeFloor)
       THEN IF HasHeadroom(m, "YES") /\ ~PastPeak(m, "YES") THEN "YES" ELSE "none"
  ELSE IF ClearsEdge(Prob(m, "NO"), m.no, EdgeFloor) /\ HasHeadroom(m, "NO") THEN "NO"
  ELSE "none"

-----------------------------------------------------------------------------
(* The size.                                                               *)

Clamped(prob) == Within(1, prob, 99)

\* the buckets of get_kalshi_position_cap_usd, and the event's remaining room
PositionCap(m, prob) ==
  Lesser(m.room, (PositionUsd * (IF prob >= 90 THEN 200 ELSE IF prob >= 80 THEN 150 ELSE 100)) \div 100)
Budget(m, prob) == Lesser(PositionCap(m, prob), (KellyCap * Bankroll) \div 100)

\* sigma and AIGFS's lambda are one factor of the market's
Multiplier(m) ==
  LET size == (ConvergenceSize(m) * DivergenceSize(m) * m.certainty) \div 10000 IN
  IF m.sameEvent THEN size \div 2 ELSE size

\* a logistic curve around 70 per cent, in steps
FavoriteScaler(prob) ==
  IF prob >= 88 THEN 100 ELSE IF prob >= 76 THEN 90 ELSE IF prob >= 64 THEN 75 ELSE 62

\* the best fraction, in thousandths, when n contracts share the fee
Kelly(n, prob, price) ==
  LET k == Greater(1, n)
      edge == RoundTrip(k, prob, price)
  IN IF edge <= 0 THEN 0 ELSE (1000 * edge) \div RoundTrip(k, 100, price)

\* what is then spent, in cents
Spend(fraction, kelly, multiplier, prob) ==
  LET share == (((fraction * kelly * multiplier) \div 1000) * FavoriteScaler(prob)) \div 100
  IN (share * Bankroll) \div 10000

\* calculate_optimal_vwap_size of the top of the book; an unknown depth is no limit
FromBook(n, m, prob, price, spend) ==
  IF m.depth = 0 THEN n
  ELSE IF 10000 * (prob - price) < RawFee(1, price) THEN 0
  ELSE Lesser(n, Lesser(m.depth, (10000 * spend) \div (10000 * price + RawFee(1, price))))

\* one round of solve_optimal_size
Resize(n, m, kelly, prob, price) ==
  LET k == Greater(1, n)
      fraction == Kelly(n, prob, price)
      spend == Spend(fraction, kelly, Multiplier(m), prob)
      bought == (25 * k * spend) \div (25 * k * price + 37 * OrderFee(k, price))
      taken == FromBook(bought, m, prob, price, spend)
  IN IF fraction = 0 THEN 0 ELSE Lesser(taken, MaxQty)

Rounds == 5
Begin == 100
Solved(m, kelly, prob, price) ==
  LET size[k \in 0..Rounds] == IF k = 0 THEN Begin ELSE Resize(size[k - 1], m, kelly, prob, price)
  IN size[Rounds]

\* the conviction ramp, all or nothing: only a record of resolved trades earns it
Convinced(m, n, prob, price) == m.proven /\ n > 0 /\ Kelly(n, prob, price) >= 787
UltraAlloc(m, prob) ==
  Lesser(Budget(m, prob), Greater(2000, (18 * Bankroll * Greater(100, Multiplier(m))) \div 10000))

\* calculate_continuous_sizing
Sized(m, kelly, prob, price) ==
  LET n == Solved(m, kelly, prob, price)
      more == IF Convinced(m, n, prob, price)
              THEN Lesser(Greater(n, UltraAlloc(m, prob) \div price), MaxQty) ELSE n
  IN Lesser(more, Affordable(price, Budget(m, prob)))

-----------------------------------------------------------------------------
(* evaluate_contract                                                       *)

\* _weather_market_gate
Hourly(m) == m.mode = "TEMP"
Gated(m) ==
  \/ m.trouble \in {"held", "deployed", "crowded"}
  \/ m.minutes < (IF Hourly(m) THEN 20 ELSE 60) \/ m.minutes > 7200
  \/ m.spread > (IF Hourly(m) THEN 22 ELSE 12)
  \/ m.mode \in {"HIGH", "LOW"} /\ m.yes # NotQuoted /\ m.yes \notin DailyBracket
  \/ LET quoted == {side \in Sides : Ask(m, side) # NotQuoted}
         sum == MapThenSumSet(LAMBDA side : Ask(m, side), quoted)
     IN /\ sum >= 5 * Cardinality(quoted)
        /\ 100 * m.spread * Cardinality(quoted) > (IF Hourly(m) THEN 36 ELSE 35) * sum

NotEvaluated(m) ==
  \/ m.trouble \in {"stale forecast", "stale quotes", "foreign"}
  \/ m.yes = NotQuoted /\ m.no = NotQuoted

\* a parameter Jarvis has set, unless the database cannot be read
Param(key, default, readable) ==
  IF readable /\ tuned[key] # Untuned THEN tuned[key] ELSE default

\* the depth is looked at again, then the number of contracts and their cost
Clamp(n, m, prob, price) ==
  LET shown == IF m.depth > 0 THEN Lesser(n, m.depth) ELSE n
  IN Lesser(Lesser(shown, MaxQty), Affordable(price, Budget(m, prob)))

Choose(m, readable) ==
  LET side  == SideOf(m)
      prob  == Prob(m, side)
      price == Ask(m, side)
      floor == Param("floor", 0, readable)
      kelly == Param("kelly", KellyFraction, readable)
      n     == Clamp(Sized(m, kelly, Clamped(prob), price), m, Clamped(prob), price)
  IN IF NotEvaluated(m) \/ side = "none" \/ Clamped(prob) < floor
        \/ PositionCap(m, prob) = 0 \/ Gated(m) \/ n = 0
     THEN NoChoice ELSE [side |-> side, qty |-> n, kelly |-> kelly]

Evaluate(readable) ==
  /\ choice = NoChoice
  /\ choice' = Choose(market, readable)
  /\ UNCHANGED <<market, tuned>>

MarketShows(m) == market' = m /\ choice' = NoChoice /\ UNCHANGED tuned

\* audit_parameter of the shield, then update_system_parameter
Shielded(key, value) == IF key = "kelly" THEN value \in 1..50 ELSE value \in 50..95
JarvisTunes(key, value) ==
  /\ Shielded(key, value)
  /\ tuned' = [tuned EXCEPT ![key] = value] /\ choice' = NoChoice
  /\ UNCHANGED market

AdmissionInit ==
  /\ market \in Markets /\ choice = NoChoice
  /\ tuned = [key \in {"kelly", "floor"} |-> Untuned]

AdmissionNext ==
  \/ \E readable \in BOOLEAN : Evaluate(readable)
  \/ \E m \in Turns : MarketShows(m)
  \/ \E value \in Kellies : JarvisTunes("kelly", value)
  \/ \E value \in Floors : JarvisTunes("floor", value)

AdmissionSpec == AdmissionInit /\ [][AdmissionNext]_admissionVars

-----------------------------------------------------------------------------
AdmissionTypeOK ==
  /\ market \in Markets
  /\ choice \in [side : Sides \cup {"none"}, qty : 0..MaxQty, kelly : 0..50]
  /\ tuned["kelly"] \in 1..50 \cup {Untuned} /\ tuned["floor"] \in 50..95 \cup {Untuned}

\* Whatever is bought clears the hurdle at its own size: with the fee the
\* exchange charges on the whole order, rounded up once, and the discounted way
\* out, every contract leaves EdgeFloor; and the order costs no more than the
\* position's cap, the share of the bankroll, and the event's room allow.
EntriesClearHurdle ==
  choice.qty > 0 =>
    LET prob == Prob(market, choice.side)
        price == Ask(market, choice.side)
    IN /\ RoundTrip(choice.qty, prob, price) >= 25 * EdgeFloor * choice.qty
       /\ OrderCost(choice.qty, price) <= Budget(market, Clamped(prob))

\* The vetoes are the market's, yet one side's never spoils the other: with both
\* sides quoted at no less than a dollar together, the strategy takes a side just
\* when it would take it with the other side not quoted.
NoSideSpoilsOther ==
  market.yes # NotQuoted /\ market.no # NotQuoted /\ market.yes + market.no >= 100 =>
    /\ SideOf(market) = "YES" <=> SideOf([market EXCEPT !.no = NotQuoted]) = "YES"
    /\ SideOf(market) = "NO" <=> SideOf([market EXCEPT !.yes = NotQuoted]) = "NO"

\* From whatever size a round of the solver begins with, it buys no more for a
\* lower Kelly fraction: not through the fee of the order, which is rounded up as
\* a whole, nor through the fee and the depth of the book.  Five rounds on end need
\* not do so: those of two fractions begin with different sizes, and the smaller
\* size may share a smaller fee.
LessKellyBuysNoMore ==
  choice.qty > 0 =>
    LET prob == Clamped(Prob(market, choice.side))
        price == Ask(market, choice.side)
    IN \A kelly \in Kellies, n \in 0..MaxQty \cup {Begin} :
         kelly < choice.kelly =>
           Resize(n, market, kelly, prob, price) <= Resize(n, market, choice.kelly, prob, price)

\* The three of them: what is chosen is worth its price, is not missed for the
\* other side's sake, and no round buys more when Jarvis turns Kelly down.
ChoicesAreSound == EntriesClearHurdle /\ NoSideSpoilsOther /\ LessKellyBuysNoMore
=============================================================================
