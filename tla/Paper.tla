------------------------------- MODULE Paper -------------------------------
(***************************************************************************)
(* SHADOW_EXECUTION: the dry-run account that execution/kalshi_broker.py   *)
(* keeps in logs/shadow_balance.json, shared by the processes, and the     *)
(* paper position book each of them keeps in memory.                       *)
(*                                                                         *)
(* An order crosses the market's quote (external), reads the balance file, *)
(* rewrites it, and books and journals the trade.  Money is in cents.      *)
(***************************************************************************)
EXTENDS Integers

CONSTANTS
  Runners,      \* processes that trade in shadow mode
  Legs,         \* ticker and right
  AccountSize,  \* ACCOUNT_SIZE
  Quotes,       \* prices the quotes show
  MaxDepth,     \* contracts resting at a quote
  MaxTrades     \* bound: executions

ASSUME PaperAssumption ==
  /\ AccountSize \in Nat /\ Quotes \subseteq 1..99 /\ MaxDepth \in Nat \ {0} /\ MaxTrades \in Nat

VARIABLES
  file,      \* shadow_balance.json: its balance, or Missing, or cut short: Torn
  paper,     \* process -> _paper_balance, book, and the execution under way
  journal,   \* what the rows of the trades table add up to
  trades,    \* executions so far
  undisturbed  \* no write has failed, met another's, or been cut short

paperVars == <<file, paper, journal, trades, undisturbed>>

NoOrder == [contract |-> "none", qty |-> 0, cash |-> 0]
Offline == [at |-> "down", balance |-> 0, book |-> [c \in Legs |-> 0], order |-> NoOrder]

Missing == -1
Torn == -2
Readable == file \in Nat
Executing(p) == paper[p].at \in {"filled", "opened", "saved"}

\* estimate_kalshi_order_fee_usd: seven per cent of p(1-p), rounded up to a cent
PaperFee(n, price) == (7 * n * price * (100 - price) + 9999) \div 10000

\* _init_shadow_balance: a missing file is written
PaperConnect(p) ==
  /\ paper[p].at = "down"
  /\ file' = IF file = Missing THEN AccountSize ELSE file
  /\ paper' = [paper EXCEPT ![p] =
       [Offline EXCEPT !.at = "idle", !.balance = IF Readable THEN file ELSE AccountSize]]
  /\ UNCHANGED <<journal, trades, undisturbed>>

\* mutant: the balance in memory is trusted
OwnBalance(p) == paper[p].balance
\* an unreadable file leaves the balance in memory
BalanceRead(p) == IF Readable THEN file ELSE paper[p].balance

\* get_account_balance, and the orders that end without an execution
PaperRead(p) ==
  /\ paper[p].at = "idle"
  /\ paper' = [paper EXCEPT ![p].balance = BalanceRead(p)]
  /\ UNCHANGED <<file, journal, trades, undisturbed>>

\* _sync_positions, once a cycle: _restore_shadow_positions
PaperSync(p) ==
  /\ paper[p].at = "idle"
  /\ paper' = [paper EXCEPT ![p].book = Offline.book]
  /\ UNCHANGED <<file, journal, trades, undisturbed>>

\* up to the new balance in memory
Filled(p, order, balance) ==
  /\ paper[p].at = "idle" /\ trades < MaxTrades /\ trades' = trades + 1
  /\ paper' = [paper EXCEPT ![p].at = "filled", ![p].order = order,
                            ![p].balance = balance + order.cash]
  /\ undisturbed' = (undisturbed /\ \A q \in Runners : ~Executing(q))
  /\ UNCHANGED <<file, journal>>

\* _execute_shadow_buy: crossing the ask, up to the size that rests there
ShadowBuy(p, c, wanted, price, depth) ==
  LET qty  == IF wanted < depth THEN wanted ELSE depth
      cost == qty * price + PaperFee(qty, price)
  IN /\ qty > 0 /\ cost <= BalanceRead(p)
     /\ Filled(p, [contract |-> c, qty |-> qty, cash |-> -cost], BalanceRead(p))

\* _execute_shadow_sell: crossing the bid, out of what the book holds
ShadowSell(p, c, wanted, price, depth) ==
  LET held == paper[p].book[c]
      asked == IF wanted < held THEN wanted ELSE held
      qty  == IF asked < depth THEN asked ELSE depth
  IN /\ qty > 0
     /\ Filled(p, [contract |-> c, qty |-> -qty, cash |-> qty * price - PaperFee(qty, price)],
               BalanceRead(p))

\* open(path, "w"): the file is empty until it is written and closed
OpenBalance(p) ==
  /\ paper[p].at = "filled" /\ file' = Torn
  /\ paper' = [paper EXCEPT ![p].at = "opened"]
  /\ UNCHANGED <<journal, trades, undisturbed>>

Booked(p, at) ==
  [paper EXCEPT ![p].at = at, ![p].book[paper[p].order.contract] = @ + paper[p].order.qty]

WriteBalance(p) ==
  /\ paper[p].at = "opened" /\ file' = paper[p].balance
  /\ paper' = Booked(p, "saved")
  /\ UNCHANGED <<journal, trades, undisturbed>>

\* a failure to write the file is logged, and the execution stands
BalanceNotSaved(p) ==
  /\ paper[p].at = "filled" /\ paper' = Booked(p, "saved")
  /\ undisturbed' = FALSE
  /\ UNCHANGED <<file, journal, trades>>

\* log_trade; its failure, too, is only logged
LogTrade(p, logged) ==
  /\ paper[p].at = "saved"
  /\ journal' = IF logged THEN journal + paper[p].order.cash ELSE journal
  /\ undisturbed' = (undisturbed /\ logged)
  /\ paper' = [paper EXCEPT ![p].at = "idle", ![p].order = NoOrder]
  /\ UNCHANGED <<file, trades>>

\* before it touches the file, a process may die without harm
PaperDies(p) ==
  /\ paper[p].at # "down"
  /\ paper' = [paper EXCEPT ![p] = Offline]
  /\ undisturbed' = (undisturbed /\ paper[p].at \notin {"opened", "saved"})
  /\ UNCHANGED <<file, journal, trades>>

PaperInit ==
  /\ file = Missing /\ paper = [p \in Runners |-> Offline]
  /\ journal = 0 /\ trades = 0 /\ undisturbed = TRUE

PaperNext ==
  \E p \in Runners :
    \/ PaperConnect(p) \/ PaperRead(p) \/ PaperSync(p) \/ PaperDies(p)
    \/ \E c \in Legs, n \in {1, MaxDepth}, price \in Quotes, depth \in 1..MaxDepth :
         ShadowBuy(p, c, n, price, depth) \/ ShadowSell(p, c, n, price, depth)
    \/ OpenBalance(p) \/ WriteBalance(p) \/ BalanceNotSaved(p)
    \/ \E logged \in BOOLEAN : LogTrade(p, logged)

PaperSpec == PaperInit /\ [][PaperNext]_paperVars

-----------------------------------------------------------------------------
PaperTypeOK ==
  /\ file \in {Missing, Torn} \cup Nat
  /\ DOMAIN paper = Runners /\ undisturbed \in BOOLEAN /\ journal \in Int /\ trades \in 0..MaxTrades
  /\ \A p \in Runners :
       /\ paper[p].at \in {"down", "idle", "filled", "opened", "saved"}
       /\ paper[p].balance \in Nat /\ paper[p].book \in [Legs -> Nat]

\* The account is what its journal says: as long as the executions of the
\* processes do not overlap and no write fails or is cut short, the balance in
\* the file is the account's size and what the journalled trades add up to.
BalanceFollowsTrades ==
  undisturbed /\ file # Missing /\ (\A p \in Runners : ~Executing(p)) =>
    file = AccountSize + journal
=============================================================================
