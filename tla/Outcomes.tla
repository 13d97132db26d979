------------------------------ MODULE Outcomes ------------------------------
(***************************************************************************)
(* intelligence/outcomes.py and forecast/resolution_sync.py: how the       *)
(* results of markets reach the training table (intelligence_outcomes) and *)
(* the cockpit's table (forecast_resolutions).  Every process that runs    *)
(* run_execution_cycle does the same sweep over the same database: first   *)
(* the official results, market by market, then the provisional ones.      *)
(*                                                                         *)
(* A SELECT outside a transaction is a step of its own, and so is every    *)
(* commit; between two of them the other process works on the same market. *)
(* An exception (a request that fails, a locked database) ends the work on *)
(* one market, a crash ends the sweep.                                     *)
(***************************************************************************)
EXTENDS Integers, Sequences, FiniteSets

CONSTANTS
  Tickers,      \* the markets with a prediction and a contract row
  Void,         \* those that never finalize YES or NO
  CloseOrder,   \* when a market closes, as a rank
  Procs,        \* the processes that run the cycle
  MaxMarkets,   \* max_markets: how many markets one sweep asks about
  MaxPayloads,  \* bound: answers a finalized market gives over time
  MaxFaults     \* bound: failed requests, locked databases and crashes

ASSUME OutcomesAssumption ==
  /\ Void \subseteq Tickers /\ CloseOrder \in [Tickers -> Nat]
  /\ MaxMarkets \in Nat \ {0} /\ MaxPayloads \in Nat /\ MaxFaults \in Nat

VARIABLES
  closed,       \* the markets past their close
  market,       \* exchange: the finalized answers a market gave, latest last
  revisions,    \* intelligence_outcomes: the answers recorded, current last
  legacy,       \* forecast_resolutions: the row of a contract
  sync,         \* where each process is in its sweep
  faults,
  cut           \* history: recorded, but the legacy update did not follow

records == <<revisions, legacy>>
outcomesVars == <<closed, market, records, sync, faults, cut>>

Sides == {"YES", "NO"}
Published == [t \in Tickers |-> {market[t][i] : i \in DOMAIN market[t]}]
Register == INSTANCE ResolutionRegister
              WITH published <- Published, register <- legacy
Unresolved == Register!Unresolved
Resolved(basis, side) == Register!Resolved(basis, side)

Places == {"idle", "ask", "asked", "write", "legacy", "guess"}
\* ticker, answer: the market in hand and what it said; known: revisions read
Sweeps == [at : Places, todo : SUBSET Tickers, ticker : Tickers \cup {"none"},
           answer : Nat, known : Nat]
Resting == [at |-> "idle", todo |-> {}, ticker |-> "none", answer |-> 0, known |-> 0]

OutcomesInit ==
  /\ closed = {} /\ market = [t \in Tickers |-> <<>>]
  /\ revisions = [t \in Tickers |-> <<>>]
  /\ legacy = [t \in Tickers |-> Unresolved]
  /\ sync = [p \in Procs |-> Resting]
  /\ faults = 0 /\ cut = {}

-----------------------------------------------------------------------------
(* The exchange.                                                           *)

Close(t) ==
  /\ t \notin closed /\ closed' = closed \cup {t}
  /\ UNCHANGED <<market, records, sync, faults, cut>>

\* the market is finalized, or its payload changes after that
Finalize(t, side) ==
  /\ t \in closed \ Void /\ Len(market[t]) < MaxPayloads
  /\ market' = [market EXCEPT ![t] = Append(@, side)]
  /\ UNCHANGED <<closed, records, sync, faults, cut>>

-----------------------------------------------------------------------------
(* sync_official_market_outcomes                                           *)

Earlier(t, u) == CloseOrder[t] < CloseOrder[u]
\* the rows an ORDER BY market_close_at LIMIT n query returns
FirstOf(markets, n) ==
  {t \in markets : Cardinality({u \in markets : Earlier(u, t)}) < n}
Due == {t \in closed : revisions[t] = <<>>}

\* mutant: the batch is one market short
DueBatchShort(n) == FirstOf(Due, n - 1)
DueBatch(n) == FirstOf(Due, n)

BeginSync(p) ==
  /\ sync[p].at = "idle"
  /\ sync' = [sync EXCEPT ![p] = [Resting EXCEPT !.at = "ask", !.todo = DueBatch(MaxMarkets)]]
  /\ UNCHANGED <<closed, market, records, faults, cut>>

\* done with the market in hand, whatever came of it
Onward(p) ==
  sync' = [sync EXCEPT ![p] = [Resting EXCEPT !.at = "ask",
                                              !.todo = sync[p].todo \ {sync[p].ticker}]]

Ask(p, t) ==
  /\ sync[p].at = "ask" /\ t \in sync[p].todo
  /\ \A u \in sync[p].todo : ~Earlier(u, t)
  /\ sync' = IF market[t] = <<>> THEN [sync EXCEPT ![p].todo = @ \ {t}]
             ELSE [sync EXCEPT ![p].at = "asked", ![p].ticker = t,
                               ![p].answer = Len(market[t])]
  /\ UNCHANGED <<closed, market, records, faults, cut>>

\* record_outcome: the SELECT of the current revision
Current(t) == revisions[t][Len(revisions[t])]
\* mutant: the recorded payload is not compared with the one in hand
SameAnswerNever(t, answer) == FALSE
SameAnswer(t, answer) == revisions[t] # <<>> /\ Current(t) = answer

ReadCurrent(p) ==
  LET t == sync[p].ticker IN
  /\ sync[p].at = "asked"
  /\ sync' = [sync EXCEPT ![p].known = Len(revisions[t]),
       ![p].at = IF SameAnswer(t, sync[p].answer) THEN "legacy" ELSE "write"]
  /\ UNCHANGED <<closed, market, records, faults, cut>>

\* the insert and its commit; UNIQUE(ticker, revision) refuses a revision that
\* another process has written since
WriteRevision(p) ==
  LET t == sync[p].ticker IN
  /\ sync[p].at = "write"
  /\ IF Len(revisions[t]) = sync[p].known
     THEN /\ revisions' = [revisions EXCEPT ![t] = Append(@, sync[p].answer)]
          /\ sync' = [sync EXCEPT ![p].at = "legacy"]
     ELSE Onward(p) /\ UNCHANGED revisions
  /\ UNCHANGED <<closed, market, legacy, faults, cut>>

\* mutant: the upsert leaves a row that is already there alone
ConfirmedIfNew(t, side) ==
  IF legacy[t] = Unresolved THEN Resolved("CONFIRMED", side) ELSE legacy[t]
\* mutant: the basis is not one the table knows
ConfirmedAsOfficial(t, side) == Resolved("OFFICIAL", side)
Confirmed(t, side) == Resolved("CONFIRMED", side)

UpdateLegacy(p) ==
  LET t == sync[p].ticker IN
  /\ sync[p].at = "legacy"
  /\ legacy' = [legacy EXCEPT ![t] = Confirmed(t, market[t][sync[p].answer])]
  /\ Onward(p)
  /\ UNCHANGED <<closed, market, revisions, faults, cut>>

-----------------------------------------------------------------------------
(* sync_forecast_resolutions                                               *)

BeginGuesses(p) ==
  /\ sync[p].at = "ask" /\ sync[p].todo = {}
  /\ sync' = [sync EXCEPT ![p] = [Resting EXCEPT !.at = "guess",
       !.todo = {t \in closed : legacy[t] = Unresolved}]]
  /\ UNCHANGED <<closed, market, records, faults, cut>>

\* no weather observation, or a contract it does not settle
NoTruth(p, t) ==
  /\ sync[p].at = "guess" /\ t \in sync[p].todo
  /\ sync' = [sync EXCEPT ![p].todo = @ \ {t}]
  /\ UNCHANGED <<closed, market, records, faults, cut>>

\* mutant: INSERT OR REPLACE
GuessAnyway(t, side) == Resolved("PROVISIONAL", side)
\* insert_resolution: INSERT OR IGNORE
GuessIfUnresolved(t, side) ==
  IF legacy[t] = Unresolved THEN Resolved("PROVISIONAL", side) ELSE legacy[t]

Observe(p, t, side) ==
  /\ sync[p].at = "guess" /\ t \in sync[p].todo
  /\ legacy' = [legacy EXCEPT ![t] = GuessIfUnresolved(t, side)]
  /\ sync' = [sync EXCEPT ![p].todo = @ \ {t}]
  /\ UNCHANGED <<closed, market, revisions, faults, cut>>

EndSync(p) ==
  /\ sync[p].at = "guess" /\ sync[p].todo = {}
  /\ sync' = [sync EXCEPT ![p] = Resting]
  /\ UNCHANGED <<closed, market, records, faults, cut>>

-----------------------------------------------------------------------------
(* What goes wrong.                                                        *)

Fault == faults < MaxFaults /\ faults' = faults + 1
CutOff(p) ==
  cut' = IF sync[p].at = "legacy" THEN cut \cup {sync[p].ticker} ELSE cut

\* the request fails
AskFails(p, t) ==
  /\ sync[p].at = "ask" /\ t \in sync[p].todo /\ Fault
  /\ sync' = [sync EXCEPT ![p].todo = @ \ {t}]
  /\ UNCHANGED <<closed, market, records, cut>>

\* an exception on the market in hand: caught, and the sweep goes on
MarketFails(p) ==
  /\ sync[p].at \in {"asked", "write", "legacy"} /\ Fault
  /\ Onward(p) /\ CutOff(p)
  /\ UNCHANGED <<closed, market, records>>

\* the process dies, or an exception the cycle catches ends the sweep
SyncDies(p) ==
  /\ sync[p].at # "idle" /\ Fault
  /\ sync' = [sync EXCEPT ![p] = Resting] /\ CutOff(p)
  /\ UNCHANGED <<closed, market, records>>

-----------------------------------------------------------------------------
Sweep(p) ==
  \/ BeginSync(p) \/ ReadCurrent(p) \/ WriteRevision(p) \/ UpdateLegacy(p)
  \/ BeginGuesses(p) \/ EndSync(p)
  \/ \E t \in Tickers : Ask(p, t) \/ NoTruth(p, t)
  \/ \E t \in Tickers, side \in Sides : Observe(p, t, side)

OutcomesNext ==
  \/ \E t \in Tickers : Close(t)
  \/ \E t \in Tickers, side \in Sides : Finalize(t, side)
  \/ \E p \in Procs : Sweep(p) \/ MarketFails(p) \/ SyncDies(p)
  \/ \E p \in Procs, t \in Tickers : AskFails(p, t)

OutcomesSpec == OutcomesInit /\ [][OutcomesNext]_outcomesVars

-----------------------------------------------------------------------------
(* The bookkeeping is what it seems: answers recorded were given, and a    *)
(* process that holds a market knows which.                                *)
OutcomesTypeOK ==
  /\ closed \subseteq Tickers /\ cut \subseteq Tickers /\ faults \in 0..MaxFaults
  /\ market \in [Tickers -> Seq(Sides)]
  /\ revisions \in [Tickers -> Seq(Nat \ {0})]
  /\ legacy \in [Tickers -> Register!Rows]
  /\ sync \in [Procs -> Sweeps]

\* Two sweeps that overlap on a market never record one answer twice running:
\* record_outcome's comparison is made before its transaction, and only the
\* unique index on (ticker, revision) makes the pair atomic.  So a market whose
\* answer never changed is one training row.
NoAnswerTwice ==
  \A t \in Tickers : \A i \in 1..(Len(revisions[t]) - 1) :
    revisions[t][i] # revisions[t][i + 1]

\* Once the sweeps have let go of a market that was recorded, the cockpit's row
\* says what the exchange said, as CONFIRMED: unless the exchange changed its
\* answer (two sweeps may then write their answers in either order), or the
\* second transaction was cut off from the first (the market is not due any
\* more, and no one comes back for it).
LegacyFollowsRecord ==
  \A t \in Tickers :
    (revisions[t] # <<>> /\ t \notin cut /\ Cardinality(Published[t]) = 1
     /\ \A p \in Procs : ~(sync[p].at = "legacy" /\ sync[p].ticker = t))
    => legacy[t].basis = "CONFIRMED" /\ legacy[t].side \in Published[t]

\* The two writers implement the register: whatever order they come in, an
\* official result is never turned back into a weather guess, and nothing is
\* confirmed that the exchange has not published.
ImplementsRegister == Register!RegisterSpec

\* A finalized market is recorded at last.  Markets that never finalize stay
\* due for ever and are asked about first, so this holds only while they leave
\* room in the batch of MaxMarkets.
FinalizedIsRecorded ==
  \A t \in Tickers : (market[t] # <<>>) ~> (revisions[t] # <<>>)
=============================================================================
