----------------------------- MODULE Readiness -----------------------------
(***************************************************************************)
(* Whether the lane may enter trades, as its own row says and as an audit  *)
(* finds: the execution cycle of forecast/runner.py stamps and publishes   *)
(* lane_runtime_state (runtime/runtime_state.py), runtime/operator_truth.py*)
(* reads it back for the gate before every entry, and                      *)
(* scripts/release_audit.py judges the same facts for the artifact and for *)
(* an operator who wants to promote a build.  Module Release has the       *)
(* builds and the writing of the artifact; here there is one build, and    *)
(* the artifact is written in one step.                                    *)
(*                                                                         *)
(* Time is in ticks, and an age stops one tick past its limit.  Money is   *)
(* in dollars.                                                             *)
(***************************************************************************)
EXTENDS Integers, FiniteSets

CONSTANTS
  Loops,        \* processes that run the execution cycle on one database
  Series,       \* weather series
  Limit,        \* series -> the age its contracts tolerate
  StaleAfter,   \* FORECAST_HEARTBEAT_STALE_SECONDS
  SampleLimit,  \* series that the gate looks at
  Deposit,      \* the account's cash at first
  Cost,         \* of an entry
  MaxWorldMoves, \* bound: changes of the world
  MaxAudits     \* bound

ASSUME ReadinessAssumption ==
  /\ IsFiniteSet(Series) /\ Limit \in [Series -> Nat]
  /\ StaleAfter \in Nat /\ SampleLimit \in Nat \ {0}
  /\ Deposit \in Nat /\ Cost \in Nat /\ MaxWorldMoves \in Nat /\ MaxAudits \in Nat

VARIABLES
  row,       \* lane_runtime_state of lane "forecast"
  loop,      \* process -> its cycle
  cash,
  answering, \* Kalshi answers requests
  critical,  \* an unresolved critical incident
  weather,   \* series -> age of its shared weather snapshot
  listed,    \* series with active contracts
  artifact,  \* the last audit of this build
  promotion, \* what the operator's promotion said, and whether its artifact passes
  moves,
  audits

readinessVars ==
  <<row, loop, cash, answering, critical, weather, listed, artifact, promotion, moves, audits>>

NoData == -1
Tolerance == 1  \* get_balance_truth_status

AtRest == [at |-> "idle", linked |-> FALSE, stamped |-> FALSE, age |-> 0,
           approved |-> {}, refused |-> {}]
NoArtifact == [passing |-> FALSE, balanceOk |-> FALSE, seen |-> [s \in Series |-> NoData]]
NoPromotion == [verdict |-> "none", audited |-> FALSE]

ReadinessInit ==
  /\ row = [known |-> FALSE, active |-> FALSE, beat |-> StaleAfter + 1, shows |-> "UNKNOWN",
            tradable |-> FALSE, power |-> 0]
  /\ loop = [p \in Loops |-> AtRest]
  /\ cash = Deposit /\ answering = TRUE /\ critical = FALSE
  /\ weather = [s \in Series |-> 0] /\ listed = Series
  /\ artifact = NoArtifact /\ promotion = NoPromotion /\ moves = 0 /\ audits = 0

-----------------------------------------------------------------------------
(* The world.                                                              *)

Older(age, limit) == IF age > limit THEN age ELSE age + 1

TimePasses ==
  /\ row' = [row EXCEPT !.beat = Older(@, StaleAfter)]
  /\ loop' = [p \in Loops |-> IF loop[p].at \in {"idle", "dead"} THEN loop[p]
                              ELSE [loop[p] EXCEPT !.age = Older(@, StaleAfter)]]
  /\ weather' = [s \in Series |-> IF weather[s] = NoData THEN NoData ELSE Older(weather[s], Limit[s])]
  /\ UNCHANGED <<cash, answering, critical, listed, artifact, promotion, moves, audits>>

\* the monitor stores a new forecast, or its snapshot is lost
SeriesTurns(s) ==
  /\ weather' = [weather EXCEPT ![s] = IF @ = NoData \/ @ > 0 THEN 0 ELSE NoData]
  /\ moves < MaxWorldMoves /\ moves' = moves + 1
  /\ UNCHANGED <<row, loop, cash, answering, critical, listed, artifact, promotion, audits>>

WorldTurns ==
  /\ moves < MaxWorldMoves /\ moves' = moves + 1
  /\ \/ answering' = ~answering /\ UNCHANGED <<critical, listed, cash>>
     \/ critical' = ~critical /\ UNCHANGED <<answering, listed, cash>>
     \/ \E s \in Series : listed' = {s} /\ UNCHANGED <<answering, critical, cash>>
     \/ cash' = cash + Cost /\ UNCHANGED <<answering, critical, listed>>
  /\ UNCHANGED <<row, loop, weather, artifact, promotion, audits>>

\* an error payload has no balance_dollars
BalanceSeen == IF answering THEN cash ELSE 0

-----------------------------------------------------------------------------
(* The lane's row, and the cycle that writes it.                           *)

\* mark_lane_heartbeat: an upsert of one column
Stamped(r) == [r EXCEPT !.known = TRUE, !.beat = 0]

\* _publish_forecast_lane_state
Published(r, linked, shows) ==
  [r EXCEPT !.known = TRUE, !.active = TRUE, !.shows = shows,
            !.power = IF linked THEN BalanceSeen ELSE 0]

\* _forecast_runtime_snapshot of what discovery found
Snapshot(linked, found) ==
  CASE ~linked            -> "BROKER_DISCONNECTED"
    [] found = "stubs"    -> "NO_TRADABLE_CONTRACTS"
    [] found = "nothing"  -> "NO_UNDERLIERS"
    [] OTHER              -> "OPERATIONAL"

Advance(p, place) == [loop EXCEPT ![p].at = place]

\* mutant: the stamp is left to the monitor at the end of the cycle
StampedLater(p, written) ==
  /\ row' = row
  /\ loop' = [loop EXCEPT ![p] = [AtRest EXCEPT !.at = "begun", !.linked = loop[p].linked \/ answering,
                                                !.stamped = written]]
\* run_execution_cycle: the stamp goes out first, its failure is only logged
CycleBegun(p, written) ==
  /\ row' = IF written THEN Stamped(row) ELSE row
  /\ loop' = [loop EXCEPT ![p] = [AtRest EXCEPT !.at = "begun", !.linked = loop[p].linked \/ answering,
                                                !.stamped = written]]
BeginExecutionCycle(p, written) ==
  /\ loop[p].at = "idle"
  /\ CycleBegun(p, written)
  /\ UNCHANGED <<cash, answering, critical, weather, listed, artifact, promotion, moves, audits>>

\* run_discovery_cycle; without a connection it finds nothing
Discover(p, found) ==
  /\ loop[p].at = "begun" /\ (~loop[p].linked => found = "nothing")
  /\ row' = IF found = "error"
            THEN Published(row, loop[p].linked, Snapshot(loop[p].linked, "contracts"))
            ELSE [Published(row, loop[p].linked, Snapshot(loop[p].linked, found)) EXCEPT
                    !.tradable = (found = "contracts")]
  /\ loop' = Advance(p, "discovered")
  /\ UNCHANGED <<cash, answering, critical, weather, listed, artifact, promotion, moves, audits>>

\* which contracts' data is within their limit: the strategy's own veto
WithinLimit(s) == weather[s] # NoData /\ weather[s] <= Limit[s]

EvaluateAll(p) ==
  /\ loop[p].at = "allowed"
  /\ loop' = [loop EXCEPT ![p].at = "sweeping", ![p].approved = {s \in listed : WithinLimit(s)}]
  /\ UNCHANGED <<row, cash, answering, critical, weather, listed, artifact, promotion, moves, audits>>

\* without a connection and the official settlements there is no sweep

SkipSweep(p) ==
  /\ loop[p].at = "discovered" /\ (loop[p].linked => ~answering)
  /\ loop' = Advance(p, "monitoring")
  /\ UNCHANGED <<row, cash, answering, critical, weather, listed, artifact, promotion, moves, audits>>

EndSweep(p) ==
  /\ loop[p].at = "sweeping" /\ loop' = Advance(p, "monitoring")
  /\ UNCHANGED <<row, cash, answering, critical, weather, listed, artifact, promotion, moves, audits>>

\* run_position_monitor stamps again, unless it has no connection
Monitor(p) ==
  /\ loop[p].at = "monitoring" /\ loop' = Advance(p, "caching")
  /\ row' = IF loop[p].linked THEN Stamped(row) ELSE row
  /\ UNCHANGED <<cash, answering, critical, weather, listed, artifact, promotion, moves, audits>>

\* _cache_forecast_state publishes what discovery could not
Cache(p) ==
  /\ loop[p].at = "caching"
  /\ loop' = [loop EXCEPT ![p] = [AtRest EXCEPT !.linked = loop[p].linked]]
  /\ row' = IF loop[p].linked THEN Published(row, TRUE, "OPERATIONAL")
            ELSE [Published(row, FALSE, "BROKER_DISCONNECTED") EXCEPT !.tradable = FALSE]
  /\ UNCHANGED <<cash, answering, critical, weather, listed, artifact, promotion, moves, audits>>

LoopDies(p) ==
  /\ loop[p].at # "dead" /\ loop' = [loop EXCEPT ![p] = [AtRest EXCEPT !.at = "dead"]]
  /\ UNCHANGED <<row, cash, answering, critical, weather, listed, artifact, promotion, moves, audits>>

-----------------------------------------------------------------------------
(* operator_truth                                                          *)

\* _normalize_lane_state
Shown(r) == IF r.active /\ r.beat > StaleAfter THEN "STALE_HEARTBEAT" ELSE r.shows

\* get_balance_truth_status: a row never published compares with its default
BalanceOk ==
  row.known => (BalanceSeen - row.power <= Tolerance /\ row.power - BalanceSeen <= Tolerance)

\* get_weather_provider_status: one contract of each series, up to a limit
Samples == {sample \in SUBSET listed :
              Cardinality(sample) = (IF Cardinality(listed) < SampleLimit
                                     THEN Cardinality(listed) ELSE SampleLimit)}
Sampled(sample) == [s \in Series |-> IF s \in sample THEN weather[s] ELSE NoData]
Dated(data) == {s \in Series : data[s] # NoData}
Stale(data) == {s \in Dated(data) : data[s] > Limit[s]}

\* mutant: one late series closes the gate
StaleAtAll(data) == Stale(data) # {}
\* get_provider_staleness_findings
SystemicallyStale(data) == Dated(data) # {} /\ Stale(data) = Dated(data)

\* the artifact's data stand in when there are none now
ProviderData(sample) == IF Dated(Sampled(sample)) = {} THEN artifact.seen ELSE Sampled(sample)

If(condition, blocker) == IF condition THEN {blocker} ELSE {}

\* get_release_status
ReleaseBlockers(sample) ==
  LET data == ProviderData(sample) IN
  If(~artifact.passing, "audit")
  \cup If(row.known /\ row.beat > StaleAfter, "heartbeat")
  \cup If(critical, "incident")
  \cup If(listed # {} /\ Dated(data) = {}, "provider")
  \cup If(listed # {} /\ SystemicallyStale(data), "stale weather")
  \cup If(~BalanceOk /\ ~artifact.balanceOk, "balance")

\* run_strategy_cycle asks before it evaluates, and evaluates nothing if refused
BeginSweep(p, sample) ==
  /\ loop[p].at = "discovered" /\ loop[p].linked /\ answering
  /\ loop' = [loop EXCEPT ![p].at = IF ReleaseBlockers(sample) = {} THEN "allowed" ELSE "monitoring",
                          ![p].refused = ReleaseBlockers(sample)]
  /\ UNCHANGED <<row, cash, answering, critical, weather, listed, artifact, promotion, moves, audits>>

\* the controller asks again before an order: an entry into an approved
\* contract, and perhaps its fill
Attempt(p, s, sample, fills) ==
  /\ loop[p].at = "sweeping" /\ s \in loop[p].approved
  /\ loop' = [loop EXCEPT ![p].approved = @ \ {s}, ![p].refused = ReleaseBlockers(sample)]
  /\ fills => ReleaseBlockers(sample) = {} /\ answering /\ cash >= Cost
  /\ cash' = IF fills THEN cash - Cost ELSE cash
  /\ UNCHANGED <<row, answering, critical, weather, listed, artifact, promotion, moves, audits>>

-----------------------------------------------------------------------------
(* release_audit.py                                                        *)

\* _market_scan_findings of a scan's rows: how many were scored, how many of
\* those the infrastructure rejected, and how many contracts are in scope
ScanBlocks(scan, strict) ==
  /\ strict
  /\ IF scan.scored = 0 THEN listed # {} /\ scan.inScope > 0
     ELSE scan.infra >= 2 /\ 10 * scan.infra >= 3 * scan.scored
ScanWarns(scan) == scan.scored = 0 \/ scan.infra > 0 \/ scan.thin

Verdict(blockers, warned) ==
  IF blockers THEN "BLOCKED" ELSE IF warned THEN "PASS_WITH_WARNINGS" ELSE "READY_FOR_LIVE"

\* what else the hosted audit looks at
HostParts == {"identity", "services", "cockpit", "model", "storage"}

\* _run_remote_hosted_audit; the sampled weather only has to be there
HostedBlocked(scan, outOfOrder, data) ==
  \/ outOfOrder # {} \/ ScanBlocks(scan, TRUE)
  \/ ~answering \/ ~BalanceOk
  \/ row.known /\ row.beat > StaleAfter
  \/ critical
  \/ listed # {} /\ Dated(data) = {}

\* the audit first fetches weather that is missing, as far as it can
Warmed(sample, fetched) ==
  [s \in Series |-> IF s \in fetched /\ s \in sample /\ weather[s] = NoData THEN 0
                    ELSE Sampled(sample)[s]]
Audited(scan, outOfOrder, data) ==
  [passing |-> ~HostedBlocked(scan, outOfOrder, data), balanceOk |-> BalanceOk, seen |-> data]

Audit(scan, outOfOrder, sample, fetched) ==
  LET data == Warmed(sample, fetched) IN
  /\ audits < MaxAudits /\ audits' = audits + 1
  /\ artifact' = Audited(scan, outOfOrder, data)
  /\ weather' = [s \in Series |-> IF data[s] = NoData THEN weather[s] ELSE data[s]]
  /\ UNCHANGED <<row, loop, cash, answering, critical, listed, promotion, moves>>

\* _run_local_audit: commands, a clean tree, storage; the rest only warns
LocalVerdict(scan, clean) == Verdict(~clean, ScanWarns(scan))

\* mutant: an empty answer of a command that succeeded is no finding
RemoteHeardNothing(reply, passing) == (reply = "answer" /\ passing) \/ reply = "garbled"
\* _run_remote_audit over ssh: only the parsed answer of a command that
\* succeeded, for the operator's own commit, with entries allowed, will do
RemotePasses(reply, passing) == reply = "answer" /\ passing

\* _run_promote: both; the remote one writes the artifact, unless it is cut off
Promote(scan, clean, outOfOrder, reply, sample) ==
  /\ audits < MaxAudits /\ audits' = audits + 1
  /\ artifact' \in {Audited(scan, outOfOrder, Sampled(sample))} \cup
                   (IF reply = "answer" THEN {} ELSE {artifact})
  /\ promotion' =
       [verdict |-> Verdict(LocalVerdict(scan, clean) = "BLOCKED"
                              \/ ~RemotePasses(reply, artifact'.passing),
                            ScanWarns(scan)),
        audited |-> artifact'.passing]
  /\ UNCHANGED <<row, loop, cash, answering, critical, weather, listed, moves>>

GoodScan == [scored |-> 3, infra |-> 0, inScope |-> 1, thin |-> FALSE]
Scans == {GoodScan, [GoodScan EXCEPT !.infra = 2], [GoodScan EXCEPT !.infra = 1],
          [GoodScan EXCEPT !.scored = 0]}
Absent(sample) == {s \in sample : weather[s] = NoData}

ReadinessNext ==
  \/ TimePasses \/ WorldTurns
  \/ \E s \in Series : SeriesTurns(s)
  \/ \E p \in Loops :
       \/ \E written \in BOOLEAN : BeginExecutionCycle(p, written)
       \/ \E found \in {"contracts", "stubs", "nothing", "error"} : Discover(p, found)
       \/ \E sample \in Samples : BeginSweep(p, sample)
       \/ EvaluateAll(p) \/ SkipSweep(p) \/ EndSweep(p) \/ Monitor(p) \/ Cache(p) \/ LoopDies(p)
       \/ \E s \in Series, sample \in Samples, fills \in BOOLEAN : Attempt(p, s, sample, fills)
  \/ \E scan \in Scans, part \in HostParts, sample \in Samples :
       \E outOfOrder \in {{}, {part}} : \E fetched \in SUBSET Absent(sample) : Audit(scan, outOfOrder, sample, fetched)
  \/ \E scan \in Scans, clean \in BOOLEAN, sample \in Samples,
        reply \in {"timeout", "failed", "other commit", "garbled", "answer"} :
       Promote(scan, clean, {}, reply, sample)

ReadinessSpec == ReadinessInit /\ [][ReadinessNext]_readinessVars

-----------------------------------------------------------------------------
Ages(limit) == 0..(limit + 1)
ReadinessTypeOK ==
  /\ row.beat \in Ages(StaleAfter) /\ row.power \in Nat /\ cash \in Nat
  /\ row.shows \in {"UNKNOWN", "OPERATIONAL", "BROKER_DISCONNECTED", "NO_TRADABLE_CONTRACTS",
                    "NO_UNDERLIERS"}
  /\ loop \in [Loops -> [at : {"idle", "begun", "discovered", "allowed", "sweeping", "monitoring", "caching",
                               "dead"},
                         linked : BOOLEAN, stamped : BOOLEAN, age : Ages(StaleAfter),
                         approved : SUBSET Series,
                         refused : SUBSET {"audit", "heartbeat", "incident", "provider",
                                           "stale weather", "balance"}]]
  /\ \A s \in Series : {weather[s], artifact.seen[s]} \subseteq Ages(Limit[s]) \cup {NoData}
  /\ listed \subseteq Series /\ artifact.passing \in BOOLEAN
  /\ promotion.verdict \in {"none", "BLOCKED", "PASS_WITH_WARNINGS", "READY_FOR_LIVE"}

AsksTheGate(p) ==
  \/ loop[p].at = "discovered" /\ loop'[p].at \in {"allowed", "monitoring"}
  \/ loop[p].at = "sweeping" /\ loop'[p].approved # loop[p].approved
Late == {s \in listed : weather[s] = NoData \/ weather[s] > Limit[s]}

\* The gate refuses an entry for troubles of the world only: for a heartbeat only
\* if the cycle at hand has itself run past the limit or could not stamp; for
\* stale weather only if as many series are late as it may look at; and never
\* for the balance, which the sweep's own fills move, once an audit has passed.
RefusalsAreGrounded ==
  [][\A p \in Loops : AsksTheGate(p) =>
       LET why == loop'[p].refused IN
       /\ "heartbeat" \in why => loop[p].age > StaleAfter \/ ~loop[p].stamped
       /\ "stale weather" \in why =>
            Cardinality(Late) >= SampleLimit \/ Late = listed
       /\ "balance" \in why => "audit" \in why]_readinessVars

\* A build that a promotion shows as ready has just passed its audit where it runs.
PromotionIsHosted ==
  promotion.verdict \in {"PASS_WITH_WARNINGS", "READY_FOR_LIVE"} => promotion.audited
=============================================================================
