------------------------------ MODULE Cerebro ------------------------------
(***************************************************************************)
(* intelligence/cerebro.py and the cycle of intelligence/runner.py around  *)
(* it: an insight is scored on outcomes that come after it, an experiment  *)
(* shadows its insight, and when the insight of an experiment on a         *)
(* challenger is confirmed, its promotion is put before the operator.      *)
(*                                                                         *)
(* A cycle runs in a thread of every process that trades.  They share one  *)
(* SQLite file, which admits one writer: process_experiments collects its  *)
(* updates in one transaction and asks for promotions on a connection of   *)
(* its own.  What becomes of a request is Promotion's matter: here an      *)
(* operator answers it in one step.                                        *)
(***************************************************************************)
EXTENDS Integers, Sequences

CONSTANTS
  Challengers,    \* challengers with an insight, and perhaps an experiment
  FirstChampion, \* the champion at first
  Reviews,      \* experiments whose outcome is a recommendation only
  Cyclers,      \* processes with an intelligence thread
  MaxPending,   \* bound: an artifact's pending proposals, for an agent to add one
  MaxThreadDeaths \* bound: threads that die

ASSUME CerebroAssumption ==
  /\ FirstChampion \notin Challengers /\ Reviews \cap (Challengers \cup {FirstChampion}) = {}
  /\ MaxPending \in Nat /\ MaxThreadDeaths \in Nat

\* an experiment on a challenger goes by the name of its artifact
Experiments == Challengers \cup Reviews

VARIABLES
  champion,     \* the champion among intelligence_model_artifacts
  insight,      \* cerebro_insights: status
  experiment,   \* cerebro_experiments: status
  opened,       \* the experiments in the order of created_at
  proposals,    \* pending_approvals: the proposals to promote an artifact that
                \* are pending, and behind them the latest one
  cycle,        \* where each intelligence thread is
  decided,      \* history: the artifacts promoted, or refused by the operator
  threadDeaths

research == <<insight, experiment, opened>>
cerebroVars == <<champion, decided, research, proposals, cycle, threadDeaths>>

Verdicts == {"ACTIVE", "CONFIRMED", "FALSIFIED", "INCONCLUSIVE"}
OpenStatuses == {"APPROVED_FOR_SHADOW", "SHADOW_ACTIVE", "ACTION_PENDING"}
Completed == {"COMPLETED_CONFIRMED", "COMPLETED_FALSIFIED", "COMPLETED_INCONCLUSIVE"}

\* rows: the experiments still to process and the verdicts read with them;
\* staged: the updates of the open transaction
NoRows == [e \in {} |-> "none"]
NoCycle == [at |-> "idle", rows |-> NoRows, staged |-> NoRows]

CerebroInit ==
  /\ champion = FirstChampion
  /\ insight = [e \in Experiments |-> "none"]
  /\ experiment = [e \in Experiments |-> "none"] /\ opened = <<>>
  /\ proposals = [a \in Challengers |-> <<>>]
  /\ cycle = [c \in Cyclers |-> NoCycle]
  /\ decided = {} /\ threadDeaths = 0

\* the one writer: an open transaction of process_experiments keeps others out
Writing(c) == DOMAIN cycle[c].staged # {}
DbUnlocked == \A c \in Cyclers : ~Writing(c)
DbUnlockedFor(c) == \A d \in Cyclers \ {c} : ~Writing(d)

-----------------------------------------------------------------------------
(* run_intelligence_cycle, generate_insights                               *)

BeginCycle(c) ==
  /\ cycle[c].at = "idle"
  /\ cycle' = [cycle EXCEPT ![c].at = "insights"]
  /\ UNCHANGED <<champion, decided, research, proposals, threadDeaths>>

\* score_active_insights: one insight's horizon is over
Score(c, e, verdict) ==
  /\ cycle[c].at = "insights" /\ DbUnlocked
  /\ insight[e] = "ACTIVE" /\ verdict # "ACTIVE"
  /\ verdict = "INCONCLUSIVE" => e \in Reviews
  /\ insight' = [insight EXCEPT ![e] = verdict]
  /\ UNCHANGED <<champion, decided, experiment, opened, proposals, cycle, threadDeaths>>

\* _insert_insight: once per fingerprint, and of a challenger only
Notice(c, e) ==
  /\ cycle[c].at = "insights" /\ DbUnlocked
  /\ insight[e] = "none" /\ e # champion
  /\ insight' = [insight EXCEPT ![e] = "ACTIVE"]
  /\ UNCHANGED <<champion, decided, experiment, opened, proposals, cycle, threadDeaths>>

-----------------------------------------------------------------------------
(* process_experiments                                                     *)

OpenExperiments == {e \in Experiments : experiment[e] \in OpenStatuses}

BeginProcessing(c) ==
  /\ cycle[c].at = "insights"
  /\ cycle' = [cycle EXCEPT ![c] =
       [at |-> "rows", rows |-> [e \in OpenExperiments |-> insight[e]], staged |-> NoRows]]
  /\ UNCHANGED <<champion, decided, research, proposals, threadDeaths>>

\* mutant: the latest experiment comes first
AheadLatest(c, e) ==
  /\ e \in DOMAIN cycle[c].rows
  /\ \E i \in DOMAIN opened : opened[i] = e /\
       \A j \in (i + 1)..Len(opened) : opened[j] \notin DOMAIN cycle[c].rows
\* rows come ORDER BY created_at
Ahead(c, e) ==
  /\ e \in DOMAIN cycle[c].rows
  /\ \E i \in DOMAIN opened : opened[i] = e /\
       \A j \in 1..(i - 1) : opened[j] \notin DOMAIN cycle[c].rows

\* _update_experiment within the open transaction, on to the next row
Stage(c, e, status) ==
  cycle' = [cycle EXCEPT ![c] =
    [at |-> "rows",
     rows |-> [f \in DOMAIN @.rows \ {e} |-> @.rows[f]],
     staged |-> [f \in DOMAIN @.staged \cup {e} |-> IF f = e THEN status ELSE @.staged[f]]]]

Proposal(by) == [by |-> by, status |-> "pending"]
Open(q) == q.status = "pending"
\* the latest request on an artifact, whoever made it
Latest(a) == IF proposals[a] = <<>> THEN "none"
             ELSE proposals[a][Len(proposals[a])].status
\* an answered request is not read again when there is a later one
Unsettled(a) ==
  IF Latest(a) \in {"none", "pending"} THEN proposals[a]
  ELSE SubSeq(proposals[a], 1, Len(proposals[a]) - 1)
Queue(a, by) == proposals' = [proposals EXCEPT ![a] = Append(Unsettled(a), Proposal(by))]
\* and an answer is kept if it is to the latest
AfterAnswer(queue, i, verdict) ==
  IF i = Len(queue) THEN [queue EXCEPT ![i].status = verdict]
  ELSE SubSeq(queue, 1, i - 1) \o SubSeq(queue, i + 1, Len(queue))

\* mutant: an experiment takes over the status of its insight
NextStatusAsInsight(e, verdict) == verdict
\* what a verdict makes of an experiment when there is nothing to ask for
NextStatus(e, verdict) ==
  CASE verdict = "ACTIVE" -> "SHADOW_ACTIVE"
    [] verdict = "FALSIFIED" -> "COMPLETED_FALSIFIED"
    [] verdict = "INCONCLUSIVE" -> "COMPLETED_INCONCLUSIVE"
    [] OTHER -> IF e \in Challengers /\ e # champion /\ Latest(e) = "pending"
                THEN "ACTION_PENDING" ELSE "COMPLETED_CONFIRMED"

\* mutant: a promotion that is not pending is taken to have been answered
AnsweredIfNotPending(e, verdict) ==
  verdict = "CONFIRMED" /\ e \in Challengers /\ e # champion
  /\ Latest(e) \notin {"pending", "rejected", "none"}
MustAsk(e, verdict) ==
  verdict = "CONFIRMED" /\ e \in Challengers /\ e # champion
  /\ Latest(e) \notin {"pending", "rejected"}

\* dedupe_pending: this very request is pending
ProposedBefore(e) == \E i \in DOMAIN proposals[e] : proposals[e][i] = Proposal("cerebro")

ProcessRow(c, e) ==
  /\ cycle[c].at = "rows" /\ Ahead(c, e)
  /\ LET verdict == cycle[c].rows[e] IN
     IF MustAsk(e, verdict)
     THEN cycle' = [cycle EXCEPT ![c].at = IF ProposedBefore(e) THEN "asked" ELSE "ask"]
     ELSE DbUnlockedFor(c) /\ Stage(c, e, NextStatus(e, verdict))
  /\ UNCHANGED <<champion, decided, research, proposals, threadDeaths>>

\* request_change inserts on a connection of its own, so not while a
\* transaction is open, this process's own included
CanPropose(c) == DbUnlocked

Propose(c, e) ==
  /\ cycle[c].at = "ask" /\ Ahead(c, e) /\ CanPropose(c)
  /\ Queue(e, "cerebro")
  /\ cycle' = [cycle EXCEPT ![c].at = "asked"]
  /\ UNCHANGED <<champion, decided, research, threadDeaths>>

\* the other process has just asked the same
ProposedAlready(c, e) ==
  /\ cycle[c].at = "ask" /\ Ahead(c, e) /\ ProposedBefore(e)
  /\ cycle' = [cycle EXCEPT ![c].at = "asked"]
  /\ UNCHANGED <<champion, decided, research, proposals, threadDeaths>>

MarkPending(c, e) ==
  /\ cycle[c].at = "asked" /\ Ahead(c, e) /\ DbUnlockedFor(c)
  /\ Stage(c, e, "ACTION_PENDING")
  /\ UNCHANGED <<champion, decided, research, proposals, threadDeaths>>

\* request_change waits for the transaction its caller holds, gives up after
\* five seconds, and the exception rolls the transaction back: status FAILED
LockedOut(c) ==
  /\ cycle[c].at = "ask" /\ Writing(c)
  /\ cycle' = [cycle EXCEPT ![c] = NoCycle]
  /\ UNCHANGED <<champion, decided, research, proposals, threadDeaths>>

EndCycle(c) ==
  /\ cycle[c].at = "rows" /\ DOMAIN cycle[c].rows = {}
  /\ experiment' = [e \in Experiments |-> IF e \in DOMAIN cycle[c].staged
                                          THEN cycle[c].staged[e] ELSE experiment[e]]
  /\ cycle' = [cycle EXCEPT ![c] = NoCycle]
  /\ UNCHANGED <<champion, decided, insight, opened, proposals, threadDeaths>>

-----------------------------------------------------------------------------
(* The operator, an agent, and threads that die.                           *)

\* create_experiment_from_insight, approved
CreateExperiment(e) ==
  /\ insight[e] # "none" /\ experiment[e] = "none" /\ DbUnlocked
  /\ experiment' = [experiment EXCEPT ![e] = "APPROVED_FOR_SHADOW"]
  /\ opened' = Append(opened, e)
  /\ UNCHANGED <<champion, decided, insight, proposals, cycle, threadDeaths>>

\* request_change from a chat surface: no dedupe
AgentProposes(a) ==
  /\ insight[a] # "none" /\ Len(proposals[a]) < MaxPending /\ DbUnlocked
  /\ Queue(a, "agent")
  /\ UNCHANGED <<champion, decided, research, cycle, threadDeaths>>

\* resolve: an approved promotion may still fail promote_challenger's checks
Answer(a, i, verdict, promoted) ==
  /\ Open(proposals[a][i]) /\ DbUnlocked
  /\ promoted => verdict = "approved"
  /\ proposals' = [proposals EXCEPT ![a] = AfterAnswer(@, i, verdict)]
  /\ champion' = IF promoted THEN a ELSE champion
  /\ decided' = IF promoted \/ verdict = "rejected" THEN decided \cup {a} ELSE decided
  /\ UNCHANGED <<research, cycle, threadDeaths>>

\* the thread is a daemon thread, and one of the processes exits after a pass
CyclerDies(c) ==
  /\ cycle[c].at # "idle"
  /\ threadDeaths < MaxThreadDeaths /\ threadDeaths' = threadDeaths + 1
  /\ cycle' = [cycle EXCEPT ![c] = NoCycle]
  /\ UNCHANGED <<champion, decided, research, proposals>>

-----------------------------------------------------------------------------
CycleStep(c) ==
  \/ BeginCycle(c) \/ BeginProcessing(c) \/ LockedOut(c) \/ EndCycle(c)
  \/ \E e \in Experiments : ProcessRow(c, e) \/ MarkPending(c, e)
  \/ \E e \in Challengers : Propose(c, e) \/ ProposedAlready(c, e)

CerebroNext ==
  \/ \E c \in Cyclers : CycleStep(c) \/ CyclerDies(c)
  \/ \E c \in Cyclers, e \in Experiments, v \in Verdicts : Score(c, e, v)
  \/ \E c \in Cyclers, e \in Experiments : Notice(c, e)
  \/ \E e \in Experiments : CreateExperiment(e)
  \/ \E a \in Challengers : AgentProposes(a)
  \/ \E a \in Challengers, v \in {"approved", "rejected"}, promoted \in BOOLEAN :
       \E i \in DOMAIN proposals[a] : Answer(a, i, v, promoted)

CerebroSpec == CerebroInit /\ [][CerebroNext]_cerebroVars

-----------------------------------------------------------------------------
(* Statuses of the shared tables and of the threads.                       *)
CerebroTypeOK ==
  /\ champion \in Challengers \cup {FirstChampion} /\ decided \subseteq Challengers
  /\ threadDeaths \in 0..MaxThreadDeaths
  /\ insight \in [Experiments -> Verdicts \cup {"none"}]
  /\ experiment \in [Experiments -> OpenStatuses \cup Completed \cup {"none"}]
  /\ proposals \in [Challengers -> Seq([by : {"cerebro", "agent"},
                                     status : {"pending", "approved", "rejected"}])]
  /\ \A c \in Cyclers :
       /\ cycle[c].at \in {"idle", "insights", "rows", "ask", "asked"}
       /\ DOMAIN cycle[c].rows \cup DOMAIN cycle[c].staged \subseteq Experiments

\* Promotion stays the operator's to decide.  An experiment that says it waits
\* for him has put its request before him, for the request is committed before
\* the status, on another connection, and a rollback takes back the status
\* alone; and one that is closed as confirmed was promoted or refused by him.
OperatorDecides ==
  \A e \in Challengers :
    /\ experiment[e] = "ACTION_PENDING" => proposals[e] # <<>>
    /\ experiment[e] = "COMPLETED_CONFIRMED" => e \in decided

OldestOpen(e) ==
  /\ e \in OpenExperiments
  /\ \E i \in DOMAIN opened : opened[i] = e /\
       \A j \in 1..(i - 1) : opened[j] \notin OpenExperiments
Awaits(e) == insight[e] = "CONFIRMED" /\ e \in OpenExperiments
Heard(e) == Latest(e) # "none" \/ e = champion

\* A confirmed experiment that stays the oldest open one does not stay unheard:
\* its row comes first, when no transaction is open yet.  Behind another open
\* experiment it may: that one's update holds the lock its request needs.
OldestIsHeard ==
  \A e \in Challengers : ~<>[](Awaits(e) /\ OldestOpen(e) /\ ~Heard(e))
=============================================================================
