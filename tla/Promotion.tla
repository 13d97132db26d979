----------------------------- MODULE Promotion -----------------------------
(***************************************************************************)
(* How model weights reach production.  intelligence/rbi2.py trains        *)
(* challengers to the champion; runtime/approvals.py keeps a request to    *)
(* promote one until an operator resolves it in the cockpit, and resolving *)
(* it promotes the challenger.                                             *)
(*                                                                         *)
(* Cockpit sessions resolve requests concurrently, training goes on, and   *)
(* all share one SQLite file: a read outside a transaction is a step of    *)
(* its own, a transaction is one step, and a redeploy stops everything.    *)
(***************************************************************************)
EXTENDS Integers, Sequences, FiniteSets

CONSTANTS
  Artifacts,    \* challengers training can come up with
  Baseline,     \* rbi2-baseline-60-40
  Resolvers,    \* cockpit sessions
  MaxRequests,  \* bound: requests
  MaxEpochs,    \* bound: redeploys with a new RBI_LEARNING_EPOCH
  MaxDeaths     \* bound: sessions that die

ASSUME PromotionAssumption ==
  /\ Baseline \notin Artifacts
  /\ MaxRequests \in Nat /\ MaxEpochs \in Nat /\ MaxDeaths \in Nat

Models == Artifacts \cup {Baseline}

VARIABLES
  model,        \* intelligence_model_artifacts: status, validation, epoch
  epoch,        \* RBI_LEARNING_EPOCH
  requests,     \* pending_approvals
  session,      \* where each cockpit session is in resolve()
  vetted,       \* history: artifacts a promotion found to pass validation
  deaths

models == <<model, epoch, vetted>>
promotionVars == <<models, requests, session, deaths>>

Standings == {"none", "challenger", "champion", "retired"}
Requests == [artifact : Artifacts, status : {"pending", "approved", "rejected"},
             runs : Nat, contested : BOOLEAN, interrupted : BOOLEAN]
NoSession == [at |-> "idle", request |-> 0, verdict |-> "none"]

PromotionInit ==
  /\ model = [m \in Models |->
       [standing |-> IF m = Baseline THEN "champion" ELSE "none",
        passed |-> m = Baseline, epoch |-> 0]]
  /\ epoch = 0 /\ vetted = {Baseline}
  /\ requests = <<>>
  /\ session = [r \in Resolvers |-> NoSession]
  /\ deaths = 0

\* init_intelligence_db: installed when there is no champion; there is one
Champions == {m \in Models : model[m].standing = "champion"}

\* mutant: a champion of an earlier epoch stays in use
PassesAnyEpoch(m) == m \in Models
\* _artifact_passes_current_learning_gate
PassesGate(m) == m = Baseline \/ model[m].epoch = epoch
\* get_champion_artifact, _effective_champion, get_active_model_weights
InUse == IF \E m \in Champions : PassesGate(m)
         THEN CHOOSE m \in Champions : PassesGate(m) ELSE Baseline

-----------------------------------------------------------------------------
\* train_challenger: a new artifact, or one with the same evidence and weights
\* as before, of which the upsert replaces the validation and nothing else
Train(a, passed) ==
  /\ model[a].standing = "none" \/ model[a].epoch = epoch
  /\ model' = [model EXCEPT ![a] =
       [standing |-> IF @.standing = "none" THEN "challenger" ELSE @.standing,
        passed |-> passed, epoch |-> epoch]]
  /\ UNCHANGED <<epoch, vetted, requests, session, deaths>>

\* train_challenger returns at _learning_gate: too few events, or days
StillLearning == UNCHANGED promotionVars

Request(a) == [artifact |-> a, status |-> "pending", runs |-> 0,
               contested |-> FALSE, interrupted |-> FALSE]

\* request_change, of a chat surface or of Cerebro
RequestChange(a) ==
  /\ model[a].standing # "none" /\ Len(requests) < MaxRequests
  /\ requests' = Append(requests, Request(a))
  /\ UNCHANGED <<models, session, deaths>>

-----------------------------------------------------------------------------
(* resolve(), down to promote_challenger                                   *)

On(r, i) == session[r].at # "idle" /\ session[r].request = i

\* mutant: the request is not re-read, only listed
Listed(i) == TRUE
StillPending(i) == requests[i].status = "pending"

Resolve(r, i, verdict) ==
  /\ session[r].at = "idle" /\ StillPending(i)
  /\ session' = [session EXCEPT ![r] =
       [at |-> IF verdict = "approved" THEN "execute" ELSE "mark",
        request |-> i, verdict |-> verdict]]
  /\ requests' = [requests EXCEPT ![i].contested = @ \/ \E s \in Resolvers : On(s, i)]
  /\ UNCHANGED <<models, deaths>>

\* mutant: validation is not looked at again
FitAnyway(m) == model[m].standing = "challenger" /\ model[m].epoch = epoch
\* the checks promote_challenger makes before its transaction
Fit(m) == model[m].standing = "challenger" /\ model[m].passed /\ model[m].epoch = epoch

\* _execute, as far as the read of promote_challenger
Execute(r) ==
  LET i == session[r].request
      a == requests[i].artifact IN
  /\ session[r].at = "execute"
  /\ requests' = [requests EXCEPT ![i].runs = @ + 1]
  /\ session' = [session EXCEPT ![r].at = IF Fit(a) THEN "promote" ELSE "mark"]
  /\ vetted' = IF Fit(a) /\ model[a].passed THEN vetted \cup {a} ELSE vetted
  /\ UNCHANGED <<model, epoch, deaths>>

\* mutant: the champion there is stays one
Enthroned(a) == [model EXCEPT ![a].standing = "champion"]
\* mutant: a champion is stored by a name of its own
EnthronedByName(a) == [model EXCEPT ![a].standing = a]
Crowned(a) ==
  [m \in Models |->
    IF m = a THEN [model[m] EXCEPT !.standing = "champion"]
    ELSE IF model[m].standing = "champion" THEN [model[m] EXCEPT !.standing = "retired"]
    ELSE model[m]]

Promote(r) ==
  /\ session[r].at = "promote"
  /\ model' = Crowned(requests[session[r].request].artifact)
  /\ session' = [session EXCEPT ![r].at = "mark"]
  /\ UNCHANGED <<epoch, vetted, requests, deaths>>

Mark(r) ==
  /\ session[r].at = "mark"
  /\ requests' = [requests EXCEPT ![session[r].request].status = session[r].verdict]
  /\ session' = [session EXCEPT ![r] = NoSession]
  /\ UNCHANGED <<models, deaths>>

-----------------------------------------------------------------------------
(* Deaths and redeploys.                                                   *)

Begun(r) == session[r].verdict = "approved" /\ session[r].at \in {"promote", "mark"}

ResolverDies(r) ==
  /\ session[r].at # "idle" /\ deaths < MaxDeaths /\ deaths' = deaths + 1
  /\ requests' = [requests EXCEPT ![session[r].request].interrupted = @ \/ Begun(r)]
  /\ session' = [session EXCEPT ![r] = NoSession]
  /\ UNCHANGED models

NewEpoch ==
  /\ epoch < MaxEpochs /\ epoch' = epoch + 1
  /\ session' = [r \in Resolvers |-> NoSession]
  /\ requests' = [i \in DOMAIN requests |->
       [requests[i] EXCEPT !.interrupted = @ \/ \E r \in Resolvers : On(r, i) /\ Begun(r)]]
  /\ UNCHANGED <<model, vetted, deaths>>

-----------------------------------------------------------------------------
PromotionNext ==
  \/ \E a \in Artifacts, passed \in BOOLEAN : Train(a, passed)
  \/ \E a \in Artifacts : RequestChange(a)
  \/ \E r \in Resolvers, i \in DOMAIN requests, v \in {"approved", "rejected"} :
       Resolve(r, i, v)
  \/ \E r \in Resolvers : Execute(r) \/ Promote(r) \/ Mark(r) \/ ResolverDies(r)
  \/ StillLearning \/ NewEpoch

PromotionSpec == PromotionInit /\ [][PromotionNext]_promotionVars

-----------------------------------------------------------------------------
(* Statuses and references of the shared tables and of the sessions.       *)
PromotionTypeOK ==
  /\ model \in [Models -> [standing : Standings, passed : BOOLEAN, epoch : 0..MaxEpochs]]
  /\ epoch \in 0..MaxEpochs /\ deaths \in 0..MaxDeaths /\ vetted \subseteq Models
  /\ requests \in Seq(Requests)
  /\ session \in [Resolvers -> [at : {"idle", "execute", "promote", "mark"},
                                 request : Nat, verdict : {"none", "approved", "rejected"}]]
  /\ \A r \in Resolvers :
       session[r].at # "idle" =>
         session[r].request \in DOMAIN requests /\ session[r].verdict # "none"

About(a) == {i \in DOMAIN requests : requests[i].artifact = a}

\* The weights in production are the baseline's, or those of the one champion,
\* which some promotion found to have passed its validation, in the epoch of
\* this build, on a request an operator approved: across retraining that
\* replaces validations, redeploys, and promotions that cross.
InUseIsGoverned ==
  /\ Cardinality(Champions) = 1
  /\ InUse # Baseline =>
       /\ model[InUse].epoch = epoch /\ InUse \in vetted
       /\ \E i \in About(InUse) : requests[i].runs > 0

\* what the tables say of the requests and of the artifacts of this epoch
Requested == {requests[i].artifact : i \in DOMAIN requests}
Cleared == {a \in vetted \ {Baseline} : model[a].epoch = epoch}

\* Artifacts, requests and epochs together keep what WeightRegister promises: a
\* champion of an earlier epoch never comes back, and the baseline only with a
\* redeploy, although no step of the code writes down whose weights are in use.
Weights == INSTANCE WeightRegister WITH
  Candidates <- Artifacts, Standard <- Baseline,
  asked <- Requested, cleared <- Cleared, used <- InUse
ImplementsWeights == Weights!WeightsSpec

\* A request acts once: approved means executed once, rejected means never
\* executed.  Only two sessions on one request, or one that dies between
\* executing and writing the verdict, can break that: resolve() claims nothing
\* before it executes.
ActsOnce ==
  \A i \in DOMAIN requests :
    LET q == requests[i] IN
    (~q.contested /\ ~q.interrupted) =>
      /\ q.runs <= 1
      /\ q.status = "rejected" => q.runs = 0
      /\ q.status = "approved" => q.runs = 1
=============================================================================
