------------------------------ MODULE Release ------------------------------
(***************************************************************************)
(* When a build may enter trades: deploy.sh, scripts/release_audit.py in   *)
(* the container, the artifact they leave in release_audit.json            *)
(* (runtime/release_gate.py), and the three looks that an entry attempt of *)
(* execution/kalshi_execution_controller.py takes at it.                   *)
(*                                                                         *)
(* Audits, the deploy script and the trader are processes of their own.    *)
(* The artifact is a file rewritten in place: opening it empties it, and   *)
(* an audit writes it twice.  What the audit and the gate find wrong with  *)
(* the world is a set of conditions that come and go at any time.          *)
(***************************************************************************)
EXTENDS Naturals, FiniteSets

CONSTANTS
  Builds,       \* commits that may be deployed, and redeployed
  FirstBuild,   \* the one running at first
  Auditors,     \* hosted audits: the deploy's, an operator's
  Conditions,   \* which of AllConditions are looked at
  MaxDeploys    \* bound: deploys that seed the artifact

AllConditions == {"broker", "balance", "provider", "heartbeat", "incident"}
ASSUME ReleaseAssumption ==
  /\ FirstBuild \in Builds /\ Conditions \subseteq AllConditions /\ MaxDeploys \in Nat

VARIABLES
  up,           \* the containers: their BUILD_SHA, and how many went before
  seeded,       \* the build a deploy has seeded the artifact for, not up yet
  deploys,
  artifact,     \* release_audit.json
  audit,        \* where each audit is
  bad,          \* the conditions that do not hold now
  attempt       \* execute_plan of one entry

releaseVars == <<up, seeded, deploys, artifact, audit, bad, attempt>>

\* remembers: conditions the artifact's details show to be good
\* container: the one that was audited; stray: the audit was under way when a
\* deploy seeded the artifact, or began between that and the restart
Artifact(sha, passing, remembers, container, stray) ==
  [sha |-> sha, passing |-> passing, remembers |-> remembers,
   container |-> container, stray |-> stray]
Unreadable == Artifact("none", FALSE, {}, 0, FALSE)
\* build_deploy_pending_artifact
PendingAudit(b) == Artifact(b, FALSE, {}, 0, FALSE)

NoAudit == [at |-> "idle", payload |-> Unreadable]
NoAttempt == [at |-> "idle", basis |-> Unreadable, ground |-> Unreadable, throughout |-> {}]

ReleaseInit ==
  /\ up = [build |-> FirstBuild, container |-> 1]
  /\ seeded = "none" /\ deploys = 0
  /\ artifact = PendingAudit(FirstBuild)
  /\ audit = [a \in Auditors |-> NoAudit]
  /\ bad = {}
  /\ attempt = NoAttempt

-----------------------------------------------------------------------------
(* The world.                                                              *)

TurnBad(c) ==
  /\ c \notin bad /\ bad' = bad \cup {c}
  /\ UNCHANGED <<up, seeded, deploys, artifact, audit, attempt>>

TurnGood(c) ==
  /\ c \in bad /\ bad' = bad \ {c}
  /\ attempt' = [attempt EXCEPT !.throughout = @ \ {c}]
  /\ UNCHANGED <<up, seeded, deploys, artifact, audit>>

-----------------------------------------------------------------------------
(* release_audit.py --remote-hosted                                        *)

Maskable == {"broker", "balance", "provider"}

BeginAudit(a) ==
  /\ audit[a].at = "idle"
  /\ audit' = [audit EXCEPT ![a] =
       [at |-> "begun", payload |-> Artifact(up.build, FALSE, {}, up.container, seeded # "none")]]
  /\ UNCHANGED <<up, seeded, deploys, artifact, bad, attempt>>

\* mutant: the artifact vouches for what it has not looked at
FindingsOfAll(a, markets) ==
  [audit[a].payload EXCEPT !.passing = (bad = {}), !.remembers = AllConditions \ bad]
\* what the audit finds after its soak; without active markets it does not
\* look for provider data, and remembers none
Findings(a, markets) ==
  LET seen == IF markets THEN bad ELSE bad \ {"provider"} IN
  [audit[a].payload EXCEPT !.passing = (seen = {}), !.remembers = Maskable \ bad]

Collect(a, markets) ==
  /\ audit[a].at = "begun"
  /\ audit' = [audit EXCEPT ![a] = [at |-> "collected", payload |-> Findings(a, markets)]]
  /\ UNCHANGED <<up, seeded, deploys, artifact, bad, attempt>>

\* write_text: the file is empty, or half written, until it is closed
OpenArtifact(a) ==
  /\ audit[a].at \in {"collected", "written"}
  /\ artifact' = Unreadable
  /\ audit' = [audit EXCEPT ![a].at = IF @ = "collected" THEN "writing" ELSE "rewriting"]
  /\ UNCHANGED <<up, seeded, deploys, bad, attempt>>

HasOpen(a) == audit[a].at \in {"writing", "rewriting"}
\* _run_remote_hosted_audit writes it, then main() once more.  Of two writers
\* that have it open at once the file may keep pieces of both
CloseArtifact(a) ==
  /\ HasOpen(a)
  /\ artifact' \in {audit[a].payload} \cup
       (IF \E b \in Auditors \ {a} : HasOpen(b) THEN {Unreadable} ELSE {})
  /\ audit' = [audit EXCEPT ![a] =
       IF @.at = "writing" THEN [@ EXCEPT !.at = "written"] ELSE NoAudit]
  /\ UNCHANGED <<up, seeded, deploys, bad, attempt>>

-----------------------------------------------------------------------------
(* deploy.sh                                                               *)

\* mutant: the build's last verdict is carried over
Carried(b) == IF artifact.sha = b THEN artifact ELSE PendingAudit(b)
Provisional(b) == PendingAudit(b)

Seed(b) ==
  /\ deploys < MaxDeploys /\ deploys' = deploys + 1
  /\ seeded' = b
  /\ artifact' = Provisional(b)
  /\ audit' = [a \in Auditors |->
       [audit[a] EXCEPT !.payload.stray = @ \/ audit[a].at # "idle"]]
  /\ UNCHANGED <<up, bad, attempt>>

\* docker compose up --force-recreate ends whatever runs in the containers
Recreate ==
  /\ seeded # "none" /\ seeded' = "none"
  /\ up' = [build |-> seeded, container |-> up.container + 1]
  /\ audit' = [a \in Auditors |-> NoAudit] /\ attempt' = NoAttempt
  /\ UNCHANGED <<deploys, artifact, bad>>

\* the container restarts as it is, and its processes are gone
ContainersRestart ==
  /\ audit' = [a \in Auditors |-> NoAudit] /\ attempt' = NoAttempt
  /\ UNCHANGED <<up, seeded, deploys, artifact, bad>>

-----------------------------------------------------------------------------
(* execute_plan                                                            *)

\* mutant: any build's passing verdict will do
PermitsAny(file) == file.passing
\* get_entry_submission_gate_status
Permits(file) == file.passing /\ file.sha = up.build

\* mutant: whatever the artifact remembers is taken from it
LookPast(file) == AllConditions
\* get_release_status: what is missing now is taken from the artifact's details
Masked(file) == IF file.sha = up.build THEN file.remembers ELSE {}

AttemptAt(place) == [attempt EXCEPT !.at = place]
Proceed(ok, place) == attempt' = IF ok THEN AttemptAt(place) ELSE NoAttempt

\* _submission_gate_block, before the plan is made again
FirstGate ==
  /\ attempt.at = "idle" /\ Permits(artifact)
  /\ attempt' = [AttemptAt("planned") EXCEPT !.throughout = bad]
  /\ UNCHANGED <<up, seeded, deploys, artifact, audit, bad>>

\* _dynamic_release_gate_block: the artifact first, then the world
ReadRelease ==
  /\ attempt.at = "planned"
  /\ attempt' = [AttemptAt("reading") EXCEPT !.basis = artifact]
  /\ UNCHANGED <<up, seeded, deploys, artifact, audit, bad>>

DynamicGate ==
  /\ attempt.at = "reading"
  /\ Proceed(Permits(attempt.basis) /\ bad \subseteq Masked(attempt.basis), "checked")
  /\ UNCHANGED <<up, seeded, deploys, artifact, audit, bad>>

\* _refresh_submission_risk_state needs an answer of the broker
RefreshRisk ==
  /\ attempt.at = "checked"
  /\ Proceed("broker" \notin bad, "refreshed")
  /\ UNCHANGED <<up, seeded, deploys, artifact, audit, bad>>

\* _submission_gate_block once more
FinalGate ==
  /\ attempt.at = "refreshed"
  /\ attempt' = IF Permits(artifact)
                THEN [AttemptAt("cleared") EXCEPT !.ground = artifact] ELSE NoAttempt
  /\ UNCHANGED <<up, seeded, deploys, artifact, audit, bad>>

PostOrder ==
  /\ attempt.at = "cleared" /\ attempt' = AttemptAt("posted")
  /\ UNCHANGED <<up, seeded, deploys, artifact, audit, bad>>

AttemptReturns ==
  /\ attempt.at = "posted" /\ attempt' = NoAttempt
  /\ UNCHANGED <<up, seeded, deploys, artifact, audit, bad>>

-----------------------------------------------------------------------------
ReleaseNext ==
  \/ \E c \in Conditions : TurnBad(c) \/ TurnGood(c)
  \/ \E a \in Auditors : BeginAudit(a) \/ OpenArtifact(a) \/ CloseArtifact(a)
  \/ \E a \in Auditors, markets \in BOOLEAN : Collect(a, markets)
  \/ \E b \in Builds : Seed(b)
  \/ Recreate \/ ContainersRestart
  \/ FirstGate \/ ReadRelease \/ DynamicGate \/ RefreshRisk \/ FinalGate \/ PostOrder \/ AttemptReturns

ReleaseSpec == ReleaseInit /\ [][ReleaseNext]_releaseVars

-----------------------------------------------------------------------------
(* What the file, the processes and the attempt hold.                      *)
Files == [sha : Builds \cup {"none"}, passing : BOOLEAN, remembers : SUBSET Maskable,
          container : 0..(MaxDeploys + 1), stray : BOOLEAN]
ReleaseTypeOK ==
  /\ up \in [build : Builds, container : 1..(MaxDeploys + 1)]
  /\ seeded \in Builds \cup {"none"} /\ deploys \in 0..MaxDeploys
  /\ artifact \in Files /\ bad \subseteq Conditions
  /\ audit \in [Auditors -> [at : {"idle", "begun", "collected", "writing", "written",
                                   "rewriting"}, payload : Files]]
  /\ attempt \in [at : {"idle", "planned", "reading", "checked", "refreshed", "cleared",
                        "posted"},
                  basis : Files, ground : Files, throughout : SUBSET Conditions]

\* An order leaves only on a passing audit of the build that sends it, made in
\* the container that sends it: a redeploy starts over.  The exception is an
\* audit of the container before, of the same build, that came to write between
\* the seeding of the provisional artifact and the restart.
PostsAreAudited ==
  attempt.at = "posted" =>
    LET ground == attempt.ground IN
    /\ ground.passing /\ ground.sha = up.build
    /\ ground.container = up.container \/ ground.stray

\* A condition that was bad from the first gate to the order did not stop it
\* only if it is the provider's data or the balance, and the artifact of this
\* build remembers it good.  A lost broker, a stale heartbeat and a critical
\* incident always stop it.
BlockersStopPosts ==
  attempt.at = "posted" =>
    attempt.throughout \subseteq {"provider", "balance"} \cap attempt.basis.remembers
=============================================================================
