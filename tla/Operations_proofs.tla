-------------------------- MODULE Operations_proofs --------------------------
(***************************************************************************)
(* Theorems of what runs beside the trading, for any builds, prints,       *)
(* syncers and checks.  Release: types; on which audit an order leaves;    *)
(* which conditions stop one.  Incidents: types; the counts are exact.     *)
(* Sentinel: types; an alert is not repeated before its time.  Forecasts:  *)
(* types; fetches of one coordinate keep apart; cache, slot and cooldown   *)
(* implement SingleFlight.  Last, that the four together are a behaviour   *)
(* of each.                                                                *)
(***************************************************************************)
EXTENDS MC_Operations, FiniteSetTheorems, WellFoundedInduction, TLAPS

-----------------------------------------------------------------------------
(* Release.                                                                *)

AuditPlaces == {"idle", "begun", "collected", "writing", "written", "rewriting"}
Looked == {"checked", "refreshed", "cleared", "posted"}

\* a deploy is seeded before its container comes up
DeploysLead == /\ up.container <= deploys + 1
               /\ seeded # "none" => up.container <= deploys

\* who audits a container that a deploy is about to end is a stray
AuditsOfThisContainer == \A a \in Auditors :
  audit[a].at # "idle" => /\ audit[a].payload.container = up.container
                          /\ seeded # "none" => audit[a].payload.stray

\* the artifact vouches for this container, or a stray wrote it
Vouches(verdict) == verdict.passing => verdict.container = up.container \/ verdict.stray
ArtifactVouches == Vouches(artifact) /\ (seeded # "none" /\ artifact.passing => artifact.stray)

GroundHolds ==
  attempt.at \in {"cleared", "posted"} =>
    attempt.ground.passing /\ attempt.ground.sha = up.build /\ Vouches(attempt.ground)

\* what was bad from the first gate on is bad now, and the looks have passed it
BadThroughout ==
  /\ attempt.throughout \subseteq bad
  /\ attempt.at \in Looked => attempt.throughout \subseteq attempt.basis.remembers
  /\ attempt.at \in Looked \ {"checked"} => "broker" \notin attempt.throughout

ReleaseInd ==
  /\ ReleaseTypeOK /\ DeploysLead /\ AuditsOfThisContainer /\ ArtifactVouches
  /\ GroundHolds /\ BadThroughout

-----------------------------------------------------------------------------
Attempts == [at : {"idle", "planned", "reading", "checked", "refreshed", "cleared", "posted"},
             basis : Files, ground : Files, throughout : SUBSET Conditions]
Audits == [at : AuditPlaces, payload : Files]

LEMMA FilesTyped ==
  /\ Unreadable \in Files /\ NoAudit \in Audits /\ NoAttempt \in Attempts
  /\ \A b \in Builds : PendingAudit(b) \in Files
  /\ ~Unreadable.passing /\ \A b \in Builds : ~PendingAudit(b).passing
<1>1. 0 \in 0..(MaxDeploys + 1)
  BY ReleaseAssumption
<1>2. Unreadable \in Files /\ \A b \in Builds : PendingAudit(b) \in Files
  BY <1>1 DEF Unreadable, PendingAudit, Artifact, Files
<1> QED
  BY <1>2 DEF Unreadable, PendingAudit, Artifact, NoAudit, NoAttempt, Audits, Attempts,
     AuditPlaces

LEMMA ReleaseInitInd == ReleaseInit => ReleaseInd
<1> SUFFICES ASSUME ReleaseInit PROVE ReleaseInd
  OBVIOUS
<1>1. ReleaseTypeOK
  BY FilesTyped, ReleaseAssumption
  DEF ReleaseInit, ReleaseTypeOK, Audits, Attempts, AuditPlaces
<1> QED
  BY <1>1, FilesTyped, ReleaseAssumption
  DEF ReleaseInit, ReleaseInd, DeploysLead, AuditsOfThisContainer, ArtifactVouches, Vouches,
      GroundHolds, BadThroughout, NoAudit, NoAttempt, Looked

-----------------------------------------------------------------------------
(* The world.                                                              *)

LEMMA WorldKeepsInd ==
  ASSUME ReleaseInd, NEW c \in Conditions, TurnBad(c) \/ TurnGood(c)
  PROVE  ReleaseInd'
<1>1. CASE TurnBad(c)
  BY <1>1 DEF TurnBad, ReleaseInd, ReleaseTypeOK, DeploysLead, AuditsOfThisContainer,
     ArtifactVouches, Vouches, GroundHolds, BadThroughout
<1>2. CASE TurnGood(c)
  <2>1. attempt \in Attempts /\ bad \subseteq Conditions
    BY DEF ReleaseInd, ReleaseTypeOK, Attempts
  <2>2. /\ attempt' = [attempt EXCEPT !.throughout = attempt.throughout \ {c}]
        /\ UNCHANGED <<up, seeded, deploys, artifact, audit>> /\ bad' = bad \ {c}
    BY <1>2 DEF TurnGood
  <2>3. /\ attempt' \in Attempts /\ attempt'.at = attempt.at
        /\ attempt'.basis = attempt.basis /\ attempt'.ground = attempt.ground
        /\ attempt'.throughout = attempt.throughout \ {c}
    BY <2>1, <2>2 DEF Attempts
  <2> QED
    BY <2>2, <2>3 DEF ReleaseInd, ReleaseTypeOK, Attempts, DeploysLead, AuditsOfThisContainer,
       ArtifactVouches, Vouches, GroundHolds, BadThroughout
<1> QED
  BY <1>1, <1>2

-----------------------------------------------------------------------------
(* Audits.                                                                 *)

\* an audit that moves, and perhaps the file with it
LEMMA AuditKeepsInd ==
  ASSUME ReleaseInd, NEW a \in Auditors, NEW s \in Audits, audit' = [audit EXCEPT ![a] = s],
         s.at # "idle" => s.payload.container = up.container /\ (seeded # "none" => s.payload.stray),
         artifact' = artifact \/ artifact' = Unreadable
           \/ (audit[a].at # "idle" /\ artifact' = audit[a].payload),
         UNCHANGED <<up, seeded, deploys, bad, attempt>>
  PROVE  ReleaseInd'
<1>1. audit' \in [Auditors -> Audits] /\ \A b \in Auditors \ {a} : audit'[b] = audit[b]
  BY DEF ReleaseInd, ReleaseTypeOK, Audits, AuditPlaces
<1>2. audit'[a] = s
  BY DEF ReleaseInd, ReleaseTypeOK
<1>3. artifact' \in Files
  BY FilesTyped DEF ReleaseInd, ReleaseTypeOK, Audits
<1>4. ReleaseTypeOK'
  BY <1>1, <1>3 DEF ReleaseInd, ReleaseTypeOK, Audits, AuditPlaces
<1>5. AuditsOfThisContainer'
  BY <1>1, <1>2 DEF ReleaseInd, AuditsOfThisContainer
<1>6. ArtifactVouches'
  BY FilesTyped DEF ReleaseInd, ArtifactVouches, Vouches, AuditsOfThisContainer
<1>7. DeploysLead' /\ GroundHolds' /\ BadThroughout'
  BY DEF ReleaseInd, DeploysLead, GroundHolds, Vouches, BadThroughout
<1> QED
  BY <1>4, <1>5, <1>6, <1>7 DEF ReleaseInd

LEMMA AuditorsKeepInd ==
  ASSUME ReleaseInd, NEW a \in Auditors,
         \/ BeginAudit(a) \/ OpenArtifact(a) \/ CloseArtifact(a)
         \/ \E markets \in BOOLEAN : Collect(a, markets)
  PROVE  ReleaseInd'
<1>1. /\ audit[a] \in Audits /\ audit[a].payload \in Files
      /\ up.build \in Builds /\ up.container \in 0..(MaxDeploys + 1)
      /\ audit[a].at # "idle" => audit[a].payload.container = up.container
                                 /\ (seeded # "none" => audit[a].payload.stray)
  BY DEF ReleaseInd, ReleaseTypeOK, Audits, AuditPlaces, AuditsOfThisContainer
<1>2. CASE BeginAudit(a)
  <2> DEFINE verdict == Artifact(up.build, FALSE, {}, up.container, seeded # "none")
  <2>1. verdict \in Files /\ verdict.container = up.container /\ verdict.stray = (seeded # "none")
    BY <1>1 DEF Artifact, Files
  <2> HIDE DEF verdict
  <2>2. [at |-> "begun", payload |-> verdict] \in Audits
    BY <2>1 DEF Audits, AuditPlaces
  <2>3. audit' = [audit EXCEPT ![a] = [at |-> "begun", payload |-> verdict]]
        /\ UNCHANGED <<up, seeded, deploys, artifact, bad, attempt>>
    BY <1>2 DEF BeginAudit, verdict
  <2> QED
    BY <2>1, <2>2, <2>3, AuditKeepsInd
<1>3. ASSUME NEW markets \in BOOLEAN, Collect(a, markets) PROVE ReleaseInd'
  <2> DEFINE verdict == Findings(a, markets)
  <2>1. verdict \in Files /\ verdict.container = audit[a].payload.container
        /\ verdict.stray = audit[a].payload.stray
    BY <1>1 DEF Findings, Files, Maskable
  <2> HIDE DEF verdict
  <2>2. [at |-> "collected", payload |-> verdict] \in Audits
    BY <2>1 DEF Audits, AuditPlaces
  <2>3. /\ audit' = [audit EXCEPT ![a] = [at |-> "collected", payload |-> verdict]]
        /\ audit[a].at = "begun" /\ UNCHANGED <<up, seeded, deploys, artifact, bad, attempt>>
    BY <1>3 DEF Collect, verdict
  <2> QED
    BY <1>1, <2>1, <2>2, <2>3, AuditKeepsInd
<1>4. ASSUME NEW place \in AuditPlaces, audit[a].at # "idle",
             audit' = [audit EXCEPT ![a].at = place],
             artifact' = Unreadable \/ artifact' = audit[a].payload,
             UNCHANGED <<up, seeded, deploys, bad, attempt>>
      PROVE  ReleaseInd'
  <2> DEFINE s == [audit[a] EXCEPT !.at = place]
  <2>1. s \in Audits /\ s.payload = audit[a].payload
    BY <1>1 DEF Audits
  <2>2. audit' = [audit EXCEPT ![a] = s]
    BY <1>4
  <2> HIDE DEF s
  <2> QED
    BY <1>1, <1>4, <2>1, <2>2, AuditKeepsInd
<1>5. CASE OpenArtifact(a)
  <2>1. /\ audit' = [audit EXCEPT ![a].at = IF audit[a].at = "collected" THEN "writing" ELSE "rewriting"]
        /\ audit[a].at # "idle" /\ artifact' = Unreadable
        /\ UNCHANGED <<up, seeded, deploys, bad, attempt>>
    BY <1>5 DEF OpenArtifact
  <2> QED
    BY <1>4, <2>1 DEF AuditPlaces
<1>6. CASE CloseArtifact(a)
  <2>1. /\ audit[a].at # "idle"
        /\ artifact' = Unreadable \/ artifact' = audit[a].payload
        /\ UNCHANGED <<up, seeded, deploys, bad, attempt>>
    BY <1>6 DEF CloseArtifact, HasOpen
  <2>2. \/ audit' = [audit EXCEPT ![a].at = "written"]
        \/ audit' = [audit EXCEPT ![a] = NoAudit]
    BY <1>6 DEF CloseArtifact
  <2>3. CASE audit' = [audit EXCEPT ![a].at = "written"]
    BY <1>4, <2>1, <2>3 DEF AuditPlaces
  <2>4. CASE audit' = [audit EXCEPT ![a] = NoAudit]
    <3>1. NoAudit \in Audits /\ NoAudit.at = "idle"
      BY FilesTyped DEF NoAudit
    <3> QED
      BY <2>1, <2>4, <3>1, AuditKeepsInd
  <2> QED
    BY <2>2, <2>3, <2>4
<1> QED
  BY <1>2, <1>3, <1>5, <1>6

-----------------------------------------------------------------------------
(* Deploys.                                                                *)

LEMMA SeedKeepsInd ==
  ASSUME ReleaseInd, NEW b \in Builds, Seed(b)
  PROVE  ReleaseInd'
<1>1. /\ deploys < MaxDeploys /\ deploys' = deploys + 1 /\ seeded' = b
      /\ artifact' = PendingAudit(b) /\ UNCHANGED <<up, bad, attempt>>
  BY DEF Seed, Provisional
<1>2. \A a \in Auditors :
        /\ audit'[a] = [audit[a] EXCEPT !.payload = [audit[a].payload EXCEPT
                          !.stray = audit[a].payload.stray \/ audit[a].at # "idle"]]
        /\ audit[a] \in Audits
  BY DEF Seed, ReleaseInd, ReleaseTypeOK, Audits, AuditPlaces
<1>3. ASSUME NEW a \in Auditors
      PROVE  /\ audit'[a] \in Audits /\ audit'[a].at = audit[a].at
             /\ audit'[a].payload.container = audit[a].payload.container
             /\ audit[a].at # "idle" => audit'[a].payload.stray
  <2> DEFINE verdict == [audit[a].payload EXCEPT
                        !.stray = audit[a].payload.stray \/ audit[a].at # "idle"]
  <2>1. audit[a].payload \in Files
    BY <1>2 DEF Audits
  <2>2. /\ verdict \in Files /\ verdict.container = audit[a].payload.container
        /\ verdict.stray = (audit[a].payload.stray \/ audit[a].at # "idle")
    BY <2>1 DEF Files
  <2> HIDE DEF verdict
  <2>3. audit'[a] = [audit[a] EXCEPT !.payload = verdict]
    BY <1>2 DEF verdict
  <2> QED
    BY <1>2, <2>2, <2>3 DEF Audits
<1>4. audit' = [a \in Auditors |-> audit'[a]]
  BY DEF Seed
<1>5. audit' \in [Auditors -> Audits]
  BY <1>3, <1>4
<1>6. ReleaseTypeOK'
  BY <1>1, <1>5, FilesTyped, ReleaseAssumption
  DEF ReleaseInd, ReleaseTypeOK, Audits, AuditPlaces
<1>7. DeploysLead'
  BY <1>1, ReleaseAssumption DEF ReleaseInd, DeploysLead, ReleaseTypeOK
<1>8. AuditsOfThisContainer'
  BY <1>1, <1>3 DEF ReleaseInd, AuditsOfThisContainer
<1>9. ArtifactVouches' /\ GroundHolds' /\ BadThroughout'
  BY <1>1, FilesTyped DEF ReleaseInd, ArtifactVouches, Vouches, GroundHolds, BadThroughout
<1> QED
  BY <1>6, <1>7, <1>8, <1>9 DEF ReleaseInd

LEMMA RestartKeepsInd ==
  ASSUME ReleaseInd, Recreate \/ ContainersRestart
  PROVE  ReleaseInd'
<1>1. /\ audit' = [a \in Auditors |-> NoAudit] /\ attempt' = NoAttempt
      /\ UNCHANGED <<deploys, artifact, bad>>
  BY DEF Recreate, ContainersRestart
<1>2. /\ up' \in [build : Builds, container : 1..(MaxDeploys + 1)]
      /\ seeded' \in Builds \cup {"none"} /\ DeploysLead' /\ ArtifactVouches'
  <2>1. CASE Recreate
    <3>1. /\ seeded # "none" /\ seeded' = "none" /\ UNCHANGED <<deploys, artifact>>
          /\ up' = [build |-> seeded, container |-> up.container + 1]
      BY <2>1 DEF Recreate
    <3>2. seeded \in Builds /\ up.container \in 1..(MaxDeploys + 1) /\ deploys \in 0..MaxDeploys
      BY <3>1 DEF ReleaseInd, ReleaseTypeOK
    <3>3. up.container + 1 \in 1..(MaxDeploys + 1) /\ up.container + 1 <= deploys + 1
      BY <3>1, <3>2, ReleaseAssumption DEF ReleaseInd, DeploysLead
    <3> QED
      BY <3>1, <3>2, <3>3 DEF ReleaseInd, DeploysLead, ArtifactVouches, Vouches
  <2>2. CASE ContainersRestart
    BY <2>2 DEF ContainersRestart, ReleaseInd, ReleaseTypeOK, DeploysLead, ArtifactVouches, Vouches
  <2> QED
    BY <2>1, <2>2
<1>3. ReleaseTypeOK'
  BY <1>1, <1>2, FilesTyped DEF ReleaseInd, ReleaseTypeOK, Audits, AuditPlaces, Attempts
<1>4. AuditsOfThisContainer' /\ GroundHolds' /\ BadThroughout'
  BY <1>1 DEF AuditsOfThisContainer, GroundHolds, BadThroughout, NoAudit, NoAttempt, Looked
<1> QED
  BY <1>2, <1>3, <1>4 DEF ReleaseInd

-----------------------------------------------------------------------------
(* The entry attempt.                                                      *)

\* the attempt that moves carries what the invariant says of it
LEMMA AttemptKeepsInd ==
  ASSUME ReleaseInd, attempt' \in Attempts, GroundHolds', BadThroughout',
         UNCHANGED <<up, seeded, deploys, artifact, audit, bad>>
  PROVE  ReleaseInd'
BY DEF ReleaseInd, ReleaseTypeOK, Attempts, DeploysLead, AuditsOfThisContainer, ArtifactVouches,
   Vouches

LEMMA EntryKeepsInd ==
  ASSUME ReleaseInd, FirstGate \/ ReadRelease \/ DynamicGate \/ RefreshRisk \/ FinalGate
              \/ PostOrder \/ AttemptReturns
  PROVE  ReleaseInd'
<1>1. /\ attempt \in Attempts /\ artifact \in Files /\ bad \subseteq Conditions
      /\ ArtifactVouches /\ GroundHolds /\ BadThroughout
  BY DEF ReleaseInd, ReleaseTypeOK, Attempts
<1>2. UNCHANGED <<up, seeded, deploys, artifact, audit, bad>>
  BY DEF FirstGate, ReadRelease, DynamicGate, RefreshRisk, FinalGate, PostOrder, AttemptReturns
<1>3. CASE attempt' = NoAttempt
  <2>1. attempt' \in Attempts /\ GroundHolds' /\ BadThroughout'
    BY <1>3, FilesTyped DEF NoAttempt, GroundHolds, BadThroughout, Looked
  <2> QED
    BY <1>2, <2>1, AttemptKeepsInd
<1>4. ASSUME NEW place \in {"checked", "refreshed", "posted"}, attempt' = AttemptAt(place),
             place # "checked" => attempt.at \in Looked /\ "broker" \notin attempt.throughout,
             place = "checked" => attempt.throughout \subseteq attempt.basis.remembers,
             place = "posted" => attempt.at = "cleared"
      PROVE  ReleaseInd'
  <2>1. /\ attempt' \in Attempts /\ attempt'.at = place /\ attempt'.basis = attempt.basis
        /\ attempt'.ground = attempt.ground /\ attempt'.throughout = attempt.throughout
    BY <1>1, <1>4 DEF AttemptAt, Attempts
  <2>2. GroundHolds'
    BY <1>1, <1>2, <1>4, <2>1 DEF GroundHolds, Vouches
  <2>3. BadThroughout'
    BY <1>1, <1>2, <1>4, <2>1 DEF BadThroughout
  <2> QED
    BY <1>2, <2>1, <2>2, <2>3, AttemptKeepsInd
<1>5. CASE FirstGate
  <2>1. /\ attempt' \in Attempts /\ attempt'.at = "planned" /\ attempt'.throughout = bad
    BY <1>1, <1>5 DEF FirstGate, AttemptAt, Attempts
  <2>2. GroundHolds' /\ BadThroughout'
    BY <1>2, <2>1 DEF GroundHolds, BadThroughout, Looked
  <2> QED
    BY <1>2, <2>1, <2>2, AttemptKeepsInd
<1>6. CASE ReadRelease
  <2>1. /\ attempt' \in Attempts /\ attempt'.at = "reading"
        /\ attempt'.throughout = attempt.throughout
    BY <1>1, <1>6 DEF ReadRelease, AttemptAt, Attempts
  <2>2. GroundHolds' /\ BadThroughout'
    BY <1>1, <1>2, <2>1 DEF GroundHolds, BadThroughout, Looked
  <2> QED
    BY <1>2, <2>1, <2>2, AttemptKeepsInd
<1>7. CASE DynamicGate
  <2>1. CASE Permits(attempt.basis) /\ bad \subseteq Masked(attempt.basis)
    <3>1. attempt' = AttemptAt("checked")
      BY <1>7, <2>1 DEF DynamicGate, Proceed
    <3>2. attempt.throughout \subseteq attempt.basis.remembers
      BY <1>1, <2>1 DEF Permits, Masked, BadThroughout
    <3> QED
      BY <1>4, <3>1, <3>2
  <2> QED
    BY <1>3, <1>7, <2>1 DEF DynamicGate, Proceed
<1>8. CASE RefreshRisk
  <2>1. CASE "broker" \notin bad
    <3>1. attempt' = AttemptAt("refreshed") /\ attempt.at \in Looked
      BY <1>8, <2>1 DEF RefreshRisk, Proceed, Looked
    <3>2. "broker" \notin attempt.throughout
      BY <1>1, <2>1 DEF BadThroughout
    <3> QED
      BY <1>4, <3>1, <3>2
  <2> QED
    BY <1>3, <1>8, <2>1 DEF RefreshRisk, Proceed
<1>9. CASE FinalGate
  <2>1. CASE Permits(artifact)
    <3>1. /\ attempt' \in Attempts /\ attempt'.at = "cleared" /\ attempt'.ground = artifact
          /\ attempt'.basis = attempt.basis /\ attempt'.throughout = attempt.throughout
          /\ attempt.at = "refreshed"
      BY <1>1, <1>9, <2>1 DEF FinalGate, AttemptAt, Attempts
    <3>2. GroundHolds'
      BY <1>1, <1>2, <2>1, <3>1 DEF GroundHolds, ArtifactVouches, Vouches, Permits
    <3>3. BadThroughout'
      BY <1>1, <1>2, <3>1 DEF BadThroughout, Looked
    <3> QED
      BY <1>2, <3>1, <3>2, <3>3, AttemptKeepsInd
  <2> QED
    BY <1>3, <1>9, <2>1 DEF FinalGate
<1>10. CASE PostOrder
  BY <1>1, <1>4, <1>10 DEF PostOrder, BadThroughout, Looked
<1>11. CASE AttemptReturns
  BY <1>3, <1>11 DEF AttemptReturns
<1> QED
  BY <1>5, <1>6, <1>7, <1>8, <1>9, <1>10, <1>11

-----------------------------------------------------------------------------
LEMMA ReleaseStepInd == ReleaseInd /\ [ReleaseNext]_releaseVars => ReleaseInd'
<1> SUFFICES ASSUME ReleaseInd, [ReleaseNext]_releaseVars PROVE ReleaseInd'
  OBVIOUS
<1>1. CASE UNCHANGED releaseVars
  BY <1>1 DEF releaseVars, ReleaseInd, ReleaseTypeOK, DeploysLead, AuditsOfThisContainer,
     ArtifactVouches, Vouches, GroundHolds, BadThroughout
<1>2. CASE ReleaseNext
  BY <1>2, WorldKeepsInd, AuditorsKeepInd, SeedKeepsInd, RestartKeepsInd, EntryKeepsInd
  DEF ReleaseNext
<1> QED
  BY <1>1, <1>2

THEOREM ReleaseInvariant == ReleaseSpec => []ReleaseInd
BY ReleaseInitInd, ReleaseStepInd, PTL DEF ReleaseSpec

\* What the artifact, the audits and the attempt hold.
THEOREM ReleaseTypes == ReleaseSpec => []ReleaseTypeOK
<1>1. ReleaseInd => ReleaseTypeOK
  BY DEF ReleaseInd
<1> QED
  BY <1>1, ReleaseInvariant, PTL

\* An order leaves only on a passing audit of the build that sends it, made in
\* the container that sends it, or by a stray: an audit of the container before
\* that wrote between the seeding of the provisional artifact and the restart.
THEOREM OrdersAreAudited == ReleaseSpec => []PostsAreAudited
<1>1. ReleaseInd => PostsAreAudited
  BY DEF ReleaseInd, GroundHolds, Vouches, PostsAreAudited
<1> QED
  BY <1>1, ReleaseInvariant, PTL

\* A lost broker, a stale heartbeat and a critical incident that last from the
\* first gate on stop the order, however audits and deploys interleave; missing
\* provider data and balance do unless the artifact remembers them good.
THEOREM BlockersStop == ReleaseSpec => []BlockersStopPosts
<1>1. ASSUME ReleaseInd PROVE BlockersStopPosts
  <2> SUFFICES ASSUME attempt.at = "posted"
               PROVE  attempt.throughout \subseteq
                        {"provider", "balance"} \cap attempt.basis.remembers
    BY DEF BlockersStopPosts
  <2>1. /\ attempt.throughout \subseteq attempt.basis.remembers
        /\ "broker" \notin attempt.throughout
    BY <1>1 DEF ReleaseInd, BadThroughout, Looked
  <2>2. attempt.basis.remembers \subseteq Maskable
    BY <1>1 DEF ReleaseInd, ReleaseTypeOK, Files
  <2> QED
    BY <2>1, <2>2 DEF Maskable
<1> QED
  BY <1>1, ReleaseInvariant, PTL

-----------------------------------------------------------------------------
(* Incidents.                                                              *)

LEMMA HighestOf ==
  ASSUME NEW S \in SUBSET Int, IsFiniteSet(S), S # {}
  PROVE  Highest(S) \in S /\ \A y \in S : y <= Highest(S)
<1> DEFINE Above(x) == {y \in S : y > x}
<1> DEFINE T == {Above(x) : x \in S}
<1>1. T \subseteq FiniteSubsetsOf(S) /\ T # {}
  <2>1. T \subseteq SUBSET S /\ T # {}
    OBVIOUS
  <2> QED
    BY <2>1, FS_FiniteSubsetsOfFinite
<1>2. PICK U \in T : \A V \in T : <<V, U>> \notin StrictSubsetOrdering(S)
  <2> HIDE DEF T
  <2> QED
    BY <1>1, FS_StrictSubsetOrderingWellFounded, WFMin
<1>3. PICK x \in S : U = Above(x)
  BY <1>2
<1>4. ASSUME NEW y \in S, y > x PROVE FALSE
  <2>1. Above(y) \in T
    BY <1>4
  <2> HIDE DEF T
  <2>2. Above(y) \subseteq Above(x) /\ y \in Above(x) /\ y \notin Above(y)
        /\ Above(x) \subseteq S
    <3>1. \A z \in S : z \in Int
      OBVIOUS
    <3>2. \A z \in Above(y) : z \in Above(x)
      BY <1>4, <3>1
    <3>3. y \in Above(x) /\ y \notin Above(y)
      BY <1>4, <3>1
    <3>4. Above(x) \subseteq S
      OBVIOUS
    <3> QED
      BY <3>2, <3>3, <3>4
  <2> HIDE DEF Above
  <2>3. <<Above(y), U>> \in StrictSubsetOrdering(S)
    BY <1>3, <2>2 DEF StrictSubsetOrdering
  <2> QED
    BY <1>2, <2>1, <2>3
<1>5. \A y \in S : y <= x
  BY <1>4
<1> QED
  BY <1>5 DEF Highest

LEMMA DisjointSum ==
  ASSUME NEW S, NEW T, IsFiniteSet(S), IsFiniteSet(T), S \cap T = {}
  PROVE  IsFiniteSet(S \cup T) /\ Cardinality(S \cup T) = Cardinality(S) + Cardinality(T)
BY FS_Union, FS_EmptySet, FS_CardinalityType

SyncPlaces == {"idle", "upsert", "select", "rows", "mark"}
Groups == [count : Nat, last : Nat, severity : 0..3, after : Nat]
Rows == [count : Nat, severity : 0..3]
\* a table over some of the fingerprints
Partial(m, T) == DOMAIN m \subseteq Prints /\ \A f \in DOMAIN m : m[f] \in T
SyncOK(s) ==
  /\ s = [at |-> s.at, groups |-> s.groups, todo |-> s.todo, hand |-> s.hand,
          marks |-> s.marks]
  /\ s.at \in SyncPlaces
  /\ Partial(s.groups, Groups) /\ Partial(s.todo, Rows) /\ Partial(s.marks, Rows)
  /\ s.at = "mark" => s.hand \in DOMAIN s.todo

Logged == [print : Prints, severity : Severities]
Tracked == [count : Nat, severity : 0..3, lastEvent : Nat, alertedCount : Nat,
            alertedSeverity : 0..3]
TrackerOK ==
  /\ events \in Seq(Logged) /\ Len(events) <= MaxEvents /\ expired \in 0..Len(events)
  /\ incident \in [Prints -> Tracked]
  /\ \A f \in Prints : incident[f].lastEvent <= Len(events)
  /\ notified \in [Prints -> Nat] /\ losses \in 0..MaxLosses /\ overlapped \subseteq Prints
  /\ recorded \in [Prints -> Nat] /\ missed \in [Prints -> Nat]
  /\ DOMAIN syncer = Syncers /\ \A p \in Syncers : SyncOK(syncer[p])

\* what two syncs have both read is overlapped
SharedOverlaps ==
  \A p, q \in Syncers : p # q =>
    DOMAIN syncer[p].groups \cap DOMAIN syncer[q].groups \subseteq overlapped

\* what a sync has read, it has counted, and nobody has added it up meanwhile
ReadBy(f, g) ==
  {i \in EventsOf(f) : g.after < i /\ incident[f].lastEvent < i /\ i <= g.last}
GroupsStand ==
  \A p \in Syncers : \A f \in DOMAIN syncer[p].groups :
    LET g == syncer[p].groups[f] IN
    /\ g.last <= Len(events)
    /\ f \notin overlapped =>
         incident[f].lastEvent <= g.last /\ g.count = Cardinality(ReadBy(f, g))

IncidentsInd == TrackerOK /\ SharedOverlaps /\ GroupsStand /\ CountsAreExact

LEMMA EventsFinite ==
  ASSUME TrackerOK, NEW f, NEW S \in SUBSET EventsOf(f)
  PROVE  IsFiniteSet(S) /\ Cardinality(S) \in Nat
<1>1. Len(events) \in Nat /\ DOMAIN events = 1..Len(events)
  BY DEF TrackerOK
<1>2. IsFiniteSet(1..Len(events)) /\ S \subseteq 1..Len(events)
  BY <1>1, FS_Interval DEF EventsOf
<1> QED
  BY <1>2, FS_Subset, FS_CardinalityType

LEMMA EventsTyped ==
  ASSUME TrackerOK, NEW f
  PROVE  /\ EventsOf(f) \subseteq 1..Len(events) /\ Len(events) \in Nat
         /\ \A i \in EventsOf(f) : events[i].severity \in 1..3
<1>1. events \in Seq(Logged) /\ DOMAIN events = 1..Len(events) /\ Len(events) \in Nat
  BY DEF TrackerOK
<1>2. \A i \in 1..Len(events) : events[i] \in Logged
  BY <1>1
<1> QED
  BY <1>1, <1>2, IncidentsAssumption DEF EventsOf, Logged

\* what a sync reads of a fingerprint
LEMMA GroupRead ==
  ASSUME TrackerOK, NEW f \in Prints, Unseen(f) # {}
  PROVE  /\ Group(f) \in Groups /\ Group(f).last <= Len(events)
         /\ incident[f].lastEvent <= Group(f).last
         /\ ReadBy(f, Group(f)) = Unseen(f) /\ Group(f).count = Cardinality(Unseen(f))
<1>1. /\ Unseen(f) \in SUBSET EventsOf(f) /\ EventsOf(f) \subseteq 1..Len(events)
      /\ Len(events) \in Nat /\ expired \in Nat /\ incident[f].lastEvent \in Nat
  BY EventsTyped DEF Unseen, TrackerOK, Tracked
<1>2. IsFiniteSet(Unseen(f)) /\ Cardinality(Unseen(f)) \in Nat
  BY <1>1, EventsFinite
<1>3. /\ Highest(Unseen(f)) \in Unseen(f)
      /\ \A i \in Unseen(f) : i <= Highest(Unseen(f))
  BY <1>1, <1>2, HighestOf
<1>4. Highest({events[i].severity : i \in Unseen(f)}) \in 0..3
  <2> DEFINE Ranks == {events[i].severity : i \in Unseen(f)}
  <2>1. Ranks \subseteq 1..3 /\ Ranks # {}
    BY <1>1, EventsTyped
  <2>2. IsFiniteSet(Ranks)
    <3>1. Ranks \in SUBSET Nat /\ \A r \in Ranks : r <= 3
      BY <2>1
    <3> HIDE DEF Ranks
    <3> QED
      BY <3>1, FS_BoundedSetOfNaturals
  <2> HIDE DEF Ranks
  <2>3. Highest(Ranks) \in Ranks
    BY <2>1, <2>2, HighestOf
  <2> QED
    BY <2>1, <2>3 DEF Ranks
<1>5. /\ Group(f).count = Cardinality(Unseen(f)) /\ Group(f).last = Highest(Unseen(f))
      /\ Group(f).after = expired /\ Group(f) \in Groups
  BY <1>1, <1>2, <1>3, <1>4 DEF Group, Groups
<1>6. ReadBy(f, Group(f)) = Unseen(f)
  BY <1>1, <1>3, <1>5 DEF ReadBy, Unseen
<1>7. Group(f).last \in Unseen(f)
  BY <1>3, <1>5
<1>8. Group(f).last <= Len(events) /\ incident[f].lastEvent <= Group(f).last
  <2>1. \A i \in Unseen(f) : i \in 1..Len(events) /\ incident[f].lastEvent <= i
    BY <1>1 DEF Unseen
  <2> QED
    BY <1>7, <2>1
<1> QED
  BY <1>5, <1>6, <1>8

\* a group and what expired before it was read make up what the watermark passes
LEMMA WatermarkPasses ==
  ASSUME TrackerOK, NEW f \in Prints, NEW g \in Groups, incident[f].lastEvent <= g.last
  PROVE  Cardinality({i \in EventsOf(f) : i <= g.last}) =
           Cardinality({i \in EventsOf(f) : i <= incident[f].lastEvent})
           + Cardinality(ReadBy(f, g)) + Cardinality(SkippedBy(f, g))
<1> DEFINE Seen == {i \in EventsOf(f) : i <= incident[f].lastEvent}
           Passed == {i \in EventsOf(f) : i <= g.last}
<1>1. /\ EventsOf(f) \subseteq Nat /\ g.last \in Nat /\ g.after \in Nat
      /\ incident[f].lastEvent \in Nat
  BY EventsTyped DEF TrackerOK, Tracked, Groups
<1>2. /\ IsFiniteSet(Seen) /\ IsFiniteSet(ReadBy(f, g)) /\ IsFiniteSet(SkippedBy(f, g))
      /\ Cardinality(Seen) \in Nat /\ Cardinality(ReadBy(f, g)) \in Nat
      /\ Cardinality(SkippedBy(f, g)) \in Nat
  BY EventsFinite DEF ReadBy, SkippedBy
<1>3. ReadBy(f, g) \cap SkippedBy(f, g) = {}
  BY <1>1 DEF ReadBy, SkippedBy
<1>4. Seen \cap (ReadBy(f, g) \cup SkippedBy(f, g)) = {}
  BY <1>1 DEF ReadBy, SkippedBy
<1>5. Passed = Seen \cup (ReadBy(f, g) \cup SkippedBy(f, g))
  <2>1. ASSUME NEW i \in Passed PROVE i \in Seen \/ i \in ReadBy(f, g) \/ i \in SkippedBy(f, g)
    BY <1>1, <2>1 DEF ReadBy, SkippedBy
  <2>2. \A i \in Seen : i \in Passed
    BY <1>1
  <2>3. \A i \in ReadBy(f, g) \cup SkippedBy(f, g) : i \in Passed
    BY DEF ReadBy, SkippedBy
  <2> QED
    BY <2>1, <2>2, <2>3
<1> HIDE DEF Seen, Passed
<1>6. /\ IsFiniteSet(ReadBy(f, g) \cup SkippedBy(f, g))
      /\ Cardinality(ReadBy(f, g) \cup SkippedBy(f, g)) =
           Cardinality(ReadBy(f, g)) + Cardinality(SkippedBy(f, g))
  BY <1>2, <1>3, DisjointSum
<1>7. Cardinality(Passed) = Cardinality(Seen) + Cardinality(ReadBy(f, g) \cup SkippedBy(f, g))
  BY <1>2, <1>4, <1>5, <1>6, DisjointSum
<1> QED
  BY <1>2, <1>6, <1>7 DEF Seen, Passed


LEMMA IncidentsInitInd == IncidentsInit => IncidentsInd
<1> SUFFICES ASSUME IncidentsInit PROVE IncidentsInd
  OBVIOUS
<1> USE DEF IncidentsInit
<1>1. events \in Seq(Logged) /\ Len(events) = 0 /\ MaxEvents \in Nat /\ MaxLosses \in Nat
  BY IncidentsAssumption
<1>2. incident \in [Prints -> Tracked] /\ \A f \in Prints : incident[f].lastEvent = 0
  BY DEF Tracked, NoIncident
<1>3. \A p \in Syncers : SyncOK(syncer[p])
  BY DEF SyncOK, NoSync, SyncPlaces, Partial
<1>4. TrackerOK
  BY <1>1, <1>2, <1>3 DEF TrackerOK
<1>5. SharedOverlaps /\ GroupsStand
  BY DEF SharedOverlaps, GroupsStand, NoSync
<1>6. CountsAreExact
  <2>1. ASSUME NEW f \in Prints
        PROVE  Cardinality({i \in EventsOf(f) : i <= incident[f].lastEvent}) = 0
    <3>1. {i \in EventsOf(f) : i <= incident[f].lastEvent} = {}
      BY DEF EventsOf
    <3> QED
      BY <3>1, FS_EmptySet
  <2> QED
    BY <2>1 DEF CountsAreExact, NoIncident
<1> QED
  BY <1>4, <1>5, <1>6 DEF IncidentsInd

\* who changes nothing of the counts keeps them, and what is read of them
LEMMA CountsKept ==
  ASSUME IncidentsInd, UNCHANGED <<events, recorded, missed>>, incident' \in [Prints -> Tracked],
         overlapped \subseteq overlapped',
         \A f \in Prints : /\ incident'[f].count = incident[f].count
                           /\ incident'[f].lastEvent = incident[f].lastEvent
  PROVE  /\ CountsAreExact'
         /\ \A f \in Prints : incident'[f].lastEvent <= Len(events')
         /\ \A f \in Prints : \A g : ReadBy(f, g)' = ReadBy(f, g)
<1>1. \A f \in Prints : EventsOf(f)' = EventsOf(f)
  BY DEF EventsOf
<1>2. CountsAreExact'
  <2> SUFFICES ASSUME NEW f \in Prints \ overlapped'
               PROVE  incident'[f].count + missed'[f] =
                        recorded'[f] + Cardinality({i \in EventsOf(f)' : i <= incident'[f].lastEvent})
    BY DEF CountsAreExact
  <2>1. f \in Prints \ overlapped
    OBVIOUS
  <2> QED
    BY <1>1, <2>1 DEF IncidentsInd, CountsAreExact
<1> QED
  BY <1>1, <1>2 DEF IncidentsInd, TrackerOK, ReadBy

LEMMA LogEventKeeps ==
  ASSUME IncidentsInd, NEW f \in Prints, NEW severity \in Severities, LogEvent(f, severity)
  PROVE  IncidentsInd'
<1> DEFINE e == [print |-> f, severity |-> severity]
<1>1. /\ TrackerOK /\ e \in Logged /\ events' = Append(events, e) /\ Len(events) < MaxEvents
      /\ UNCHANGED <<expired, trackerVars, syncer, losses>>
  BY DEF LogEvent, IncidentsInd, Logged
<1> HIDE DEF e
<1>2. /\ events \in Seq(Logged) /\ events' \in Seq(Logged) /\ Len(events') = Len(events) + 1
      /\ Len(events) \in Nat /\ MaxEvents \in Nat
      /\ \A i \in 1..Len(events) : events'[i] = events[i]
  BY <1>1, IncidentsAssumption DEF TrackerOK
<1>3. \A h : \A i \in 1..Len(events) : i \in EventsOf(h)' <=> i \in EventsOf(h)
  BY <1>2 DEF EventsOf
<1>4. \A h : EventsOf(h)' \subseteq 1..(Len(events) + 1) /\ EventsOf(h) \subseteq 1..Len(events)
  BY <1>2 DEF EventsOf
<1>5. TrackerOK'
  <2>1. \A h \in Prints : incident[h].lastEvent \in Nat
    BY <1>1 DEF TrackerOK, Tracked
  <2> QED
    BY <1>1, <1>2, <2>1 DEF TrackerOK, trackerVars
<1>6. ASSUME NEW h \in Prints, NEW n \in Nat, n <= Len(events)
      PROVE  {i \in EventsOf(h)' : i <= n} = {i \in EventsOf(h) : i <= n}
  BY <1>2, <1>3, <1>4, <1>6
<1>7. CountsAreExact'
  <2>1. \A h \in Prints : incident[h].lastEvent \in Nat /\ incident[h].lastEvent <= Len(events)
    BY <1>1 DEF TrackerOK, Tracked
  <2> QED
    BY <1>1, <1>6, <2>1 DEF IncidentsInd, CountsAreExact, trackerVars
<1>8. GroupsStand'
  <2> SUFFICES ASSUME NEW p \in Syncers, NEW h \in DOMAIN syncer[p].groups
               PROVE  LET g == syncer[p].groups[h] IN
                      /\ g.last <= Len(events')
                      /\ h \notin overlapped =>
                           incident[h].lastEvent <= g.last /\ g.count = Cardinality(ReadBy(h, g)')
    BY <1>1 DEF GroupsStand, trackerVars
  <2> DEFINE g == syncer[p].groups[h]
  <2>1. g \in Groups /\ h \in Prints /\ g.last <= Len(events)
    BY <1>1 DEF IncidentsInd, GroupsStand, TrackerOK, SyncOK, Partial
  <2>2. g.last \in Nat
    BY <2>1 DEF Groups
  <2>3. ReadBy(h, g)' = ReadBy(h, g)
    <3> HIDE DEF g
    <3>1. \A i : i \in EventsOf(h)' /\ i <= g.last <=> i \in EventsOf(h) /\ i <= g.last
      BY <1>2, <1>3, <1>4, <2>1, <2>2
    <3>2. ReadBy(h, g)' = {i \in EventsOf(h)' : g.after < i /\ incident[h].lastEvent < i /\ i <= g.last}
      BY <1>1 DEF ReadBy, trackerVars, g
    <3> QED
      BY <3>1, <3>2 DEF ReadBy
  <2> QED
    BY <1>2, <2>1, <2>2, <2>3 DEF IncidentsInd, GroupsStand
<1>9. SharedOverlaps'
  BY <1>1 DEF IncidentsInd, SharedOverlaps, trackerVars
<1> QED
  BY <1>5, <1>7, <1>8, <1>9 DEF IncidentsInd

\* one process goes on, and the counts are as they were
LEMMA SyncerKeeps ==
  ASSUME IncidentsInd, NEW p \in Syncers, NEW s, SyncOK(s), syncer' = [syncer EXCEPT ![p] = s],
         UNCHANGED <<events, expired, recorded, missed>>, losses' \in 0..MaxLosses,
         incident' \in [Prints -> Tracked], notified' \in [Prints -> Nat],
         \A f \in Prints : /\ incident'[f].count = incident[f].count
                           /\ incident'[f].lastEvent = incident[f].lastEvent,
         \A f \in DOMAIN s.groups : f \in DOMAIN syncer[p].groups /\ s.groups[f] = syncer[p].groups[f],
         overlapped' = overlapped
  PROVE  IncidentsInd'
<1>1. /\ CountsAreExact' /\ \A f \in Prints : incident'[f].lastEvent <= Len(events')
      /\ \A f \in Prints : \A g : ReadBy(f, g)' = ReadBy(f, g)
  BY CountsKept
<1>2. DOMAIN syncer = Syncers
  BY DEF IncidentsInd, TrackerOK
<1>3. \A q \in Syncers : /\ SyncOK(syncer'[q]) /\ DOMAIN syncer'[q].groups \subseteq DOMAIN syncer[q].groups
                         /\ \A f \in DOMAIN syncer'[q].groups : syncer'[q].groups[f] = syncer[q].groups[f]
  <2>1. ASSUME NEW q \in Syncers PROVE syncer'[q] = IF q = p THEN s ELSE syncer[q]
    BY <1>2
  <2>2. \A q \in Syncers : SyncOK(syncer[q])
    BY DEF IncidentsInd, TrackerOK
  <2> QED
    BY <2>1, <2>2
<1>4. TrackerOK'
  <2>1. DOMAIN syncer' = Syncers
    BY <1>2
  <2> QED
    BY <1>1, <1>3, <2>1 DEF IncidentsInd, TrackerOK
<1>5. SharedOverlaps'
  BY <1>3 DEF IncidentsInd, SharedOverlaps
<1>6. GroupsStand'
  <2> SUFFICES ASSUME NEW q \in Syncers, NEW f \in DOMAIN syncer'[q].groups, NEW g,
                      g = syncer'[q].groups[f]
               PROVE  /\ g.last <= Len(events)
                      /\ f \notin overlapped =>
                           incident'[f].lastEvent <= g.last /\ g.count = Cardinality(ReadBy(f, g)')
    BY DEF GroupsStand
  <2>1. f \in DOMAIN syncer[q].groups /\ g = syncer[q].groups[f] /\ f \in Prints
    BY <1>3 DEF IncidentsInd, TrackerOK, SyncOK, Partial
  <2>2. ReadBy(f, g)' = ReadBy(f, g)
    BY <1>1, <2>1
  <2> QED
    BY <2>1, <2>2 DEF IncidentsInd, GroupsStand
<1> QED
  BY <1>1, <1>4, <1>5, <1>6 DEF IncidentsInd

LEMMA SyncOKAt ==
  ASSUME IncidentsInd, NEW p \in Syncers
  PROVE  SyncOK(syncer[p]) /\ DOMAIN syncer = Syncers
BY DEF IncidentsInd, TrackerOK

LEMMA NoSyncOK == SyncOK(NoSync) /\ DOMAIN NoSync.groups = {}
BY DEF SyncOK, NoSync, SyncPlaces, Partial

\* a sync that ends, or has lost, is idle again or has nothing to add
LEMMA LossKeeps ==
  ASSUME IncidentsInd, NEW p \in Syncers, LockTimeout(p) \/ SyncerDies(p)
  PROVE  IncidentsInd'
<1>1. losses' \in 0..MaxLosses
  BY IncidentsAssumption DEF IncidentsInd, TrackerOK, LockTimeout, SyncerDies, Loss
<1>2. /\ \/ syncer' = [syncer EXCEPT ![p] = NoSync]
         \/ syncer' = [syncer EXCEPT ![p] = [NoSync EXCEPT !.at = "select"]]
      /\ UNCHANGED <<events, expired, trackerVars>>
  BY DEF LockTimeout, SyncerDies
<1>3. SyncOK([NoSync EXCEPT !.at = "select"]) /\ DOMAIN ([NoSync EXCEPT !.at = "select"]).groups = {}
  BY DEF SyncOK, NoSync, SyncPlaces, Partial
<1>4. incident' \in [Prints -> Tracked] /\ notified' \in [Prints -> Nat]
  BY <1>2 DEF IncidentsInd, TrackerOK, trackerVars
<1> QED
  BY <1>1, <1>2, <1>3, <1>4, NoSyncOK, SyncerKeeps DEF trackerVars

LEMMA AlertsKeep ==
  ASSUME IncidentsInd, NEW p \in Syncers,
         SelectAlerts(p) \/ MarkAlerted(p) \/ CommitMarks(p) \/ \E f \in Alertable : Push(p, f)
  PROVE  IncidentsInd'
<1>1. /\ SyncOK(syncer[p]) /\ DOMAIN syncer = Syncers /\ losses \in 0..MaxLosses
      /\ incident \in [Prints -> Tracked] /\ notified \in [Prints -> Nat]
  BY DEF IncidentsInd, TrackerOK
<1>2. PICK s : s = syncer[p]
  OBVIOUS
<1>3. PICK a, g, t, h, m :
        s = [at |-> a, groups |-> g, todo |-> t, hand |-> h, marks |-> m]
  BY <1>2, <1>1 DEF SyncOK
<1>4. /\ Partial(g, Groups) /\ Partial(t, Rows) /\ Partial(m, Rows)
      /\ a = "mark" => h \in DOMAIN t
      /\ syncer[p].hand = h /\ syncer[p].todo = t /\ syncer[p].marks = m
      /\ syncer[p].groups = g /\ syncer[p].at = a
  BY <1>2, <1>1, <1>3 DEF SyncOK
<1>5. CASE SelectAlerts(p)
  <2> DEFINE rows == [f \in {f \in Alertable : DueForAlert(f)} |->
                        [count |-> incident[f].count, severity |-> incident[f].severity]]
  <2>1. Partial(rows, Rows)
    BY <1>1, IncidentsAssumption DEF Partial, Rows, Tracked
  <2>2. syncer' = [syncer EXCEPT ![p].at = "rows", ![p].todo = rows]
    BY <1>5 DEF SelectAlerts
  <2> HIDE DEF rows
  <2>3. PICK n : n = [s EXCEPT !.at = "rows", !.todo = rows]
    OBVIOUS
  <2>4. syncer' = [syncer EXCEPT ![p] = n]
    BY <1>2, <1>1, <2>2, <2>3
  <2>5. n = [at |-> "rows", groups |-> g, todo |-> rows, hand |-> h, marks |-> m]
    BY <1>3, <2>3
  <2>6. SyncOK(n) /\ n.groups = syncer[p].groups
    BY <1>1, <1>4, <2>5, <2>1 DEF SyncOK, SyncPlaces
  <2> QED
    BY <1>1, <1>5, <2>4, <2>6, SyncerKeeps DEF SelectAlerts, trackerVars
<1>6. CASE MarkAlerted(p)
  <2>1. h \in DOMAIN t /\ h = syncer[p].hand
    BY <1>4, <1>6 DEF MarkAlerted
  <2>2. Partial(AllBut(t, h), Rows) /\ Partial(Also(m, h, t[h]), Rows)
    BY <1>4, <2>1 DEF Partial, AllBut, Also
  <2>3. syncer' = [syncer EXCEPT ![p].at = "rows", ![p].todo = AllBut(t, h),
                     ![p].hand = "none", ![p].marks = Also(m, h, t[h])]
    BY <1>6, <1>4 DEF MarkAlerted
  <2>4. PICK n : n = [s EXCEPT !.at = "rows", !.todo = AllBut(t, h), !.hand = "none",
                                       !.marks = Also(m, h, t[h])]
    OBVIOUS
  <2>5. syncer' = [syncer EXCEPT ![p] = n]
    BY <1>2, <1>1, <2>3, <2>4
  <2>6. n = [at |-> "rows", groups |-> g, todo |-> AllBut(t, h), hand |-> "none",
             marks |-> Also(m, h, t[h])]
    BY <1>3, <2>4
  <2>7. SyncOK(n) /\ n.groups = syncer[p].groups
    BY <1>1, <1>4, <2>6, <2>2 DEF SyncOK, SyncPlaces
  <2> QED
    BY <1>1, <1>6, <2>5, <2>7, SyncerKeeps DEF MarkAlerted, trackerVars
<1>7. CASE CommitMarks(p)
  <2>1. incident' \in [Prints -> Tracked]
    BY <1>1, <1>7 DEF CommitMarks, Marked, Tracked, SyncOK, Partial, Rows
  <2>2. \A f \in Prints : /\ incident'[f].count = incident[f].count
                          /\ incident'[f].lastEvent = incident[f].lastEvent
    BY <1>1, <1>7 DEF CommitMarks, Marked, Tracked
  <2> QED
    BY <1>1, <1>7, <2>1, <2>2, NoSyncOK, SyncerKeeps DEF CommitMarks
<1>8. ASSUME NEW f \in Alertable, Push(p, f) PROVE IncidentsInd'
  <2>1. PICK n : n = [s EXCEPT !.at = "mark", !.hand = f]
    OBVIOUS
  <2>2. syncer' = [syncer EXCEPT ![p] = n]
    BY <1>2, <1>1, <1>8, <2>1 DEF Push
  <2>3. n = [at |-> "mark", groups |-> g, todo |-> t, hand |-> f, marks |-> m]
    BY <1>3, <2>1
  <2>4. SyncOK(n) /\ n.groups = syncer[p].groups
    <3>1. f \in DOMAIN t
      BY <1>8, <1>4 DEF Push
    <3> QED
      BY <1>4, <2>3, <3>1 DEF SyncOK, SyncPlaces
  <2>5. notified' \in [Prints -> Nat]
    BY <1>1, <1>8 DEF Push, Larger, SyncOK, Partial, Rows
  <2> QED
    BY <1>1, <1>8, <2>2, <2>4, <2>5, SyncerKeeps DEF Push
<1> QED
  BY <1>5, <1>6, <1>7, <1>8

LEMMA RecordKeeps ==
  ASSUME IncidentsInd, NEW f \in Prints, NEW severity \in Severities, RecordIncident(f, severity)
  PROVE  IncidentsInd'
<1>1. /\ TrackerOK /\ UNCHANGED <<events, expired, notified, missed, overlapped, syncer, losses>>
      /\ severity \in 0..3
  BY IncidentsAssumption DEF RecordIncident, IncidentsInd
<1>2. /\ incident' = [incident EXCEPT ![f].count = @ + 1, ![f].severity = severity]
      /\ recorded' = [recorded EXCEPT ![f] = @ + 1]
      /\ incident \in [Prints -> Tracked] /\ recorded \in [Prints -> Nat] /\ missed \in [Prints -> Nat]
  BY <1>1 DEF RecordIncident, TrackerOK
<1>3. incident' \in [Prints -> Tracked] /\ recorded' \in [Prints -> Nat]
  <2>1. PICK n \in Nat : n = incident[f].count + 1
    BY <1>2 DEF Tracked
  <2>2. [incident[f] EXCEPT !.count = n, !.severity = severity] \in Tracked
    BY <1>1, <1>2 DEF Tracked
  <2>3. incident' = [incident EXCEPT ![f] = [incident[f] EXCEPT !.count = n, !.severity = severity]]
    BY <1>2, <2>1
  <2>4. PICK r : r = [incident[f] EXCEPT !.count = n, !.severity = severity]
    OBVIOUS
  <2>5. r \in Tracked /\ incident' = [incident EXCEPT ![f] = r]
    BY <2>2, <2>3, <2>4
  <2>6. incident' \in [Prints -> Tracked]
    <3>1. incident \in [Prints -> Tracked]
      BY <1>2
    <3> QED
      BY <2>5, <3>1
  <2>7. recorded' \in [Prints -> Nat]
    BY <1>2
  <2> QED
    BY <2>6, <2>7
<1>4. \A h \in Prints :
        /\ incident'[h].lastEvent = incident[h].lastEvent
        /\ incident'[h].count = IF h = f THEN incident[h].count + 1 ELSE incident[h].count
        /\ recorded'[h] = IF h = f THEN recorded[h] + 1 ELSE recorded[h]
  BY <1>2 DEF Tracked
<1>5. TrackerOK'
  BY <1>1, <1>3, <1>4 DEF TrackerOK
<1>6. \A h : EventsOf(h)' = EventsOf(h)
  BY <1>1 DEF EventsOf
<1>7. CountsAreExact'
  <2> SUFFICES ASSUME NEW h \in Prints \ overlapped
               PROVE  incident'[h].count + missed[h] =
                        recorded'[h] + Cardinality({i \in EventsOf(h) : i <= incident[h].lastEvent})
    BY <1>1, <1>4, <1>6 DEF CountsAreExact
  <2> DEFINE n == Cardinality({i \in EventsOf(h) : i <= incident[h].lastEvent})
  <2>1. n \in Nat
    BY <1>1, EventsFinite
  <2>2. incident[h].count + missed[h] = recorded[h] + n
    BY DEF IncidentsInd, CountsAreExact
  <2>3. incident[h].count \in Nat /\ missed[h] \in Nat /\ recorded[h] \in Nat
    BY <1>2 DEF Tracked
  <2> HIDE DEF n
  <2>4. incident'[h].count + missed[h] = recorded'[h] + n
    BY <1>4, <2>1, <2>2, <2>3
  <2> QED
    BY <2>4 DEF n
<1>8. GroupsStand'
  <2>1. \A h \in Prints : \A g : ReadBy(h, g)' = ReadBy(h, g)
    BY <1>4, <1>6 DEF ReadBy
  <2> SUFFICES ASSUME NEW q \in Syncers, NEW h \in DOMAIN syncer[q].groups, NEW g,
                      g = syncer[q].groups[h]
               PROVE  /\ g.last <= Len(events)
                      /\ h \notin overlapped =>
                           incident'[h].lastEvent <= g.last /\ g.count = Cardinality(ReadBy(h, g)')
    BY <1>1 DEF GroupsStand
  <2>2. h \in Prints
    BY <1>1 DEF TrackerOK, SyncOK, Partial
  <2> QED
    BY <1>4, <2>1, <2>2 DEF IncidentsInd, GroupsStand
<1>9. SharedOverlaps'
  BY <1>1 DEF IncidentsInd, SharedOverlaps
<1> QED
  BY <1>5, <1>7, <1>8, <1>9 DEF IncidentsInd


LEMMA ReadKeeps ==
  ASSUME IncidentsInd, NEW p \in Syncers, ReadEvents(p)
  PROVE  IncidentsInd'
<1> DEFINE found == {f \in Prints : Unseen(f) # {}}
           read == [f \in found |-> Group(f)]
<1>1. /\ TrackerOK /\ SyncOK(syncer[p]) /\ DOMAIN syncer = Syncers
      /\ UNCHANGED <<events, expired, incident, notified, recorded, missed, losses>>
  BY DEF IncidentsInd, TrackerOK, ReadEvents
<1>2. \A f \in found :
        /\ Group(f) \in Groups /\ Group(f).last <= Len(events)
        /\ incident[f].lastEvent <= Group(f).last
        /\ Group(f).count = Cardinality(ReadBy(f, Group(f)))
  BY <1>1, GroupRead
<1>3. Partial(read, Groups) /\ DOMAIN read = found /\ \A f \in found : read[f] = Group(f)
  BY <1>2 DEF Partial
<1>4. syncer' = [syncer EXCEPT ![p].at = "upsert", ![p].groups = read]
  BY DEF ReadEvents
<1>5. overlapped' = overlapped \cup UNION {found \cap DOMAIN syncer[q].groups : q \in Syncers \ {p}}
  BY DEF ReadEvents
<1> HIDE DEF read
<1>6. PICK n : n = [syncer[p] EXCEPT !.at = "upsert", !.groups = read]
  OBVIOUS
<1>7. syncer' = [syncer EXCEPT ![p] = n]
  BY <1>1, <1>4, <1>6
<1>8. SyncOK(n) /\ n.groups = read
  <2>1. PICK s : s = syncer[p]
    OBVIOUS
  <2>2. PICK a, g, t, h, m :
          s = [at |-> a, groups |-> g, todo |-> t, hand |-> h, marks |-> m]
    BY <1>1, <2>1 DEF SyncOK
  <2>3. Partial(t, Rows) /\ Partial(m, Rows)
    BY <1>1, <2>1, <2>2 DEF SyncOK
  <2>4. n = [s EXCEPT !.at = "upsert", !.groups = read]
    BY <1>6, <2>1
  <2>5. n = [at |-> "upsert", groups |-> read, todo |-> t, hand |-> h, marks |-> m]
    BY <2>2, <2>4
  <2> QED
    BY <1>3, <2>3, <2>5 DEF SyncOK, SyncPlaces
<1>9. /\ DOMAIN syncer' = Syncers /\ syncer'[p] = n
      /\ \A q \in Syncers \ {p} : syncer'[q] = syncer[q]
  BY <1>1, <1>7
<1> HIDE DEF found
<1>10. overlapped \subseteq overlapped' /\ overlapped' \subseteq Prints
  BY <1>1, <1>5 DEF TrackerOK, found
<1>11. /\ CountsAreExact' /\ \A f \in Prints : incident'[f].lastEvent <= Len(events')
       /\ \A f \in Prints : \A g : ReadBy(f, g)' = ReadBy(f, g)
  BY <1>1, <1>10, CountsKept DEF TrackerOK
<1>12. TrackerOK'
  <2>1. \A q \in Syncers : SyncOK(syncer'[q])
    BY <1>1, <1>8, <1>9 DEF TrackerOK
  <2> QED
    BY <1>1, <1>9, <1>10, <2>1 DEF TrackerOK
<1>13. SharedOverlaps'
  <2> SUFFICES ASSUME NEW q \in Syncers, NEW r \in Syncers, q # r, NEW f,
                      f \in DOMAIN syncer'[q].groups, f \in DOMAIN syncer'[r].groups
               PROVE  f \in overlapped'
    BY DEF SharedOverlaps
  <2>1. ASSUME NEW u \in Syncers \ {p}, f \in found, f \in DOMAIN syncer[u].groups
        PROVE  f \in overlapped'
    BY <1>5, <2>1
  <2>2. CASE q = p
    BY <1>3, <1>8, <1>9, <2>1, <2>2
  <2>3. CASE r = p
    BY <1>3, <1>8, <1>9, <2>1, <2>3
  <2>4. CASE q # p /\ r # p
    BY <1>9, <1>10, <2>4 DEF IncidentsInd, SharedOverlaps
  <2> QED
    BY <2>2, <2>3, <2>4
<1>14. GroupsStand'
  <2> SUFFICES ASSUME NEW q \in Syncers, NEW f \in DOMAIN syncer'[q].groups, NEW g,
                      g = syncer'[q].groups[f]
               PROVE  /\ g.last <= Len(events)
                      /\ f \notin overlapped' =>
                           incident[f].lastEvent <= g.last /\ g.count = Cardinality(ReadBy(f, g)')
    BY <1>1 DEF GroupsStand
  <2>1. f \in Prints
    BY <1>12 DEF TrackerOK, SyncOK, Partial
  <2>2. ReadBy(f, g)' = ReadBy(f, g)
    BY <1>11, <2>1
  <2>3. CASE q = p
    BY <1>2, <1>3, <1>8, <1>9, <2>2, <2>3
  <2>4. CASE q # p
    BY <1>9, <1>10, <2>2, <2>4 DEF IncidentsInd, GroupsStand
  <2> QED
    BY <2>3, <2>4
<1> QED
  BY <1>11, <1>12, <1>13, <1>14 DEF IncidentsInd

LEMMA UpsertKeeps ==
  ASSUME IncidentsInd, NEW p \in Syncers, Upsert(p)
  PROVE  IncidentsInd'
<1>1. /\ TrackerOK /\ SyncOK(syncer[p]) /\ DOMAIN syncer = Syncers
      /\ UNCHANGED <<events, expired, notified, recorded, overlapped, losses>>
      /\ incident \in [Prints -> Tracked] /\ missed \in [Prints -> Nat]
      /\ recorded \in [Prints -> Nat]
  BY DEF IncidentsInd, TrackerOK, Upsert
<1>2. PICK groups : groups = syncer[p].groups
  OBVIOUS
<1>3. /\ DOMAIN groups \subseteq Prints /\ \A f \in DOMAIN groups : groups[f] \in Groups
      /\ \A f \in DOMAIN groups : groups[f].last <= Len(events)
  BY <1>1, <1>2 DEF SyncOK, Partial, IncidentsInd, GroupsStand
<1>4. /\ incident' = [f \in Prints |->
           IF f \in DOMAIN groups THEN Added(f, groups[f]) ELSE incident[f]]
      /\ missed' = [f \in Prints |->
           IF f \in DOMAIN groups
           THEN missed[f] + Cardinality(SkippedBy(f, groups[f])) ELSE missed[f]]
      /\ syncer' = [syncer EXCEPT ![p].at = "select", ![p].groups = <<>>]
  BY <1>2 DEF Upsert
<1>5. ASSUME NEW f \in DOMAIN groups
      PROVE  /\ Added(f, groups[f]) \in Tracked
             /\ Added(f, groups[f]).count = incident[f].count + groups[f].count
             /\ Added(f, groups[f]).lastEvent = groups[f].last
             /\ Cardinality(SkippedBy(f, groups[f])) \in Nat
  <2>1. f \in Prints /\ groups[f] \in Groups /\ incident[f] \in Tracked
    BY <1>1, <1>3
  <2>2. PICK count, severity, last, i :
          /\ count \in Nat /\ severity \in 0..3 /\ last \in Nat
          /\ count = incident[f].count + groups[f].count
          /\ severity = Larger(incident[f].severity, groups[f].severity)
          /\ last = groups[f].last /\ i = incident[f] /\ i \in Tracked
    BY <2>1 DEF Tracked, Groups, Larger
  <2>3. PICK r : r = [i EXCEPT !.count = count, !.severity = severity, !.lastEvent = last]
    OBVIOUS
  <2>4. r = Added(f, groups[f])
    BY <2>2, <2>3 DEF Added
  <2>5. i \in Tracked /\ count \in Nat /\ severity \in 0..3 /\ last \in Nat
    BY <2>2
  <2>6. r \in Tracked /\ r.count = count /\ r.lastEvent = last
    BY <2>3, <2>5 DEF Tracked
  <2>7. Cardinality(SkippedBy(f, groups[f])) \in Nat
    BY <1>1, EventsFinite DEF SkippedBy
  <2> QED
    BY <2>2, <2>4, <2>6, <2>7
<1>6. /\ incident' \in [Prints -> Tracked] /\ missed' \in [Prints -> Nat]
      /\ \A f \in Prints : incident'[f].lastEvent <= Len(events)
  <2>1. \A f \in Prints : incident[f].lastEvent <= Len(events)
    BY <1>1 DEF TrackerOK
  <2> QED
    BY <1>1, <1>3, <1>4, <1>5, <2>1
<1>7. PICK n : n = [syncer[p] EXCEPT !.at = "select", !.groups = <<>>]
  OBVIOUS
<1>8. syncer' = [syncer EXCEPT ![p] = n]
  BY <1>1, <1>4, <1>7
<1>9. SyncOK(n) /\ DOMAIN n.groups = {}
  <2>1. PICK s : s = syncer[p]
    OBVIOUS
  <2>2. PICK a, g, t, h, m :
          s = [at |-> a, groups |-> g, todo |-> t, hand |-> h, marks |-> m]
    BY <1>1, <2>1 DEF SyncOK
  <2>3. Partial(t, Rows) /\ Partial(m, Rows)
    BY <1>1, <2>1, <2>2 DEF SyncOK
  <2>4. PICK e : e = <<>>
    OBVIOUS
  <2>5. DOMAIN e = {}
    BY <2>4
  <2>6. n = [s EXCEPT !.at = "select", !.groups = e]
    BY <1>7, <2>1, <2>4
  <2>7. n = [at |-> "select", groups |-> e, todo |-> t, hand |-> h, marks |-> m]
    BY <2>2, <2>6
  <2> QED
    BY <2>3, <2>5, <2>7 DEF SyncOK, SyncPlaces, Partial
<1>10. /\ DOMAIN syncer' = Syncers /\ DOMAIN syncer'[p].groups = {}
       /\ \A q \in Syncers \ {p} : syncer'[q] = syncer[q]
       /\ \A q \in Syncers : SyncOK(syncer'[q])
  <2>1. /\ DOMAIN syncer' = Syncers /\ syncer'[p] = n
        /\ \A q \in Syncers \ {p} : syncer'[q] = syncer[q]
    BY <1>1, <1>8
  <2> QED
    BY <1>1, <1>9, <2>1 DEF TrackerOK
<1>11. TrackerOK'
  BY <1>1, <1>6, <1>10 DEF TrackerOK
<1>12. \A f : EventsOf(f)' = EventsOf(f)
  BY <1>1 DEF EventsOf
<1>13. CountsAreExact'
  <2> SUFFICES ASSUME NEW f \in Prints \ overlapped
               PROVE  incident'[f].count + missed'[f] =
                        recorded[f] + Cardinality({i \in EventsOf(f) : i <= incident'[f].lastEvent})
    BY <1>1, <1>12 DEF CountsAreExact
  <2>1. incident[f].count + missed[f] =
          recorded[f] + Cardinality({i \in EventsOf(f) : i <= incident[f].lastEvent})
    BY DEF IncidentsInd, CountsAreExact
  <2>2. CASE f \notin DOMAIN groups
    BY <1>4, <2>1, <2>2
  <2>3. CASE f \in DOMAIN groups
    <3> DEFINE g == groups[f]
    <3>1. g \in Groups /\ incident[f].lastEvent <= g.last /\ g.count = Cardinality(ReadBy(f, g))
      BY <1>2, <1>3, <2>3 DEF IncidentsInd, GroupsStand
    <3>2. Cardinality({i \in EventsOf(f) : i <= g.last}) =
            Cardinality({i \in EventsOf(f) : i <= incident[f].lastEvent})
            + Cardinality(ReadBy(f, g)) + Cardinality(SkippedBy(f, g))
      BY <1>1, <3>1, WatermarkPasses
    <3>3. /\ incident'[f].count = incident[f].count + g.count
          /\ incident'[f].lastEvent = g.last
          /\ missed'[f] = missed[f] + Cardinality(SkippedBy(f, g))
          /\ Cardinality(SkippedBy(f, g)) \in Nat
      BY <1>4, <1>5, <2>3
    <3>4. /\ incident[f].count \in Nat /\ missed[f] \in Nat /\ recorded[f] \in Nat
          /\ g.count \in Nat
      BY <1>1, <3>1 DEF Tracked, Groups
    <3>5. Cardinality({i \in EventsOf(f) : i <= incident[f].lastEvent}) \in Nat
      BY <1>1, EventsFinite
    <3> HIDE DEF g
    <3> DEFINE seen == Cardinality({i \in EventsOf(f) : i <= incident[f].lastEvent})
               skipped == Cardinality(SkippedBy(f, g))
    <3>6. /\ incident[f].count + missed[f] = recorded[f] + seen
          /\ Cardinality({i \in EventsOf(f) : i <= g.last}) = seen + g.count + skipped
          /\ seen \in Nat /\ skipped \in Nat
      BY <2>1, <3>1, <3>2, <3>3, <3>5
    <3>7. missed'[f] = missed[f] + skipped
      BY <3>3
    <3> HIDE DEF seen, skipped
    <3>8. (incident[f].count + g.count) + (missed[f] + skipped) = recorded[f] + (seen + g.count + skipped)
      BY <3>4, <3>6
    <3> QED
      BY <3>3, <3>6, <3>7, <3>8
  <2> QED
    BY <2>2, <2>3
<1>14. SharedOverlaps'
  BY <1>1, <1>10 DEF IncidentsInd, SharedOverlaps
<1>15. GroupsStand'
  <2> SUFFICES ASSUME NEW q \in Syncers, NEW f \in DOMAIN syncer'[q].groups, NEW g,
                      g = syncer'[q].groups[f]
               PROVE  /\ g.last <= Len(events)
                      /\ f \notin overlapped =>
                           incident'[f].lastEvent <= g.last /\ g.count = Cardinality(ReadBy(f, g)')
    <3>1. Len(events') = Len(events) /\ overlapped' = overlapped
      BY <1>1
    <3> QED
      BY <3>1 DEF GroupsStand
  <2>1. q # p /\ f \in DOMAIN syncer[q].groups /\ g = syncer[q].groups[f] /\ f \in Prints
    BY <1>1, <1>10 DEF SyncOK, Partial
  <2>2. ASSUME f \notin overlapped PROVE incident'[f] = incident[f] /\ ReadBy(f, g)' = ReadBy(f, g)
    <3>1. f \notin DOMAIN groups
      BY <1>2, <2>1, <2>2 DEF IncidentsInd, SharedOverlaps
    <3>2. incident'[f] = incident[f]
      BY <1>4, <2>1, <3>1
    <3> QED
      BY <1>12, <3>2 DEF ReadBy
  <2> QED
    BY <2>1, <2>2 DEF IncidentsInd, GroupsStand
<1> QED
  BY <1>11, <1>13, <1>14, <1>15 DEF IncidentsInd

\* time passes, or nothing happens
LEMMA UnreadKept ==
  ASSUME IncidentsInd, TrackerOK', UNCHANGED <<events, trackerVars, syncer>>
  PROVE  IncidentsInd'
<1>1. UNCHANGED <<events, incident, recorded, missed, overlapped, syncer>>
  BY DEF trackerVars
<1>2. \A f : EventsOf(f)' = EventsOf(f)
  BY <1>1 DEF EventsOf
<1>3. \A f, g : ReadBy(f, g)' = ReadBy(f, g)
  BY <1>1, <1>2 DEF ReadBy
<1>4. CountsAreExact'
  BY <1>1, <1>2 DEF IncidentsInd, CountsAreExact
<1>5. GroupsStand'
  BY <1>1, <1>3 DEF IncidentsInd, GroupsStand
<1>6. SharedOverlaps'
  BY <1>1 DEF IncidentsInd, SharedOverlaps
<1> QED
  BY <1>4, <1>5, <1>6 DEF IncidentsInd

LEMMA IncidentsStepInd == IncidentsInd /\ [IncidentsNext]_incidentsVars => IncidentsInd'
<1> SUFFICES ASSUME IncidentsInd, [IncidentsNext]_incidentsVars PROVE IncidentsInd'
  OBVIOUS
<1>1. ASSUME NEW f \in Prints, NEW severity \in Severities,
             LogEvent(f, severity) \/ RecordIncident(f, severity)
      PROVE  IncidentsInd'
  BY <1>1, LogEventKeeps, RecordKeeps
<1>2. CASE Expire
  <2>1. /\ TrackerOK /\ expired' \in 0..Len(events)
        /\ UNCHANGED <<events, trackerVars, syncer, losses>>
    BY <1>2 DEF Expire, IncidentsInd, TrackerOK
  <2>2. TrackerOK'
    BY <2>1 DEF TrackerOK, trackerVars
  <2> QED
    BY <2>1, <2>2, UnreadKept
<1>3. ASSUME NEW p \in Syncers, Sync(p) \/ LockTimeout(p) \/ SyncerDies(p)
      PROVE  IncidentsInd'
  BY <1>3, ReadKeeps, UpsertKeeps, AlertsKeep, LossKeeps DEF Sync
<1>4. CASE UNCHANGED incidentsVars
  <2>1. UNCHANGED <<events, expired, trackerVars, syncer, losses>> /\ TrackerOK
    BY <1>4 DEF incidentsVars, IncidentsInd
  <2>2. TrackerOK'
    BY <2>1 DEF TrackerOK, trackerVars
  <2> QED
    BY <2>1, <2>2, UnreadKept
<1> QED
  BY <1>1, <1>2, <1>3, <1>4 DEF IncidentsNext

LEMMA IncidentsInvariant == IncidentsSpec => []IncidentsInd
BY IncidentsInitInd, IncidentsStepInd, PTL DEF IncidentsSpec

LEMMA IncidentsIndTypes == IncidentsInd => IncidentsTypeOK
<1> SUFFICES ASSUME IncidentsInd PROVE IncidentsTypeOK
  OBVIOUS
<1>1. /\ TrackerOK /\ Len(events) \in Nat /\ MaxEvents \in Nat
      /\ incident \in [Prints -> Tracked]
  BY IncidentsAssumption DEF IncidentsInd, TrackerOK
<1>2. \A f \in Prints : incident[f].lastEvent \in 0..MaxEvents
  BY <1>1 DEF TrackerOK, Tracked
<1>3. incident \in [Prints -> [count : Nat, severity : 0..3, lastEvent : 0..MaxEvents,
                               alertedCount : Nat, alertedSeverity : 0..3]]
  BY <1>1, <1>2 DEF Tracked
<1>4. \A p \in Syncers :
        /\ syncer[p].at \in SyncPlaces
        /\ DOMAIN syncer[p].groups \cup DOMAIN syncer[p].todo \cup DOMAIN syncer[p].marks
             \subseteq Prints
  BY <1>1 DEF TrackerOK, SyncOK, Partial
<1> QED
  BY <1>1, <1>3, <1>4 DEF IncidentsTypeOK, TrackerOK, Logged, SyncPlaces

(* The tables of the tracker keep their types, whatever syncs interleave,  *)
(* die or give up on a lock.                                               *)
THEOREM IncidentsTypes == IncidentsSpec => []IncidentsTypeOK
BY IncidentsIndTypes, IncidentsInvariant, PTL

(* With any fingerprints, syncing processes, deaths and lock timeouts, and *)
(* with any number of events: an incident has counted every event up to    *)
(* its watermark exactly once, unless two syncs read it at the same time.  *)
THEOREM IncidentsCountExactly == IncidentsSpec => []CountsAreExact
<1>1. IncidentsInd => CountsAreExact
  BY DEF IncidentsInd
<1> QED
  BY <1>1, IncidentsInvariant, PTL

-----------------------------------------------------------------------------
(* Sentinel.                                                               *)

Entered == [bad : BOOLEAN, age : Ages]
StepTypeOK ==
  /\ SentinelTypeOK /\ pass = [at |-> pass.at, state |-> pass.state]

\* the state that the next look at a key sees
LastSeen == IF Running THEN pass.state ELSE file

\* while no daemon has died, what was told of a key is marked as told, and
\* marked as old as it is
MarkedAsTold ==
  mishaps = 0 => \A k \in Keys \ {"entry_stall"} :
    /\ k \notin repeated
    /\ told[k] = "bad" => LastSeen[k].bad /\ LastSeen[k].age = quiet[k]

SentinelInd == StepTypeOK /\ MarkedAsTold

LEMMA AgesTyped ==
  /\ Old \in Ages /\ 0 \in Ages /\ 0 # Old /\ Old \in Nat
  /\ \A age \in Ages : Older(age) \in Ages
BY SentinelAssumption DEF Old, Ages, Older

LEMMA KeysTyped ==
  /\ Len(Checks) \in Nat /\ DOMAIN Checks = 1..Len(Checks)
  /\ \A i \in DOMAIN Checks : Checks[i] \in Keys
BY SentinelAssumption DEF Keys

LEMMA AgedTyped ==
  ASSUME NEW state \in [Keys -> Entered]
  PROVE  /\ Aged(state) \in [Keys -> Entered]
         /\ \A k \in Keys : /\ Aged(state)[k].bad = state[k].bad
                            /\ Aged(state)[k].age = Older(state[k].age)
<1>1. \A k \in Keys : /\ [state[k] EXCEPT !.age = Older(@)] \in Entered
                      /\ [state[k] EXCEPT !.age = Older(@)].bad = state[k].bad
                      /\ [state[k] EXCEPT !.age = Older(@)].age = Older(state[k].age)
  <2> SUFFICES ASSUME NEW k \in Keys, NEW s, s = state[k]
               PROVE  /\ [s EXCEPT !.age = Older(@)] \in Entered
                      /\ [s EXCEPT !.age = Older(@)].bad = s.bad
                      /\ [s EXCEPT !.age = Older(@)].age = Older(s.age)
    OBVIOUS
  <2>1. s \in Entered
    OBVIOUS
  <2>2. PICK age \in Ages : age = Older(s.age)
    BY <2>1, AgesTyped DEF Entered
  <2>3. s \in Entered
    BY <2>1
  <2>4. [s EXCEPT !.age = age] \in Entered /\ [s EXCEPT !.age = age].bad = s.bad
        /\ [s EXCEPT !.age = age].age = age
    BY <2>2, <2>3 DEF Entered
  <2> QED
    BY <2>2, <2>4
<1> QED
  BY <1>1 DEF Aged

LEMMA SentinelInitInd == SentinelInit => SentinelInd
<1> SUFFICES ASSUME SentinelInit PROVE SentinelInd
  OBVIOUS
<1>1. NothingTold \in [Keys -> Entered]
  BY AgesTyped DEF NothingTold, Entered
<1>2. StepTypeOK
  BY <1>1, AgesTyped, KeysTyped, SentinelAssumption
  DEF SentinelInit, StepTypeOK, SentinelTypeOK, NoPass, Entered
<1>3. MarkedAsTold
  BY DEF SentinelInit, MarkedAsTold
<1> QED
  BY <1>2, <1>3 DEF SentinelInd

\* the pass marks a key with what it has told
LEMMA MarkKeeps ==
  ASSUME SentinelInd, NEW k \in Keys, NEW entry \in Entered, MarkNext(k, entry),
         pass.at \in DOMAIN Checks, UNCHANGED <<problem, file, mishaps>>,
         told' \in [Keys -> {"well", "bad"}], quiet' \in [Keys -> Ages],
         repeated' \subseteq Keys,
         \A j \in Keys \ {k} : told'[j] = told[j] /\ quiet'[j] = quiet[j]
                               /\ (j \in repeated' => j \in repeated),
         mishaps = 0 /\ k # "entry_stall" =>
           k \notin repeated' /\ (told'[k] = "bad" => entry.bad /\ entry.age = quiet'[k])
  PROVE  SentinelInd'
<1>1. /\ pass' = [at |-> pass.at + 1, state |-> [pass.state EXCEPT ![k] = entry]]
      /\ pass.state \in [Keys -> Entered] /\ pass.at \in 1..Len(Checks)
  BY KeysTyped DEF MarkNext, SentinelInd, StepTypeOK, SentinelTypeOK, Entered
<1>2. pass'.at = pass.at + 1 /\ pass'.state = [pass.state EXCEPT ![k] = entry]
      /\ pass' = [at |-> pass'.at, state |-> pass'.state]
  BY <1>1
<1>3. StepTypeOK'
  BY <1>1, <1>2, KeysTyped DEF SentinelInd, StepTypeOK, SentinelTypeOK, Entered
<1>4. Running /\ Running'
  BY <1>1, <1>2, KeysTyped DEF Running
<1>5. MarkedAsTold'
  <2> SUFFICES ASSUME mishaps = 0, NEW j \in Keys \ {"entry_stall"}
               PROVE  /\ j \notin repeated'
                      /\ told'[j] = "bad" => pass'.state[j].bad /\ pass'.state[j].age = quiet'[j]
    BY <1>4 DEF MarkedAsTold, LastSeen
  <2>1. CASE j = k
    BY <1>1, <1>2, <2>1
  <2>2. CASE j # k
    BY <1>1, <1>2, <1>4, <2>2 DEF SentinelInd, MarkedAsTold, LastSeen
  <2> QED
    BY <2>1, <2>2
<1> QED
  BY <1>3, <1>5 DEF SentinelInd

LEMMA CheckKeeps ==
  ASSUME SentinelInd, NEW k \in Keys, CheckKey(k)
  PROVE  SentinelInd'
<1>1. /\ pass.state[k] \in Entered /\ told \in [Keys -> {"well", "bad"}]
      /\ quiet \in [Keys -> Ages] /\ repeated \subseteq Keys /\ problem[k] \in BOOLEAN
  BY DEF SentinelInd, StepTypeOK, SentinelTypeOK, Entered
<1>2. ASSUME pass.at \in DOMAIN Checks, mishaps = 0, k # "entry_stall"
      PROVE  /\ k \notin repeated
             /\ told[k] = "bad" => pass.state[k].bad /\ pass.state[k].age = quiet[k]
  BY <1>2, KeysTyped DEF SentinelInd, MarkedAsTold, LastSeen, Running
<1>3. ASSUME NEW wrong \in BOOLEAN
      PROVE  /\ [pass.state[k] EXCEPT !.bad = wrong] \in Entered
             /\ [pass.state[k] EXCEPT !.bad = wrong].bad = wrong
             /\ [pass.state[k] EXCEPT !.bad = wrong].age = pass.state[k].age
  <2>1. PICK s : s = pass.state[k]
    OBVIOUS
  <2>2. s \in Entered
    BY <1>1, <2>1
  <2>3. /\ [s EXCEPT !.bad = wrong] \in Entered /\ [s EXCEPT !.bad = wrong].bad = wrong
        /\ [s EXCEPT !.bad = wrong].age = s.age
    BY <2>2 DEF Entered
  <2> QED
    BY <2>1, <2>3
<1>4. CASE Alert(k)
  <2>1. PICK entry : entry = [bad |-> TRUE, age |-> 0]
    OBVIOUS
  <2>2. entry \in Entered /\ entry.bad /\ entry.age = 0
    BY <2>1, AgesTyped DEF Entered
  <2>3. /\ MarkNext(k, entry) /\ pass.at \in DOMAIN Checks /\ UNCHANGED <<problem, file, mishaps>>
        /\ told' = [told EXCEPT ![k] = "bad"] /\ quiet' = [quiet EXCEPT ![k] = 0]
        /\ repeated' = IF told[k] = "bad" /\ quiet[k] # Old THEN repeated \cup {k} ELSE repeated
        /\ pass.state[k].bad => pass.state[k].age = Old
    BY <1>4, <2>1 DEF Alert, ShouldAlert
  <2>4. /\ told' \in [Keys -> {"well", "bad"}] /\ quiet' \in [Keys -> Ages]
        /\ repeated' \subseteq Keys /\ quiet'[k] = 0
        /\ \A j \in Keys \ {k} : told'[j] = told[j] /\ quiet'[j] = quiet[j]
                                 /\ (j \in repeated' => j \in repeated)
    BY <1>1, <2>3, AgesTyped
  <2>5. mishaps = 0 /\ k # "entry_stall" => k \notin repeated'
    BY <1>2, <2>3
  <2> QED
    BY <2>2, <2>3, <2>4, <2>5, MarkKeeps
<1>5. CASE Recover(k)
  <2>1. PICK entry : entry = [pass.state[k] EXCEPT !.bad = FALSE]
    OBVIOUS
  <2>2. entry \in Entered
    BY <1>3, <2>1
  <2>3. /\ MarkNext(k, entry) /\ pass.at \in DOMAIN Checks
        /\ UNCHANGED <<problem, file, mishaps, quiet, repeated>>
        /\ told' = [told EXCEPT ![k] = "well"]
    BY <1>5, <2>1 DEF Recover
  <2> QED
    BY <1>1, <1>2, <2>2, <2>3, MarkKeeps
<1>6. CASE TellNothing(k)
  <2>1. PICK wrong \in BOOLEAN : wrong = Unsent(k)
    BY DEF Unsent
  <2>2. PICK entry : entry = [pass.state[k] EXCEPT !.bad = wrong]
    OBVIOUS
  <2>3. entry \in Entered /\ entry.bad = wrong /\ entry.age = pass.state[k].age
    BY <1>3, <2>2
  <2>4. /\ MarkNext(k, entry) /\ pass.at \in DOMAIN Checks
        /\ UNCHANGED <<problem, file, mishaps, quiet, repeated, told>>
    BY <1>6, <2>1, <2>2 DEF TellNothing, telegram
  <2>5. k # "entry_stall" /\ pass.state[k].bad => wrong
    BY <1>1, <2>1 DEF Unsent, ShouldRecover, SuppressRecovery
  <2> QED
    BY <1>1, <1>2, <2>3, <2>4, <2>5, MarkKeeps
<1> QED
  BY <1>4, <1>5, <1>6 DEF CheckKey, Sends

LEMMA SentinelStepInd == SentinelInd /\ [SentinelNext]_sentinelVars => SentinelInd'
<1> SUFFICES ASSUME SentinelInd, [SentinelNext]_sentinelVars PROVE SentinelInd'
  OBVIOUS
<1>1. /\ problem \in [Keys -> BOOLEAN] /\ quiet \in [Keys -> Ages]
      /\ file \in [Keys -> Entered] /\ pass.state \in [Keys -> Entered]
      /\ pass.at \in 0..(Len(Checks) + 1) /\ pass = [at |-> pass.at, state |-> pass.state]
      /\ MarkedAsTold /\ Len(Checks) \in Nat
  BY KeysTyped DEF SentinelInd, StepTypeOK, SentinelTypeOK, Entered
\* who moves the problems alone, or the pass over a key it knows nothing of
<1>2. ASSUME problem' \in [Keys -> BOOLEAN], UNCHANGED <<file, telegram, mishaps>>,
             pass'.state = pass.state, pass'.at \in 0..(Len(Checks) + 1),
             pass' = [at |-> pass'.at, state |-> pass'.state], pass'.at > 0 <=> pass.at > 0
      PROVE  SentinelInd'
  <2>1. Running' <=> Running
    BY <1>2 DEF Running
  <2>2. LastSeen' = LastSeen
    BY <1>2, <2>1 DEF LastSeen
  <2>3. MarkedAsTold'
    BY <1>1, <1>2, <2>2 DEF MarkedAsTold, telegram
  <2> QED
    BY <1>2, <2>3 DEF SentinelInd, StepTypeOK, SentinelTypeOK, telegram
<1>3. ASSUME NEW k \in Keys, ProblemBegins(k) \/ ProblemEnds(k) PROVE SentinelInd'
  <2>1. problem' \in [Keys -> BOOLEAN] /\ UNCHANGED <<file, pass, telegram, mishaps>>
    BY <1>1, <1>3 DEF ProblemBegins, ProblemEnds
  <2> QED
    BY <1>1, <1>2, <2>1
<1>4. CASE UNCHANGED sentinelVars
  BY <1>1, <1>2, <1>4 DEF sentinelVars
<1>5. CASE CheckRaises
  <2>1. /\ pass' = [pass EXCEPT !.at = pass.at + 1] /\ pass.at > 0 /\ pass.at <= Len(Checks)
        /\ UNCHANGED <<problem, file, telegram, mishaps>>
    BY <1>5 DEF CheckRaises, Running
  <2>2. PICK a, s : pass = [at |-> a, state |-> s] /\ a = pass.at /\ s = pass.state
    BY <1>1
  <2>3. PICK b : b = a + 1 /\ b = pass.at + 1
    BY <2>2
  <2>4. pass' = [at |-> b, state |-> s]
    BY <2>1, <2>2, <2>3
  <2> QED
    BY <1>1, <1>2, <2>1, <2>2, <2>3, <2>4
<1>6. CASE Tick
  <2>1. PICK s : s = Aged(pass.state)
    OBVIOUS
  <2>2. /\ s \in [Keys -> Entered] /\ file' = Aged(file) /\ file' \in [Keys -> Entered]
        /\ \A k \in Keys : /\ s[k].bad = pass.state[k].bad
                           /\ s[k].age = Older(pass.state[k].age)
                           /\ file'[k].bad = file[k].bad
                           /\ file'[k].age = Older(file[k].age)
    BY <1>1, <1>6, <2>1, AgedTyped DEF Tick
  <2>3. pass' = [pass EXCEPT !.state = s]
    BY <1>6, <2>1 DEF Tick
  <2>4. PICK a, t : pass = [at |-> a, state |-> t] /\ a = pass.at
    BY <1>1
  <2>5. pass' = [at |-> a, state |-> s]
    BY <2>3, <2>4
  <2>6. /\ quiet' = [k \in Keys |-> Older(quiet[k])] /\ quiet' \in [Keys -> Ages]
        /\ UNCHANGED <<problem, told, repeated, mishaps>>
    BY <1>1, <1>6, AgesTyped DEF Tick
  <2>7. StepTypeOK'
    BY <1>1, <2>2, <2>4, <2>5, <2>6 DEF SentinelInd, StepTypeOK, SentinelTypeOK, Entered
  <2>8. \A k \in Keys : /\ LastSeen'[k].bad = LastSeen[k].bad
                        /\ LastSeen'[k].age = Older(LastSeen[k].age)
    BY <2>2, <2>4, <2>5 DEF LastSeen, Running
  <2>9. MarkedAsTold'
    BY <1>1, <2>6, <2>8 DEF MarkedAsTold
  <2> QED
    BY <2>7, <2>9 DEF SentinelInd
<1>7. CASE BeginPass
  <2>1. /\ pass' = [at |-> 1, state |-> file] /\ ~Running
        /\ UNCHANGED <<problem, file, told, quiet, repeated, mishaps>>
    BY <1>7 DEF BeginPass, telegram
  <2>2. LastSeen' = LastSeen
    BY <2>1 DEF LastSeen, Running
  <2>3. MarkedAsTold'
    BY <1>1, <2>1, <2>2 DEF MarkedAsTold
  <2> QED
    BY <1>1, <2>1, <2>3 DEF SentinelInd, StepTypeOK, SentinelTypeOK, Entered
<1>8. CASE SaveState
  <2>1. /\ file' = pass.state /\ pass' = NoPass /\ Running
        /\ UNCHANGED <<problem, told, quiet, repeated, mishaps>>
    BY <1>1, <1>8 DEF SaveState, telegram, Running
  <2>2. LastSeen' = LastSeen
    BY <2>1 DEF LastSeen, Running, NoPass
  <2>3. MarkedAsTold'
    BY <1>1, <2>1, <2>2 DEF MarkedAsTold
  <2>4. NothingTold \in [Keys -> Entered]
    BY AgesTyped DEF NothingTold, Entered
  <2> QED
    BY <1>1, <2>1, <2>3, <2>4 DEF SentinelInd, StepTypeOK, SentinelTypeOK, Entered, NoPass
<1>9. CASE DaemonDies
  <2>1. NothingTold \in [Keys -> Entered]
    BY AgesTyped DEF NothingTold, Entered
  <2>2. /\ pass' = NoPass /\ file' \in [Keys -> Entered] /\ mishaps' \in 1..MaxMishaps
        /\ UNCHANGED <<problem, told, quiet, repeated>>
    BY <1>1, <1>9, <2>1, SentinelAssumption
    DEF DaemonDies, Mishap, telegram, SentinelInd, StepTypeOK, SentinelTypeOK
  <2>3. MarkedAsTold'
    BY <2>2 DEF MarkedAsTold
  <2> QED
    BY <1>1, <2>1, <2>2, <2>3 DEF SentinelInd, StepTypeOK, SentinelTypeOK, Entered, NoPass
<1> QED
  BY <1>3, <1>4, <1>5, <1>6, <1>7, <1>8, <1>9, CheckKeeps DEF SentinelNext

LEMMA SentinelInvariant == SentinelSpec => []SentinelInd
BY SentinelInitInd, SentinelStepInd, PTL DEF SentinelSpec

(* Whatever checks there are, raise and fail to be told of: the file and   *)
(* the pass know an entry for every key.                                   *)
THEOREM SentinelTypes == SentinelSpec => []SentinelTypeOK
<1>1. SentinelInd => SentinelTypeOK
  BY DEF SentinelInd, StepTypeOK
<1> QED
  BY <1>1, SentinelInvariant, PTL

(* No alert is repeated within the cooldown while no daemon has died in a  *)
(* pass: for any list of checks, one that names a key twice included.      *)
THEOREM RepeatsAreSpaced == SentinelSpec => [](\A k \in Keys : RepeatsWait(k))
<1>1. SentinelInd => \A k \in Keys : RepeatsWait(k)
  BY DEF SentinelInd, MarkedAsTold, RepeatsWait
<1> QED
  BY <1>1, SentinelInvariant, PTL

-----------------------------------------------------------------------------
(* Forecasts.                                                              *)

Asking == [at : Steps, got : RecordAges, ticked : BOOLEAN]
Holding == {"fetching", "fetched", "failed", "cooling"}

\* a fetch that failed less than a cooldown ago is cooled for, or about to be
FailuresCool ==
  \/ sinceFailed = FetchCooldown
  \/ slot.cooldown + sinceFailed >= FetchCooldown
  \/ \E t \in Askers : asker[t].at = "failed"

ForecastsInd == ForecastsTypeOK /\ FetchesAreSpaced /\ FailuresCool

LEMMA RecordAgesTyped ==
  /\ Gone \in RecordAges /\ 0 \in RecordAges
  /\ \A age \in RecordAges : Aging(age) \in RecordAges
BY ForecastsAssumption DEF Gone, RecordAges, Aging

LEMMA ForecastsInitInd == ForecastsInit => ForecastsInd
<1> SUFFICES ASSUME ForecastsInit PROVE ForecastsInd
  OBVIOUS
<1>1. /\ EmptySlot \in [inflight : BOOLEAN, cooldown : 0..FetchCooldown]
      /\ Resting \in [at : Steps, got : RecordAges, ticked : BOOLEAN]
      /\ FetchCooldown \in 0..FetchCooldown /\ 0 \in 0..MaxRestarts
  BY RecordAgesTyped, ForecastsAssumption DEF Resting, EmptySlot, Steps
<1>2. ForecastsTypeOK
  BY <1>1, RecordAgesTyped DEF ForecastsInit, ForecastsTypeOK
<1> QED
  BY <1>2 DEF ForecastsInd, ForecastsInit, FetchesAreSpaced, Fetching, FailuresCool, Resting

\* a thread that goes on, and the slot with it
LEMMA AskerKeeps ==
  ASSUME ForecastsInd, NEW t \in Askers, NEW s \in Asking, asker' = [asker EXCEPT ![t] = s],
         answering' = answering, restarts' = restarts, hasty' = FALSE,
         {cache', record', snapshot'} \subseteq RecordAges,
         slot' \in [inflight : BOOLEAN, cooldown : 0..FetchCooldown],
         sinceFailed' \in 0..FetchCooldown,
         asker[t].at \in Holding \/ (s.at \in Holding => ~slot.inflight),
         s.at \in Holding => slot'.inflight,
         asker[t].at \notin Holding => (slot.inflight => slot'.inflight),
         FailuresCool'
  PROVE  ForecastsInd'
<1>1. /\ asker'[t] = s /\ \A u \in Askers \ {t} : asker'[u] = asker[u]
      /\ asker' \in [Askers -> Asking]
  BY DEF ForecastsInd, ForecastsTypeOK, Asking
<1>2. ForecastsTypeOK'
  BY <1>1 DEF ForecastsInd, ForecastsTypeOK, Asking
<1>3. FetchesAreSpaced'
  BY <1>1 DEF ForecastsInd, FetchesAreSpaced, Fetching, Holding
<1> QED
  BY <1>2, <1>3 DEF ForecastsInd

LEMMA AsksKeep ==
  ASSUME ForecastsInd, NEW t \in Askers, Asks(t)
  PROVE  ForecastsInd'
<1>1. /\ asker[t] \in Asking /\ slot \in [inflight : BOOLEAN, cooldown : 0..FetchCooldown]
      /\ DOMAIN asker = Askers /\ cache \in RecordAges /\ record \in RecordAges
      /\ snapshot \in RecordAges /\ sinceFailed \in 0..FetchCooldown /\ hasty = FALSE
      /\ FetchCooldown \in Nat /\ 0 \in 0..FetchCooldown /\ FetchCooldown \in 0..FetchCooldown
  BY ForecastsAssumption DEF ForecastsInd, ForecastsTypeOK, Asking, FetchesAreSpaced, Fetching
<1>2. FailuresCool
  BY DEF ForecastsInd
\* one that holds no slot goes to where it holds none
<1>3. ASSUME NEW s \in Asking, asker' = [asker EXCEPT ![t] = s], s.at \notin Holding,
             asker[t].at \notin Holding, UNCHANGED <<answering, cache, slot, restarts, sinceFailed, hasty>>,
             {record', snapshot'} \subseteq RecordAges
      PROVE  ForecastsInd'
  <2>1. FailuresCool'
    BY <1>1, <1>2, <1>3 DEF FailuresCool, Holding
  <2> QED
    BY <1>1, <1>3, <2>1, AskerKeeps
<1>4. /\ Resting \in Asking /\ Resting.at = "idle"
      /\ \A place \in Steps : \A got \in RecordAges :
           LET s == [at |-> place, got |-> got, ticked |-> asker[t].ticked] IN
           s \in Asking /\ s.at = place
  BY <1>1, RecordAgesTyped DEF Resting, Asking, Steps
<1>5. ASSUME NEW place \in Steps \ Holding, NEW got \in RecordAges,
             Goes(t, place, got) \/ Rests(t), asker[t].at \notin Holding,
             UNCHANGED <<answering, cache, slot, restarts, sinceFailed, hasty>>,
             {record', snapshot'} \subseteq RecordAges
      PROVE  ForecastsInd'
  <2>1. PICK s \in Asking : s.at \notin Holding /\ asker' = [asker EXCEPT ![t] = s]
    BY <1>4, <1>5 DEF Goes, Rests, Holding
  <2> QED
    BY <1>3, <1>5, <2>1
<1>6. CASE Ask(t) \/ InCooldown(t) \/ MustWait(t) \/ StopWaiting(t)
  <2>1. /\ asker[t].at \in {"idle", "missed", "waiting"}
        /\ UNCHANGED <<answering, cache, record, slot, snapshot, restarts, sinceFailed, hasty>>
        /\ \/ Goes(t, "got", cache) \/ Goes(t, "missed", Gone)
           \/ Goes(t, "waiting", Gone) \/ Rests(t)
    BY <1>6 DEF Ask, InCooldown, MustWait, StopWaiting, memory
  <2> QED
    BY <1>1, <1>5, <2>1, RecordAgesTyped DEF Steps, Holding
<1>7. CASE Lead(t)
  <2>1. PICK s : s = [at |-> "fetching", got |-> Gone, ticked |-> asker[t].ticked]
    OBVIOUS
  <2>2. /\ s \in Asking /\ s.at = "fetching" /\ asker' = [asker EXCEPT ![t] = s]
        /\ asker[t].at = "missed" /\ slot.cooldown = 0 /\ ~slot.inflight
        /\ UNCHANGED <<answering, cache, record, snapshot, restarts, sinceFailed>>
        /\ hasty' = (hasty \/ sinceFailed < FetchCooldown)
    BY <1>4, <1>7, <2>1, RecordAgesTyped DEF Lead, Free, Goes, Steps
  <2>3. slot' \in [inflight : BOOLEAN, cooldown : 0..FetchCooldown] /\ slot'.inflight
        /\ slot'.cooldown = slot.cooldown
    BY <1>1, <1>7 DEF Lead
  <2>4. \A u \in Askers : asker[u].at # "failed"
    BY <2>2 DEF ForecastsInd, FetchesAreSpaced, Fetching
  <2>5. sinceFailed = FetchCooldown
    BY <1>1, <1>2, <2>2, <2>4 DEF FailuresCool
  <2>6. FailuresCool' /\ hasty' = FALSE
    BY <1>1, <2>2, <2>5 DEF FailuresCool
  <2> QED
    BY <1>1, <2>2, <2>3, <2>6, AskerKeeps
<1>8. CASE Fetch(t)
  <2>1. slot.inflight
    BY <1>8 DEF Fetch, ForecastsInd, FetchesAreSpaced, Fetching
  <2>2. CASE Goes(t, "fetched", 0) /\ cache' = 0 /\ UNCHANGED sinceFailed
    <3>1. PICK s : s = [at |-> "fetched", got |-> 0, ticked |-> asker[t].ticked]
      OBVIOUS
    <3>2. /\ s \in Asking /\ s.at = "fetched" /\ asker' = [asker EXCEPT ![t] = s]
          /\ asker[t].at = "fetching"
          /\ UNCHANGED <<answering, slot, record, snapshot, restarts, hasty, sinceFailed>>
      BY <1>4, <1>8, <2>2, <3>1, RecordAgesTyped DEF Fetch, Goes, Steps
    <3>3. FailuresCool'
      BY <1>1, <1>2, <3>2 DEF FailuresCool
    <3> QED
      BY <1>1, <2>1, <2>2, <3>2, <3>3, AskerKeeps, RecordAgesTyped DEF Holding
  <2>3. CASE Goes(t, "failed", Gone) /\ sinceFailed' = 0 /\ UNCHANGED cache
    <3>1. PICK s : s = [at |-> "failed", got |-> Gone, ticked |-> asker[t].ticked]
      OBVIOUS
    <3>2. /\ s \in Asking /\ s.at = "failed" /\ asker' = [asker EXCEPT ![t] = s]
          /\ asker[t].at = "fetching"
          /\ UNCHANGED <<answering, slot, record, snapshot, restarts, hasty>>
      BY <1>4, <1>8, <2>3, <3>1, RecordAgesTyped DEF Fetch, Goes, Steps
    <3>3. FailuresCool'
      BY <1>1, <3>2 DEF FailuresCool
    <3> QED
      BY <1>1, <2>1, <2>3, <3>2, <3>3, AskerKeeps DEF Holding
  <2> QED
    BY <1>8, <2>2, <2>3 DEF Fetch
<1>9. CASE SetCooldown(t)
  <2>1. PICK s : s = [at |-> "cooling", got |-> Gone, ticked |-> asker[t].ticked]
    OBVIOUS
  <2>2. /\ s \in Asking /\ s.at = "cooling" /\ asker' = [asker EXCEPT ![t] = s]
        /\ asker[t].at = "failed" /\ slot' = [inflight |-> TRUE, cooldown |-> FetchCooldown]
        /\ UNCHANGED <<answering, cache, record, snapshot, restarts, sinceFailed, hasty>>
    BY <1>4, <1>9, <2>1, RecordAgesTyped DEF SetCooldown, Cooled, Goes, Steps
  <2>3. FailuresCool'
    BY <1>1, <2>2 DEF FailuresCool
  <2> QED
    BY <1>1, <2>2, <2>3, AskerKeeps DEF Holding
<1>10. CASE Release(t)
  <2>1. /\ slot' = [slot EXCEPT !.inflight = FALSE] /\ asker[t].at \in {"fetched", "cooling"}
        /\ UNCHANGED <<answering, cache, record, snapshot, restarts, sinceFailed, hasty>>
        /\ Goes(t, "got", asker[t].got) \/ Rests(t)
    BY <1>10 DEF Release, Released
  <2>2. /\ slot' \in [inflight : BOOLEAN, cooldown : 0..FetchCooldown]
        /\ slot'.cooldown = slot.cooldown
    BY <1>1, <2>1
  <2>3. asker[t].got \in RecordAges
    BY <1>1 DEF Asking
  <2>4. PICK s \in Asking : s.at \in {"got", "idle"} /\ asker' = [asker EXCEPT ![t] = s]
    BY <1>4, <2>1, <2>3 DEF Goes, Rests, Steps
  <2>5. FailuresCool'
    BY <1>1, <1>2, <2>1, <2>2, <2>4 DEF FailuresCool
  <2> QED
    BY <1>1, <2>1, <2>2, <2>4, <2>5, AskerKeeps DEF Holding
<1>11. CASE Show(t)
  <2>1. /\ asker[t].at = "got" /\ record' = asker[t].got /\ snapshot' = asker[t].got
        /\ Rests(t) /\ UNCHANGED <<answering, cache, slot, restarts, sinceFailed, hasty>>
    BY <1>11 DEF Show
  <2> QED
    BY <1>1, <1>5, <2>1 DEF Asking, Holding, Steps
<1> QED
  BY <1>6, <1>7, <1>8, <1>9, <1>10, <1>11 DEF Asks

LEMMA ForecastTickKeeps == ForecastsInd /\ ForecastTick => ForecastsInd'
<1> SUFFICES ASSUME ForecastsInd, ForecastTick PROVE ForecastsInd'
  OBVIOUS
<1>1. /\ asker \in [Askers -> Asking]
      /\ slot \in [inflight : BOOLEAN, cooldown : 0..FetchCooldown]
      /\ sinceFailed \in 0..FetchCooldown /\ FetchCooldown \in Nat
  BY ForecastsAssumption DEF ForecastsInd, ForecastsTypeOK, Asking
<1>2. ASSUME NEW t \in Askers
      PROVE  asker'[t] \in Asking /\ asker'[t].at = asker[t].at
  <2>1. PICK a, old : a = asker[t] /\ old = Aging(asker[t].got)
    OBVIOUS
  <2>2. PICK ticked \in BOOLEAN : ticked = (asker[t].at # "idle")
    OBVIOUS
  <2>3. a \in Asking /\ old \in RecordAges
    BY <1>1, <2>1, RecordAgesTyped DEF Asking
  <2>4. asker'[t] = [a EXCEPT !.got = old, !.ticked = ticked]
    BY <2>1, <2>2 DEF ForecastTick
  <2>5. asker'[t] \in Asking /\ asker'[t].at = a.at
    BY <2>3, <2>4 DEF Asking
  <2> QED
    BY <2>1, <2>5
<1>3. asker' \in [Askers -> Asking]
  BY <1>2 DEF ForecastTick
<1>4. /\ slot' \in [inflight : BOOLEAN, cooldown : 0..FetchCooldown]
      /\ slot'.inflight = slot.inflight
      /\ slot'.cooldown >= slot.cooldown - 1
  <2>1. PICK n \in 0..FetchCooldown :
          /\ n = IF slot.cooldown > 0 THEN slot.cooldown - 1 ELSE 0
          /\ n >= slot.cooldown - 1
    BY <1>1
  <2>2. slot' = [slot EXCEPT !.cooldown = n]
    BY <2>1 DEF ForecastTick
  <2> QED
    BY <1>1, <2>1, <2>2
<1>5. /\ sinceFailed' = IF sinceFailed = FetchCooldown THEN FetchCooldown ELSE sinceFailed + 1
      /\ UNCHANGED <<answering, restarts, hasty>>
      /\ cache' = Aging(cache) /\ record' = Aging(record) /\ snapshot' = Aging(snapshot)
  BY DEF ForecastTick
<1>6. ForecastsTypeOK'
  BY <1>1, <1>3, <1>4, <1>5, RecordAgesTyped DEF ForecastsInd, ForecastsTypeOK, Asking
<1>7. FetchesAreSpaced'
  BY <1>2, <1>4, <1>5 DEF ForecastsInd, FetchesAreSpaced, Fetching
<1>8. FailuresCool'
  BY <1>1, <1>2, <1>4, <1>5 DEF ForecastsInd, FailuresCool
<1> QED
  BY <1>6, <1>7, <1>8 DEF ForecastsInd

LEMMA ForecastsStepInd == ForecastsInd /\ [ForecastsNext]_forecastsVars => ForecastsInd'
<1> SUFFICES ASSUME ForecastsInd, [ForecastsNext]_forecastsVars PROVE ForecastsInd'
  OBVIOUS
<1>1. CASE ProviderTurns \/ Restore \/ UNCHANGED forecastsVars
  <2>1. /\ answering' \in BOOLEAN /\ record' \in RecordAges
        /\ UNCHANGED <<cache, slot, asker, snapshot, restarts, sinceFailed, hasty>>
    BY <1>1 DEF ProviderTurns, Restore, forecastsVars, memory, ForecastsInd, ForecastsTypeOK
  <2> QED
    BY <2>1 DEF ForecastsInd, ForecastsTypeOK, FetchesAreSpaced, Fetching, FailuresCool
<1>2. CASE Restart
  <2>1. /\ cache' = Gone /\ slot' = EmptySlot /\ record' = Gone
        /\ asker' = [t \in Askers |-> Resting] /\ sinceFailed' = FetchCooldown
        /\ restarts' \in 0..MaxRestarts /\ UNCHANGED <<answering, snapshot, hasty>>
    BY <1>2, ForecastsAssumption DEF Restart, ForecastsInd, ForecastsTypeOK
  <2>2. ForecastsTypeOK'
    BY <2>1, RecordAgesTyped, ForecastsAssumption
    DEF ForecastsInd, ForecastsTypeOK, Resting, EmptySlot, Steps
  <2> QED
    BY <2>1, <2>2 DEF ForecastsInd, FetchesAreSpaced, Fetching, FailuresCool, Resting
<1> QED
  BY <1>1, <1>2, AsksKeep, ForecastTickKeeps DEF ForecastsNext

LEMMA ForecastsAlways ==
  ForecastsInit /\ [][ForecastsNext]_forecastsVars => []ForecastsInd
BY ForecastsInitInd, ForecastsStepInd, PTL

LEMMA ForecastsInvariant == ForecastsSpec => []ForecastsInd
BY ForecastsAlways, PTL DEF ForecastsSpec

(* Records, slot and threads keep their types, for any times to live.      *)
THEOREM ForecastsTypes == ForecastsSpec => []ForecastsTypeOK
<1>1. ForecastsInd => ForecastsTypeOK
  BY DEF ForecastsInd
<1> QED
  BY <1>1, ForecastsInvariant, PTL

(* For any expiry and cooldown, and however the threads interleave: never  *)
(* two fetches at once, and none inside the cooldown of a failed one.      *)
THEOREM FetchesKeepApart == ForecastsSpec => []FetchesAreSpaced
<1>1. ForecastsInd => FetchesAreSpaced
  BY DEF ForecastsInd
<1> QED
  BY <1>1, ForecastsInvariant, PTL

\* a thread that goes on is fetching where it goes, and the others as before
LEMMA FetchingMoves ==
  ASSUME asker \in [Askers -> Asking], NEW t \in Askers, NEW s \in Asking,
         asker' = [asker EXCEPT ![t] = s]
  PROVE  Fetching' = IF s.at \in Holding THEN Fetching \cup {t} ELSE Fetching \ {t}
<1>1. asker'[t] = s /\ \A u \in Askers \ {t} : asker'[u] = asker[u]
  OBVIOUS
<1> QED
  BY <1>1 DEF Fetching, Holding

\* where Goes and Rests take it
LEMMA FetchingGoes ==
  ASSUME asker \in [Askers -> Asking], NEW t \in Askers
  PROVE  /\ Rests(t) => Fetching' = Fetching \ {t}
         /\ \A place \in Steps, got \in RecordAges :
              Goes(t, place, got) =>
                Fetching' = IF place \in Holding THEN Fetching \cup {t} ELSE Fetching \ {t}
<1>1. ASSUME Rests(t) PROVE Fetching' = Fetching \ {t}
  <2>1. Resting \in Asking /\ Resting.at \notin Holding
    BY RecordAgesTyped DEF Resting, Asking, Steps, Holding
  <2> QED
    BY <1>1, <2>1, FetchingMoves DEF Rests
<1>2. ASSUME NEW place \in Steps, NEW got \in RecordAges, Goes(t, place, got)
      PROVE  Fetching' = IF place \in Holding THEN Fetching \cup {t} ELSE Fetching \ {t}
  <2>1. PICK s : s = [at |-> place, got |-> got, ticked |-> asker[t].ticked]
    OBVIOUS
  <2>2. s \in Asking /\ s.at = place /\ asker' = [asker EXCEPT ![t] = s]
    BY <1>2, <2>1 DEF Asking, Goes
  <2> QED
    BY <2>2, FetchingMoves
<1> QED
  BY <1>1, <1>2

LEMMA FlightInitially == ForecastsInit => Flight!FlightInit
BY DEF ForecastsInit, Flight!FlightInit, Fetching, Resting

\* nobody but the thread that takes the slot is fetching, and no cooldown is left
LEMMA LeadTakesOff ==
  ASSUME ForecastsInd, NEW t \in Askers, Lead(t)
  PROVE  Flight!TakesOff(t)
<1>1. /\ asker \in [Askers -> Asking] /\ slot.cooldown = 0 /\ ~slot.inflight
      /\ sinceFailed \in 0..FetchCooldown /\ FetchCooldown \in Nat
      /\ Goes(t, "fetching", Gone) /\ UNCHANGED <<restarts, sinceFailed>>
  BY ForecastsAssumption DEF ForecastsInd, ForecastsTypeOK, Asking, Lead, Free
<1>2. Fetching = {}
  BY <1>1 DEF ForecastsInd, FetchesAreSpaced
<1>3. \A u \in Askers : asker[u].at # "failed"
  BY <1>2 DEF Fetching
<1>4. sinceFailed = FetchCooldown
  BY <1>1, <1>3 DEF ForecastsInd, FailuresCool
<1>5. Fetching' = {t}
  BY <1>1, <1>2, FetchingGoes, RecordAgesTyped DEF Steps, Holding
<1> QED
  BY <1>1, <1>2, <1>4, <1>5 DEF Flight!TakesOff

LEMMA AsksFly ==
  ASSUME ForecastsInd, NEW t \in Askers, Asks(t)
  PROVE  [Flight!FlightNext]_(Flight!flightVars)
<1> USE DEF Flight!flightVars
<1>1. /\ asker \in [Askers -> Asking] /\ asker[t].got \in RecordAges /\ cache \in RecordAges
  BY DEF ForecastsInd, ForecastsTypeOK, Asking
<1>2. t \in Fetching <=> asker[t].at \in Holding
  BY DEF Fetching, Holding
\* one that neither has the slot nor takes it
<1>3. ASSUME asker[t].at \notin Holding, UNCHANGED <<sinceFailed, restarts>>,
             NEW place \in Steps \ Holding, NEW got \in RecordAges,
             Goes(t, place, got) \/ Rests(t)
      PROVE  UNCHANGED Flight!flightVars
  <2>1. Fetching' = Fetching \ {t}
    BY <1>1, <1>3, FetchingGoes
  <2> QED
    BY <1>2, <1>3, <2>1
<1>4. CASE Ask(t) \/ InCooldown(t) \/ MustWait(t) \/ StopWaiting(t)
  <2>1. /\ asker[t].at \in {"idle", "missed", "waiting"}
        /\ UNCHANGED <<sinceFailed, restarts>>
        /\ \/ Goes(t, "got", cache) \/ Goes(t, "missed", Gone)
           \/ Goes(t, "waiting", Gone) \/ Rests(t)
    BY <1>4 DEF Ask, InCooldown, MustWait, StopWaiting
  <2> QED
    BY <1>1, <1>3, <2>1, RecordAgesTyped DEF Steps, Holding
<1>5. CASE Lead(t)
  BY <1>5, LeadTakesOff DEF Flight!FlightNext
<1>6. CASE Fetch(t)
  <2>1. t \in Fetching /\ UNCHANGED restarts
    BY <1>2, <1>6 DEF Fetch, Holding
  <2>2. CASE Goes(t, "fetched", 0) /\ UNCHANGED sinceFailed
    <3>1. Fetching' = Fetching
      BY <1>1, <2>1, <2>2, FetchingGoes, RecordAgesTyped DEF Steps, Holding
    <3> QED
      BY <2>1, <2>2, <3>1
  <2>3. CASE Goes(t, "failed", Gone) /\ sinceFailed' = 0
    <3>1. Fetching' = Fetching
      BY <1>1, <2>1, <2>3, FetchingGoes, RecordAgesTyped DEF Steps, Holding
    <3>2. Flight!Fails(t)
      BY <2>1, <2>3, <3>1 DEF Flight!Fails
    <3> QED
      BY <3>2 DEF Flight!FlightNext
  <2> QED
    BY <1>6, <2>2, <2>3 DEF Fetch
<1>7. CASE SetCooldown(t)
  <2>1. /\ t \in Fetching /\ UNCHANGED <<sinceFailed, restarts>>
        /\ Goes(t, "cooling", Gone)
    BY <1>2, <1>7 DEF SetCooldown, Holding
  <2>2. Fetching' = Fetching
    BY <1>1, <2>1, FetchingGoes, RecordAgesTyped DEF Steps, Holding
  <2> QED
    BY <2>1, <2>2
<1>8. CASE Release(t)
  <2>1. /\ t \in Fetching /\ UNCHANGED <<sinceFailed, restarts>>
        /\ Goes(t, "got", asker[t].got) \/ Rests(t)
    BY <1>2, <1>8 DEF Release, Holding
  <2>2. Fetching' = Fetching \ {t}
    BY <1>1, <2>1, FetchingGoes DEF Steps, Holding
  <2>3. Flight!Lands(t)
    BY <2>1, <2>2 DEF Flight!Lands
  <2> QED
    BY <2>3 DEF Flight!FlightNext
<1>9. CASE Show(t)
  <2>1. asker[t].at = "got" /\ Rests(t) /\ UNCHANGED <<sinceFailed, restarts>>
    BY <1>9 DEF Show
  <2> QED
    BY <1>1, <1>3, <2>1 DEF Holding, Steps
<1> QED
  BY <1>4, <1>5, <1>6, <1>7, <1>8, <1>9 DEF Asks

LEMMA FlightSteps ==
  ForecastsInd /\ [ForecastsNext]_forecastsVars => [Flight!FlightNext]_(Flight!flightVars)
<1> SUFFICES ASSUME ForecastsInd, [ForecastsNext]_forecastsVars
             PROVE  [Flight!FlightNext]_(Flight!flightVars)
  OBVIOUS
<1> USE DEF Flight!flightVars
<1>1. CASE ProviderTurns \/ Restore \/ UNCHANGED forecastsVars
  BY <1>1 DEF ProviderTurns, Restore, forecastsVars, Fetching
<1>2. CASE ForecastTick
  <2>1. \A t \in Askers : asker'[t].at = asker[t].at
    BY <1>2 DEF ForecastTick, ForecastsInd, ForecastsTypeOK
  <2>2. Fetching' = Fetching /\ UNCHANGED restarts
    BY <1>2, <2>1 DEF Fetching, ForecastTick
  <2>3. sinceFailed \in 0..FetchCooldown /\ FetchCooldown \in Nat
    BY ForecastsAssumption DEF ForecastsInd, ForecastsTypeOK
  <2>4. CASE sinceFailed = FetchCooldown
    BY <1>2, <2>2, <2>4 DEF ForecastTick
  <2>5. CASE sinceFailed # FetchCooldown
    <3>1. sinceFailed' = sinceFailed + 1
      BY <1>2, <2>5 DEF ForecastTick
    <3>2. Flight!TimePasses
      BY <2>2, <2>3, <2>5, <3>1 DEF Flight!TimePasses
    <3> QED
      BY <3>2 DEF Flight!FlightNext
  <2> QED
    BY <2>4, <2>5
<1>3. CASE Restart
  <2>1. Fetching' = {}
    BY <1>3 DEF Restart, Fetching, Resting
  <2>2. Flight!StartsAnew
    BY <1>3, <2>1 DEF Restart, Flight!StartsAnew
  <2> QED
    BY <2>2 DEF Flight!FlightNext
<1> QED
  BY <1>1, <1>2, <1>3, AsksFly DEF ForecastsNext

\* what the composition's behaviours do to the forecasts, fairness apart
LEMMA ForecastsFly ==
  ForecastsInit /\ [][ForecastsNext]_forecastsVars => ImplementsSingleFlight
BY FlightInitially, FlightSteps, ForecastsAlways, PTL
DEF ImplementsSingleFlight, Flight!FlightSpec

(* Cache, slot, cooldown, waiting threads and restarts together do nothing *)
(* but what SingleFlight allows, for any expiry, cooldown and time to      *)
(* live: whoever begins a fetch is alone, and a cooldown away from the     *)
(* last failure of its process.                                            *)
THEOREM FetchesImplementSingleFlight == ForecastsSpec => ImplementsSingleFlight
BY ForecastsFly, PTL DEF ForecastsSpec

-----------------------------------------------------------------------------
(* The four together, one of them in focus.                                *)

\* a step of the whole is a step of the one in focus, and no step of the others
LEMMA StepsAreTheirs ==
  ASSUME [Next]_vars
  PROVE  /\ [ReleaseNext]_releaseVars /\ [IncidentsNext]_incidentsVars
         /\ [SentinelNext]_sentinelVars /\ [ForecastsNext]_forecastsVars
<1>1. CASE UNCHANGED vars
  BY <1>1 DEF vars
<1>2. CASE ReleaseStep(ReleaseNext)
  BY <1>2 DEF ReleaseStep
<1>3. CASE IncidentsStep(IncidentsNext)
  BY <1>3 DEF IncidentsStep
<1>4. CASE SentinelStep(SentinelNext)
  BY <1>4 DEF SentinelStep
<1>5. CASE ForecastsStep(ForecastsNext)
  BY <1>5 DEF ForecastsStep
<1> QED
  BY <1>1, <1>2, <1>3, <1>4, <1>5 DEF Next

(* A run of releases, incidents, alerts and fetches is a behaviour of each *)
(* of run_release_audit, sync_incidents, the sentinel and the fetchers:    *)
(* the composition restricts them and adds nothing, and so do its fetchers *)
(* do what SingleFlight says.                                              *)
THEOREM OperationsAreTheirParts ==
  Spec => /\ ReleaseSpec /\ IncidentsSpec /\ SentinelSpec
          /\ ForecastsInit /\ [][ForecastsNext]_forecastsVars
          /\ ImplementsSingleFlight
<1>1. Init => ReleaseInit /\ IncidentsInit /\ SentinelInit /\ ForecastsInit
  BY DEF Init
<1>2. Spec => /\ ReleaseSpec /\ IncidentsSpec /\ SentinelSpec
              /\ ForecastsInit /\ [][ForecastsNext]_forecastsVars
  BY <1>1, StepsAreTheirs, PTL DEF Spec, ReleaseSpec, IncidentsSpec, SentinelSpec
<1> QED
  BY <1>2, ForecastsFly

(* What was proved of each component holds of the four that a run checks   *)
(* together: the composition restricts them and adds nothing.              *)
THEOREM OperationsTypes == Spec => []OperationsTypeOK
<1>1. Init => ReleaseInit /\ IncidentsInit /\ SentinelInit /\ ForecastsInit
  BY DEF Init
<1>2. ReleaseInd /\ IncidentsInd /\ SentinelInd /\ ForecastsInd => OperationsTypeOK
  BY IncidentsIndTypes DEF ReleaseInd, SentinelInd, StepTypeOK, ForecastsInd, OperationsTypeOK
<1>3. Init => ReleaseInd /\ IncidentsInd /\ SentinelInd /\ ForecastsInd
  BY <1>1, ReleaseInitInd, IncidentsInitInd, SentinelInitInd, ForecastsInitInd
<1>4. [Next]_vars =>
        (ReleaseInd /\ IncidentsInd /\ SentinelInd /\ ForecastsInd =>
           ReleaseInd' /\ IncidentsInd' /\ SentinelInd' /\ ForecastsInd')
  BY StepsAreTheirs, ReleaseStepInd, IncidentsStepInd, SentinelStepInd, ForecastsStepInd
<1> QED
  BY <1>2, <1>3, <1>4, PTL DEF Spec
=============================================================================
