------------------------------- MODULE Tuning -------------------------------
(***************************************************************************)
(* Parameters of the strategy that change while the system runs.           *)
(* learning/agent_optimizer.py proposes and applies a value in             *)
(* config/hub_params.json under a file lock; runtime/agent_mutation_ledger *)
(* logs each mutation; runtime/post_deploy_soak.py, without the lock,      *)
(* rolls back the mutations whose trades lose.                             *)
(***************************************************************************)
EXTENDS Integers, Sequences

CONSTANTS
  Optimizers,   \* processes that propose values
  Keys,         \* hub and parameter
  Bounded,      \* keys with an entry in PARAM_SAFETY_BOUNDS
  Low, High,    \* their bounds
  Proposals,    \* values that are proposed
  Default,      \* the old value of a key that the file lacks
  MaxMutations  \* bound

NoOne == "nobody"

ASSUME TuningAssumption ==
  /\ Bounded \subseteq Keys /\ Low \in Nat /\ High \in Nat /\ Proposals \subseteq Nat
  /\ Default \in Nat /\ MaxMutations \in Nat /\ NoOne \notin Optimizers

VARIABLES
  params,    \* hub_params.json: key -> value, or Unset
  mutations, \* agent_mutation_log, by id
  optimizer, \* process -> its proposal under way
  holder,    \* who holds the lock file's lock
  soak,      \* the soak monitor's pass
  apart      \* no write was lost or failed, and no rollback met a proposal

tuningVars == <<params, mutations, optimizer, holder, soak, apart>>

Unset == -1
NoLog == 0  \* record_mutation_proposal answers -1, which is no row's id

Resting == [at |-> "idle", key |-> "none", new |-> 0, old |-> 0, read |-> [k \in Keys |-> Unset],
            id |-> NoLog]
NoPass == [at |-> "idle", queue |-> {}, all |-> {}, read |-> [k \in Keys |-> Unset], clean |-> TRUE]

TuningInit ==
  /\ params = [k \in Keys |-> Unset]
  /\ mutations = <<>>
  /\ optimizer = [p \in Optimizers |-> Resting]
  /\ holder = NoOne /\ soak = NoPass /\ apart = TRUE

Ids == DOMAIN mutations
Proposing == {p \in Optimizers : optimizer[p].at # "idle"}

-----------------------------------------------------------------------------
(* propose_and_apply_hub_parameter                                         *)

\* validate_parameter_bounds
WithinBounds(k, value) == k \in Bounded => value \in Low..High

\* mutant: the lock is not looked at
LockIgnored(p) == holder' = p
\* flock with LOCK_NB
LockTaken(p) == holder = NoOne /\ holder' = p

\* up to the proposal; a lock that is taken or a value out of bounds ends it
ReadConfig(p, k, value) ==
  /\ optimizer[p].at = "idle" /\ WithinBounds(k, value) /\ Len(mutations) < MaxMutations
  /\ LockTaken(p)
  /\ optimizer' = [optimizer EXCEPT ![p] =
       [Resting EXCEPT !.at = "read", !.key = k, !.new = value, !.read = params,
                       !.old = IF params[k] = Unset THEN Default ELSE params[k]]]
  /\ apart' = (apart /\ soak.at = "idle")
  /\ soak' = IF soak.at = "idle" THEN soak ELSE [soak EXCEPT !.clean = FALSE]
  /\ UNCHANGED <<params, mutations>>

\* record_mutation_proposal, unless the ledger cannot be written
Record(p, logged) ==
  LET o == optimizer[p] IN
  /\ o.at = "read" /\ Len(mutations) < MaxMutations
  /\ mutations' = IF logged
                  THEN Append(mutations, [key |-> o.key, old |-> o.old, new |-> o.new,
                                          status |-> "PROPOSED", ripe |-> FALSE])
                  ELSE mutations
  /\ optimizer' = [optimizer EXCEPT ![p].at = "logged",
                                    ![p].id = IF logged THEN Len(mutations) + 1 ELSE NoLog]
  /\ apart' = (apart /\ logged)
  /\ UNCHANGED <<params, holder, soak>>

\* atomic_write_json of the file as it was read, with the new value
Apply(p) ==
  /\ optimizer[p].at = "logged"
  /\ params' = [optimizer[p].read EXCEPT ![optimizer[p].key] = optimizer[p].new]
  /\ optimizer' = [optimizer EXCEPT ![p].at = "applied"]
  /\ UNCHANGED <<mutations, holder, soak, apart>>

\* run_local_preflight_checks failed: the old value is written, even where there
\* was none, over what the file holds by now
TakeBack(p) ==
  /\ optimizer[p].at = "applied"
  /\ params' = [optimizer[p].read EXCEPT ![optimizer[p].key] = optimizer[p].old]
  /\ optimizer' = [optimizer EXCEPT ![p].at = "refused"]
  /\ UNCHANGED <<mutations, holder, soak, apart>>

StatusSet(id, status) ==
  IF id = NoLog THEN mutations ELSE [mutations EXCEPT ![id].status = status]

\* update_mutation_status, which may fail, and the lock's release
Conclude(p, written) ==
  LET o == optimizer[p] IN
  /\ o.at \in {"applied", "refused"}
  /\ mutations' = IF written THEN StatusSet(o.id, IF o.at = "applied" THEN "SOAKING" ELSE "REJECTED")
                  ELSE mutations
  /\ optimizer' = [optimizer EXCEPT ![p] = Resting]
  /\ holder' = IF holder = p THEN NoOne ELSE holder
  /\ apart' = (apart /\ written)
  /\ UNCHANGED <<params, soak>>

\* a write that raises, or the process's end; the lock goes with the descriptor
Abandon(p) ==
  /\ optimizer[p].at # "idle"
  /\ optimizer' = [optimizer EXCEPT ![p] = Resting]
  /\ holder' = IF holder = p THEN NoOne ELSE holder
  /\ apart' = (apart /\ optimizer[p].at = "read")
  /\ UNCHANGED <<params, mutations, soak>>

-----------------------------------------------------------------------------
(* run_post_deploy_soak_monitor                                            *)

\* 72 hours of soaking
Ripens(id) ==
  /\ mutations[id].status = "SOAKING" /\ ~mutations[id].ripe
  /\ mutations' = [mutations EXCEPT ![id].ripe = TRUE]
  /\ UNCHANGED <<params, optimizer, holder, soak, apart>>

Soaking == {id \in Ids : mutations[id].status = "SOAKING"}
Newest(ids) == CHOOSE id \in ids : \A other \in ids : other <= id
Oldest(ids) == CHOOSE id \in ids : \A other \in ids : id <= other
\* mutant: in the order in which they were made
OldestFirst(ids) == Oldest(ids)
\* get_active_soak_mutations: ORDER BY id DESC
NewestFirst(ids) == Newest(ids)

BeginSoakPass ==
  /\ soak.at = "idle" /\ Soaking # {}
  /\ soak' = [NoPass EXCEPT !.at = "judging", !.queue = Soaking, !.all = Soaking,
                            !.clean = Proposing = {}]
  /\ apart' = (apart /\ Proposing = {})
  /\ UNCHANGED <<params, mutations, optimizer, holder>>

\* the mutation at hand
Judged == NewestFirst(soak.queue)
Judging == soak.at = "judging" /\ soak.queue # {}

\* compute_post_mutation_performance: enough trades since, and too few of them won;
\* the rollback reads the file
Degraded ==
  /\ Judging
  /\ soak' = [soak EXCEPT !.at = "rolling", !.read = params]
  /\ UNCHANGED <<params, mutations, optimizer, holder, apart>>

\* execute_parameter_rollback's write; its failure is only logged
RollBack(written) ==
  LET m == mutations[Judged] IN
  /\ soak.at = "rolling"
  /\ params' = IF written THEN [soak.read EXCEPT ![m.key] = m.old] ELSE params
  /\ soak' = [soak EXCEPT !.at = "rolled", !.clean = @ /\ written]
  /\ apart' = (apart /\ written)
  /\ UNCHANGED <<mutations, optimizer, holder>>

Decided(status) ==
  /\ mutations' = IF status = "SOAKING" THEN mutations ELSE StatusSet(Judged, status)
  /\ soak' = [soak EXCEPT !.at = "judging", !.queue = @ \ {Judged}]
  /\ UNCHANGED <<params, optimizer, holder, apart>>

MarkReverted == soak.at = "rolled" /\ Decided("REVERTED")
\* 72 hours without too many losses, or not yet
SoaksOn ==
  Judging /\ Decided(IF mutations[Judged].ripe THEN "PASSED" ELSE "SOAKING")

EndSoakPass ==
  /\ soak.at = "judging" /\ soak.queue = {}
  /\ soak' = NoPass
  /\ UNCHANGED <<params, mutations, optimizer, holder, apart>>

TuningNext ==
  \/ \E p \in Optimizers :
       \/ \E k \in Keys, value \in Proposals : ReadConfig(p, k, value)
       \/ \E done \in BOOLEAN : Record(p, done) \/ Conclude(p, done)
       \/ Apply(p) \/ TakeBack(p) \/ Abandon(p)
  \/ \E id \in Ids : Ripens(id)
  \/ BeginSoakPass \/ Degraded \/ MarkReverted \/ SoaksOn \/ EndSoakPass
  \/ \E written \in BOOLEAN : RollBack(written)

TuningSpec == TuningInit /\ [][TuningNext]_tuningVars

-----------------------------------------------------------------------------
Values == Proposals \cup {Default, Unset}
TuningTypeOK ==
  /\ params \in [Keys -> Values]
  /\ Len(mutations) <= MaxMutations
  /\ \A id \in Ids : mutations[id] \in
       [key : Keys, old : Values \ {Unset}, new : Proposals, ripe : BOOLEAN,
        status : {"PROPOSED", "SOAKING", "REJECTED", "PASSED", "REVERTED"}]
  /\ holder \in Optimizers \cup {NoOne} /\ apart \in BOOLEAN
  /\ \A p \in Optimizers : optimizer[p].at \in {"idle", "read", "logged", "applied", "refused"}
  /\ soak.at \in {"idle", "judging", "rolling", "rolled"} /\ soak.all \subseteq Ids

Of(k) == {id \in Ids : mutations[id].key = k /\ mutations[id].status # "REJECTED"}

\* The log tells what is in force: when nothing is under way, no write has failed
\* and no rollback met a proposal, the value of a key of which no mutation was
\* reverted is what the last one that was not rejected gave it.
LogTellsValue(k) ==
  (apart /\ Proposing = {} /\ soak.at = "idle"
   /\ Of(k) # {} /\ \A id \in Of(k) : mutations[id].status # "REVERTED") =>
    params[k] = mutations[Newest(Of(k))].new

\* A pass that reverts every mutation of a key that was soaking, meets no
\* proposal and fails no write, leaves the value from before the first of them.
PassRestores ==
  [][(soak.at = "judging" /\ soak'.at = "idle" /\ soak.clean) =>
       \A k \in Keys :
         LET undone == soak.all \cap Of(k) IN
         (undone # {} /\ \A id \in undone : mutations[id].status = "REVERTED") =>
           params[k] = mutations[Oldest(undone)].old]_tuningVars
=============================================================================
