----------------------------- MODULE Forecasts -----------------------------
(***************************************************************************)
(* data/kalshi_weather_monitor.py, forecasts of one city in the execution  *)
(* daemon: a cache per coordinate, a slot that lets one thread at a time   *)
(* ask the provider, a cooldown after it failed, the record the trading    *)
(* cycle reads and the snapshot that outlives the process.  The monitor    *)
(* thread asks in a loop, the main thread when the record is old.          *)
(*                                                                         *)
(* A thread sees the cache, the slot and the cooldown each at a moment of  *)
(* its own.  Time is in ticks of the refresh target; a pass of a thread    *)
(* takes less than two (each request has a timeout, the wait a deadline).  *)
(***************************************************************************)
EXTENDS Naturals

CONSTANTS
  Expiry,         \* CACHE_EXPIRY_SEC and WEATHER_REFRESH_TARGET_SEC, in ticks
  FetchCooldown,  \* WEATHER_PROVIDER_COOLDOWN_SEC, in ticks
  Ttl,            \* WEATHER_STATE_TTL_SEC, in ticks
  MaxRestarts     \* bound: restarts of the daemon

ASSUME ForecastsAssumption ==
  /\ Expiry \in Nat \ {0} /\ FetchCooldown \in Nat \ {0} /\ Ttl \in Nat
  /\ Expiry < Ttl /\ MaxRestarts \in Nat

Askers == {"monitor", "main"}

VARIABLES
  answering,  \* the provider: GFS answers, without which a fetch has failed
  cache,      \* _COORDINATE_CACHE: the age of the city's record
  slot,       \* _PROVIDER_FETCH_STATE: inflight, and how long the cooldown has left
  asker,      \* what each thread is at, the record it got, and if a tick has passed
  record,     \* _WEATHER_SHADOW_STATE: the age of the city's record
  snapshot,   \* weather_snapshot.json: the same
  restarts,
  sinceFailed,\* history: ticks since a fetch of this process last failed
  hasty       \* history: a fetch was begun too soon after a failed one

memory == <<cache, slot, record>>
forecastsVars ==
  <<answering, memory, asker, snapshot, restarts, sinceFailed, hasty>>

\* ages beyond the time to live are not told apart, nor from no record at all
Gone == Ttl + 1
RecordAges == 0..Gone
Aging(age) == IF age = Gone THEN Gone ELSE age + 1

Steps == {"idle", "missed", "fetching", "fetched", "failed", "cooling", "waiting", "got"}
Resting == [at |-> "idle", got |-> Gone, ticked |-> FALSE]
EmptySlot == [inflight |-> FALSE, cooldown |-> 0]

ForecastsInit ==
  /\ answering \in BOOLEAN
  /\ cache = Gone /\ slot = EmptySlot /\ record = Gone
  /\ asker = [t \in Askers |-> Resting]
  /\ snapshot = Gone /\ restarts = 0
  /\ sinceFailed = FetchCooldown /\ hasty = FALSE

Goes(t, place, got) ==
  asker' = [asker EXCEPT ![t] = [at |-> place, got |-> got, ticked |-> asker[t].ticked]]
Rests(t) == asker' = [asker EXCEPT ![t] = Resting]

-----------------------------------------------------------------------------
(* The provider, and time.                                                 *)

ProviderTurns ==
  /\ answering' = ~answering
  /\ UNCHANGED <<memory, asker, snapshot, restarts, sinceFailed, hasty>>

ForecastTick ==
  /\ \A t \in Askers : ~asker[t].ticked
  /\ cache' = Aging(cache) /\ record' = Aging(record) /\ snapshot' = Aging(snapshot)
  /\ slot' = [slot EXCEPT !.cooldown = IF slot.cooldown > 0 THEN slot.cooldown - 1 ELSE 0]
  /\ asker' = [t \in Askers |->
       [asker[t] EXCEPT !.got = Aging(asker[t].got), !.ticked = asker[t].at # "idle"]]
  /\ sinceFailed' = IF sinceFailed = FetchCooldown THEN FetchCooldown ELSE sinceFailed + 1
  /\ UNCHANGED <<answering, restarts, hasty>>

-----------------------------------------------------------------------------
(* fetch_deterministic_weather_models                                      *)

\* _cached_provider_record
Cached == cache <= Expiry

\* the monitor's next pass, or a cycle that finds the record old
Ask(t) ==
  /\ asker[t].at = "idle" /\ (t = "main" => record > Expiry)
  /\ IF Cached THEN Goes(t, "got", cache) ELSE Goes(t, "missed", Gone)
  /\ UNCHANGED <<answering, memory, snapshot, restarts, sinceFailed, hasty>>

\* _claim_provider_fetch_slot, under its lock: the cooldown is looked at first
InCooldown(t) ==
  /\ asker[t].at = "missed" /\ slot.cooldown > 0
  /\ Rests(t)
  /\ UNCHANGED <<answering, memory, snapshot, restarts, sinceFailed, hasty>>

MustWait(t) ==
  /\ asker[t].at = "missed" /\ slot.cooldown = 0 /\ slot.inflight
  /\ Goes(t, "waiting", Gone)
  /\ UNCHANGED <<answering, memory, snapshot, restarts, sinceFailed, hasty>>

\* mutant: whoever missed the cache may fetch
Claimable(t) == asker[t].at = "missed" /\ slot.cooldown = 0
Free(t) == asker[t].at = "missed" /\ slot.cooldown = 0 /\ ~slot.inflight

Lead(t) ==
  /\ Free(t)
  /\ slot' = [slot EXCEPT !.inflight = TRUE]
  /\ Goes(t, "fetching", Gone)
  /\ hasty' = (hasty \/ sinceFailed < FetchCooldown)
  /\ UNCHANGED <<answering, cache, record, snapshot, restarts, sinceFailed>>

\* _fetch_open_meteo_deterministic_multimodel; a record goes into the cache
Fetch(t) ==
  /\ asker[t].at = "fetching"
  /\ \/ answering /\ cache' = 0 /\ Goes(t, "fetched", 0) /\ UNCHANGED sinceFailed
     \/ ~answering /\ Goes(t, "failed", Gone) /\ sinceFailed' = 0 /\ UNCHANGED cache
  /\ UNCHANGED <<answering, slot, record, snapshot, restarts, hasty>>

\* mutant: the slot is given back before the cooldown is set
FreedFirst == [inflight |-> FALSE, cooldown |-> slot.cooldown]
\* mutant: it lasts a tick longer
CooledTooLong == [inflight |-> TRUE, cooldown |-> FetchCooldown + 1]
Cooled == [inflight |-> TRUE, cooldown |-> FetchCooldown]
SetCooldown(t) ==
  /\ asker[t].at = "failed" /\ slot' = Cooled /\ Goes(t, "cooling", Gone)
  /\ UNCHANGED <<answering, cache, record, snapshot, restarts, sinceFailed, hasty>>

\* mutant: only a fetch that brought a record gives the slot back
ReleasedIfFetched(t) == [slot EXCEPT !.inflight = asker[t].at # "fetched"]
Released(t) == [slot EXCEPT !.inflight = FALSE]

\* _release_provider_fetch_slot, in the finally clause
Release(t) ==
  /\ asker[t].at \in {"fetched", "cooling"}
  /\ slot' = Released(t)
  /\ IF asker[t].at = "fetched" THEN Goes(t, "got", asker[t].got) ELSE Rests(t)
  /\ UNCHANGED <<answering, cache, record, snapshot, restarts, sinceFailed, hasty>>

\* _await_inflight_provider: cached, no longer in flight, or the deadline
StopWaiting(t) ==
  /\ asker[t].at = "waiting"
  /\ IF Cached THEN Goes(t, "got", cache) ELSE Rests(t)
  /\ UNCHANGED <<answering, memory, snapshot, restarts, sinceFailed, hasty>>

\* the record is shown without a look at what it replaces, and saved
Show(t) ==
  /\ asker[t].at = "got"
  /\ record' = asker[t].got /\ snapshot' = asker[t].got
  /\ Rests(t)
  /\ UNCHANGED <<answering, cache, slot, restarts, sinceFailed, hasty>>

\* _load_weather_snapshot of a new process
Restore ==
  /\ record = Gone /\ snapshot # Gone /\ record' = snapshot
  /\ UNCHANGED <<answering, cache, slot, asker, snapshot, restarts, sinceFailed, hasty>>

\* the daemon dies, and its cache, slot and cooldown with it
Restart ==
  /\ restarts < MaxRestarts /\ restarts' = restarts + 1
  /\ cache' = Gone /\ slot' = EmptySlot /\ record' = Gone
  /\ asker' = [t \in Askers |-> Resting]
  /\ sinceFailed' = FetchCooldown
  /\ UNCHANGED <<answering, snapshot, hasty>>

Asks(t) ==
  \/ Ask(t) \/ InCooldown(t) \/ MustWait(t) \/ Lead(t) \/ Fetch(t) \/ SetCooldown(t)
  \/ Release(t) \/ StopWaiting(t) \/ Show(t)

ForecastsNext ==
  \/ ProviderTurns \/ ForecastTick \/ Restore \/ Restart
  \/ \E t \in Askers : Asks(t)

\* both threads go on, and time does
ForecastsSpec ==
  /\ ForecastsInit /\ [][ForecastsNext]_forecastsVars
  /\ \A t \in Askers : WF_forecastsVars(Asks(t))
  /\ WF_forecastsVars(ForecastTick)

-----------------------------------------------------------------------------
(* Properties.                                                             *)

ForecastsTypeOK ==
  /\ answering \in BOOLEAN
  /\ {cache, record, snapshot} \subseteq RecordAges
  /\ slot \in [inflight: BOOLEAN, cooldown: 0..FetchCooldown]
  /\ asker \in [Askers -> [at: Steps, got: RecordAges, ticked: BOOLEAN]]
  /\ restarts \in 0..MaxRestarts
  /\ sinceFailed \in 0..FetchCooldown /\ hasty \in BOOLEAN

\* a thread that has claimed the slot has it until it gives it back
Fetching == {t \in Askers : asker[t].at \in {"fetching", "fetched", "failed", "cooling"}}

(* "Back off one coordinate after a failed deterministic provider cycle."  *)
(* (kalshi_weather_monitor.py:483): however the threads' looks at cache,   *)
(* cooldown and slot interleave, two never fetch at once, and none begins  *)
(* before the cooldown of a failed fetch is over.                          *)
FetchesAreSpaced ==
  /\ ~hasty
  /\ \A t \in Fetching : slot.inflight /\ \A u \in Askers \ {t} : u \notin Fetching

\* Cache, slot, cooldown and waiting together do what SingleFlight says.
Flight == INSTANCE SingleFlight WITH
  Threads <- Askers, Pause <- FetchCooldown, flying <- Fetching, since <- sinceFailed
ImplementsSingleFlight == Flight!FlightSpec

(* Failures, cooldowns, waits in vain and a restart are all got over: once *)
(* the provider answers for good, the record is fresh again, and again.    *)
FreshAgain == <>[]answering => []<>(record <= Ttl)

\* One fetch in flight and none inside the cooldown, step by step, and yet the
\* forecast recovers with the provider.
FetchesRecover == []FetchesAreSpaced /\ ImplementsSingleFlight /\ FreshAgain
=============================================================================
