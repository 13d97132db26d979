----------------------------- MODULE Incidents -----------------------------
(***************************************************************************)
(* runtime/incident_tracker.py: system_events become incidents, one for    *)
(* each fingerprint, and incidents an operator should hear of become       *)
(* notifications (notifications/notification_engine.py, push).             *)
(*                                                                         *)
(* Every process that trades syncs before and after its cycle.  A sync     *)
(* reads in one transaction and adds up in another; then it selects the    *)
(* incidents to alert, and for each writes the notification on a second    *)
(* connection and marks the incident in a transaction it commits when all  *)
(* are done.  SQLite admits one writer.                                    *)
(***************************************************************************)
EXTENDS Integers, Sequences, FiniteSets

CONSTANTS
  Prints,       \* fingerprints
  Alertable,    \* those _is_operator_alert_incident picks
  Severities,   \* ranks of the events logged: WARNING 1, ERROR 2, CRITICAL 3
  Syncers,      \* processes that sync
  AlertFloor, AlertEvery,  \* 3 and 5: counts at which an alert is repeated
  MaxEvents,    \* bound: events logged
  MaxLosses     \* bound: syncs that die or give up on a lock

ASSUME IncidentsAssumption ==
  /\ Alertable \subseteq Prints /\ Severities \subseteq 1..3
  /\ {AlertFloor, AlertEvery, MaxEvents, MaxLosses} \subseteq Nat

VARIABLES
  events,       \* system_events, by id
  expired,      \* how many of them are older than the lookback
  incident,     \* the incidents table; count 0: no row
  notified,     \* notifications: the highest count each incident was notified with
  syncer,       \* where each process is
  losses,
  recorded,     \* history: record_incident calls
  missed,       \* history: events never read, for they had expired
  overlapped    \* history: incidents two syncs added to at once

trackerVars == <<incident, notified, recorded, missed, overlapped>>
incidentsVars == <<events, expired, trackerVars, syncer, losses>>

NoIncident == [count |-> 0, severity |-> 0, lastEvent |-> 0,
               alertedCount |-> 0, alertedSeverity |-> 0]
\* groups: what was read; todo: rows selected, hand: the one
\* in hand; marks: the open transaction
NoSync == [at |-> "idle", groups |-> <<>>, todo |-> <<>>, hand |-> "none",
           marks |-> <<>>]

IncidentsInit ==
  /\ events = <<>> /\ expired = 0 /\ losses = 0
  /\ incident = [f \in Prints |-> NoIncident]
  /\ notified = [f \in Prints |-> 0]
  /\ syncer = [p \in Syncers |-> NoSync]
  /\ recorded = [f \in Prints |-> 0] /\ missed = [f \in Prints |-> 0]
  /\ overlapped = {}

Larger(a, b) == IF a < b THEN b ELSE a
\* the one writer: a transaction of marks that is not committed yet
Marking(p) == DOMAIN syncer[p].marks # {}
UnlockedFor(p) == \A q \in Syncers \ {p} : ~Marking(q)
Unlocked == \A p \in Syncers : ~Marking(p)

At(p, place) == [syncer EXCEPT ![p].at = place]

-----------------------------------------------------------------------------
(* Events, and time.                                                       *)

LogEvent(f, severity) ==
  /\ Len(events) < MaxEvents
  /\ events' = Append(events, [print |-> f, severity |-> severity])
  /\ UNCHANGED <<expired, trackerVars, syncer, losses>>

Expire ==
  /\ expired < Len(events) /\ expired' = expired + 1
  /\ UNCHANGED <<events, trackerVars, syncer, losses>>

\* record_incident, of the soak after a deploy
RecordIncident(f, severity) ==
  /\ Len(events) + recorded[f] < MaxEvents /\ Unlocked
  /\ incident' = [incident EXCEPT ![f].count = @ + 1, ![f].severity = severity]
  /\ recorded' = [recorded EXCEPT ![f] = @ + 1]
  /\ UNCHANGED <<events, expired, notified, missed, overlapped, syncer, losses>>

-----------------------------------------------------------------------------
(* ingest_system_events                                                    *)

EventsOf(f) == {i \in DOMAIN events : events[i].print = f}
\* mutant: no watermark, all of the lookback is counted again
UnseenInWindow(f) == {i \in EventsOf(f) : i > expired}
Unseen(f) == {i \in EventsOf(f) : i > expired /\ i > incident[f].lastEvent}
Highest(S) == CHOOSE x \in S : \A y \in S : y <= x
Group(f) == [count |-> Cardinality(Unseen(f)), last |-> Highest(Unseen(f)),
             severity |-> Highest({events[i].severity : i \in Unseen(f)}), after |-> expired]

ReadEvents(p) ==
  LET found == {f \in Prints : Unseen(f) # {}} IN
  /\ syncer[p].at = "idle"
  /\ syncer' = [syncer EXCEPT ![p].at = "upsert", ![p].groups = [f \in found |-> Group(f)]]
  /\ overlapped' = overlapped \cup
       UNION {found \cap DOMAIN syncer[q].groups : q \in Syncers \ {p}}
  /\ UNCHANGED <<events, expired, incident, notified, recorded, missed, losses>>

\* mutant: the watermark is one past the last event
AddedPast(f, g) ==
  [incident[f] EXCEPT !.count = @ + g.count, !.severity = Larger(@, g.severity),
                      !.lastEvent = g.last + 1]
Added(f, g) ==
  [incident[f] EXCEPT !.count = @ + g.count, !.severity = Larger(@, g.severity),
                      !.lastEvent = g.last]
\* events behind the new watermark that had expired before they were read
SkippedBy(f, g) ==
  {i \in EventsOf(f) : incident[f].lastEvent < i /\ i <= g.last /\ i <= g.after}

Upsert(p) ==
  LET groups == syncer[p].groups IN
  /\ syncer[p].at = "upsert" /\ (groups = <<>> \/ UnlockedFor(p))
  /\ incident' = [f \in Prints |->
       IF f \in DOMAIN groups THEN Added(f, groups[f]) ELSE incident[f]]
  /\ missed' = [f \in Prints |->
       IF f \in DOMAIN groups
       THEN missed[f] + Cardinality(SkippedBy(f, groups[f])) ELSE missed[f]]
  /\ syncer' = [syncer EXCEPT ![p].at = "select", ![p].groups = <<>>]
  /\ UNCHANGED <<events, expired, notified, recorded, overlapped, losses>>

-----------------------------------------------------------------------------
(* sync_incidents_and_notify                                               *)

\* mutant: an incident is alerted once
DueOnce(f) == incident[f].count > 0 /\ incident[f].alertedCount = 0
DueForAlert(f) ==
  LET i == incident[f] IN
  i.count > 0 /\
    (\/ i.alertedCount = 0
     \/ i.severity > i.alertedSeverity
     \/ i.count >= Larger(AlertFloor, i.alertedCount + AlertEvery))

SelectAlerts(p) ==
  LET rows == {f \in Alertable : DueForAlert(f)} IN
  /\ syncer[p].at = "select"
  /\ syncer' = [syncer EXCEPT ![p].at = "rows", ![p].todo =
       [f \in rows |-> [count |-> incident[f].count, severity |-> incident[f].severity]]]
  /\ UNCHANGED <<events, expired, trackerVars, losses>>

\* push writes on its own connection.  While a transaction is open, that of its
\* caller included, it waits, gives up after 30 seconds, and says nothing
Push(p, f) ==
  /\ syncer[p].at = "rows" /\ f \in DOMAIN syncer[p].todo
  /\ notified' = IF Unlocked
                 THEN [notified EXCEPT ![f] = Larger(@, syncer[p].todo[f].count)] ELSE notified
  /\ syncer' = [syncer EXCEPT ![p].at = "mark", ![p].hand = f]
  /\ UNCHANGED <<events, expired, incident, recorded, missed, overlapped, losses>>

AllBut(rows, f) == [g \in DOMAIN rows \ {f} |-> rows[g]]
Also(rows, f, row) == [g \in DOMAIN rows \cup {f} |-> IF g = f THEN row ELSE rows[g]]

MarkAlerted(p) ==
  LET f == syncer[p].hand IN
  /\ syncer[p].at = "mark" /\ UnlockedFor(p)
  /\ syncer' = [syncer EXCEPT ![p].at = "rows", ![p].todo = AllBut(@, f),
       ![p].hand = "none", ![p].marks = Also(@, f, syncer[p].todo[f])]
  /\ UNCHANGED <<events, expired, trackerVars, losses>>

Marked(i, row) == [i EXCEPT !.alertedCount = row.count, !.alertedSeverity = row.severity]

CommitMarks(p) ==
  LET marks == syncer[p].marks IN
  /\ syncer[p].at = "rows" /\ syncer[p].todo = <<>>
  /\ incident' = [f \in Prints |->
       IF f \in DOMAIN marks THEN Marked(incident[f], marks[f]) ELSE incident[f]]
  /\ syncer' = [syncer EXCEPT ![p] = NoSync]
  /\ UNCHANGED <<events, expired, notified, recorded, missed, overlapped, losses>>

-----------------------------------------------------------------------------
(* What goes wrong.                                                        *)

Loss == losses < MaxLosses /\ losses' = losses + 1

\* another process keeps the lock for too long: nothing is added, or nothing is
\* marked, and the exception is swallowed
LockTimeout(p) ==
  /\ syncer[p].at \in {"upsert", "mark"} /\ ~UnlockedFor(p) /\ Loss
  /\ syncer' = [syncer EXCEPT ![p] =
       IF @.at = "upsert" THEN [NoSync EXCEPT !.at = "select"] ELSE NoSync]
  /\ UNCHANGED <<events, expired, trackerVars>>

SyncerDies(p) ==
  /\ syncer[p].at # "idle" /\ Loss
  /\ syncer' = [syncer EXCEPT ![p] = NoSync]
  /\ UNCHANGED <<events, expired, trackerVars>>

-----------------------------------------------------------------------------
Sync(p) ==
  \/ ReadEvents(p) \/ Upsert(p) \/ SelectAlerts(p) \/ MarkAlerted(p) \/ CommitMarks(p)
  \/ \E f \in Alertable : Push(p, f)

IncidentsNext ==
  \/ \E f \in Prints, severity \in Severities :
       LogEvent(f, severity) \/ RecordIncident(f, severity)
  \/ Expire
  \/ \E p \in Syncers : Sync(p) \/ LockTimeout(p) \/ SyncerDies(p)

IncidentsSpec == IncidentsInit /\ [][IncidentsNext]_incidentsVars

-----------------------------------------------------------------------------
(* The tables are tables of fingerprints, and a process knows where it is. *)
IncidentsTypeOK ==
  /\ events \in Seq([print : Prints, severity : Severities]) /\ expired \in 0..Len(events)
  /\ incident \in [Prints -> [count : Nat, severity : 0..3, lastEvent : 0..MaxEvents,
                              alertedCount : Nat, alertedSeverity : 0..3]]
  /\ notified \in [Prints -> Nat] /\ losses \in 0..MaxLosses /\ overlapped \subseteq Prints
  /\ \A p \in Syncers :
       /\ syncer[p].at \in {"idle", "upsert", "select", "rows", "mark"}
       /\ DOMAIN syncer[p].groups \cup DOMAIN syncer[p].todo \cup DOMAIN syncer[p].marks
            \subseteq Prints

\* An incident counts every event once, up to the last it has seen, and every
\* call that recorded it: whatever dies or gives up in between, for the count
\* and the watermark move together.  Two syncs that read the same events before
\* either has added them up count them twice; and what expires before a sync
\* reads it is not counted.
CountsAreExact ==
  \A f \in Prints \ overlapped :
    incident[f].count + missed[f] =
      recorded[f] + Cardinality({i \in EventsOf(f) : i <= incident[f].lastEvent})

\* Every alertable incident is marked as alerted at last, and again when it has
\* grown more severe.
EscalationIsMarked ==
  \A f \in Alertable :
    (incident[f].count > 0 /\ (incident[f].alertedCount = 0
                               \/ incident[f].severity > incident[f].alertedSeverity))
      ~> (incident[f].severity <= incident[f].alertedSeverity)

\* An incident is marked as alerted only with a count its notification was
\* written with: notifications/notification_engine.py says that all events are
\* written to the table and mirrored to Telegram.  Of the alerts of one sync only
\* the first is: the others meet the lock of the transaction that marks them.
MarkedIsTold ==
  \A f \in Prints : incident[f].alertedCount <= notified[f]
=============================================================================
