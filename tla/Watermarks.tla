----------------------------- MODULE Watermarks -----------------------------
(***************************************************************************)
(* data/kalshi_weather_monitor.py, observations: what the station of one   *)
(* city reports becomes the day's watermarks (highest temperature, rain so *)
(* far, last trend), kept in one JSON file, and the intraday part of the   *)
(* weather that the trading cycle reads.  Two threads of the daemon do     *)
(* this, each on a dictionary of its own: the monitor loads the file once, *)
(* the main thread (hydrate_weather_shadow_state) every time.  A third     *)
(* loop, the forecast sync, only carries the intraday part along.          *)
(*                                                                         *)
(* The day is the station's settlement day when a report is read; reports  *)
(* are numbered in the order of their times.  Minima mirror maxima.        *)
(***************************************************************************)
EXTENDS Integers, Sequences, FiniteSets

CONSTANTS
  Temps,       \* what a thermometer may show; 0 is no reading
  Ceiling,     \* the upper limit of the bracket held on every day
  MaxDays,     \* bound: settlement days
  MaxReports,  \* bound: METAR reports
  MaxDeaths    \* bound: restarts of the daemon

ASSUME WatermarksAssumption ==
  /\ Temps \subseteq Nat \ {0} /\ Ceiling \in Nat \ {0}
  /\ MaxDays \in Nat \ {0} /\ MaxReports \in Nat /\ MaxDeaths \in Nat

Days == 1..MaxDays
Ids  == 1..MaxReports
Writers == {"monitor", "main"}

VARIABLES
  today,
  reports,   \* the station's reports: temperature, and rain of the hour or 0
  marks,     \* weather_watermarks.json; a torn file reads as an empty one
  writer,    \* each thread: where it is, its dictionary, whether it published
  shown,     \* _WEATHER_SHADOW_STATE: the intraday part of the city's record
  saved,     \* weather_snapshot.json: the same
  carried,      \* the forecast sync: the part it took before it fetched
  readOn,    \* history: the reports read on a day
  busts,     \* history: days on which a bracket was given up, and on whose high
  deaths

watermarksVars == <<today, reports, marks, writer, shown, saved, carried, readOn, busts, deaths>>

\* of one day: the high, the wet hours up to report key, the last report seen, and
\* the two reports the last trend was taken from
NoMark  == [high |-> 0, rain |-> 0, key |-> 0, obs |-> 0, from |-> 0, to |-> 0]
NoMarks == [d \in Days |-> NoMark]

\* a payload's day is that of its "ts"; day 0 stands for {}, and -1 for no record
Payload(d, high, rain) == [day |-> d, high |-> high, rain |-> rain]
NoIntraday == Payload(0, 0, 0)
NoRecord   == Payload(-1, 0, 0)
NoCopy     == NoRecord
Payloads == [day: Days, high: Temps \cup {0}, rain: 0..MaxReports] \cup {NoIntraday, NoRecord}

Down == [at |-> "down", marks |-> NoMarks, fed |-> FALSE]

WatermarksInit ==
  /\ today = 1 /\ reports = <<>> /\ marks = NoMarks
  /\ writer = [w \in Writers |-> Down]
  /\ shown = NoRecord /\ saved = NoRecord /\ carried = NoCopy
  /\ readOn = [d \in Days |-> {}] /\ busts = {} /\ deaths = 0

-----------------------------------------------------------------------------
(* The station.                                                            *)

Report(temp, rain) ==
  /\ Len(reports) < MaxReports
  /\ reports' = Append(reports, [temp |-> temp, rain |-> rain])
  /\ UNCHANGED <<today, marks, writer, shown, saved, carried, readOn, busts, deaths>>

DayTurns ==
  /\ today < MaxDays /\ today' = today + 1
  /\ UNCHANGED <<reports, marks, writer, shown, saved, carried, readOn, busts, deaths>>

-----------------------------------------------------------------------------
(* run_intraday_sync and hydrate_weather_shadow_state                      *)

Begin(w) ==
  /\ writer[w].at \in {"down", "idle"}
  /\ writer' = [writer EXCEPT ![w] =
       [at |-> "fetching", fed |-> FALSE,
        marks |-> IF writer[w].at = "down" THEN marks ELSE writer[w].marks]]
  /\ UNCHANGED <<today, reports, marks, shown, saved, carried, readOn, busts, deaths>>

\* mutant: a report counts again when it is read again
RainAgain(m, i) ==
  IF reports[i].rain > 0 /\ i >= m.key
  THEN [m EXCEPT !.rain = m.rain + reports[i].rain, !.key = i] ELSE m
\* a report's rain counts once, and not at all after a later one
Rained(m, i) ==
  IF reports[i].rain > 0 /\ i > m.key
  THEN [m EXCEPT !.rain = m.rain + reports[i].rain, !.key = i] ELSE m

Warmed(m, i) == [m EXCEPT !.high = IF reports[i].temp > m.high THEN reports[i].temp ELSE m.high]

\* mutant: a trend between any two reports
TrendedAny(m, i) == [m EXCEPT !.obs = i, !.from = m.obs, !.to = i]
\* a trend is taken only forward in time, yet the last report seen may be older
Trended(m, i) ==
  IF m.obs # 0 /\ i > m.obs
  THEN [m EXCEPT !.obs = i, !.from = m.obs, !.to = i] ELSE [m EXCEPT !.obs = i]

Observed(m, i) == Rained(Trended(Warmed(m, i), i), i)

\* mutant: the watermarks are not kept by day
KeyedByCity(d) == 1
KeyOfDay(d) == d

\* the latest report or the one before it, from a provider's cache
Reported == {i \in {Len(reports) - 1, Len(reports)} : i > 0}

\* _intraday_payload, and what it makes is shown at once
Observe(w, i) ==
  LET d == KeyOfDay(today)
      m == Observed(writer[w].marks[d], i)
  IN  /\ writer[w].at = "fetching" /\ i \in Reported
      /\ writer' = [writer EXCEPT ![w] = [at |-> "observed",
                      marks |-> [writer[w].marks EXCEPT ![d] = m],
                      fed |-> w = "main" \/ shown # NoRecord]]
      /\ shown' = IF w = "main" \/ shown # NoRecord
                  THEN Payload(today, m.high, m.rain) ELSE shown
      /\ readOn' = [readOn EXCEPT ![today] = readOn[today] \cup {i}]
      /\ UNCHANGED <<today, reports, marks, saved, carried, busts, deaths>>

\* METAR does not answer: the day's marks are shown as they are, without rain
ObserveNothing(w) ==
  /\ writer[w].at = "fetching"
  /\ writer' = [writer EXCEPT ![w].at = "observed", ![w].fed = w = "main" \/ shown # NoRecord]
  /\ shown' = IF w = "main" \/ shown # NoRecord
              THEN Payload(today, writer[w].marks[KeyOfDay(today)].high, 0) ELSE shown
  /\ UNCHANGED <<today, reports, marks, saved, carried, readOn, busts, deaths>>

\* the provider has no forecast, so the city is left out; the file is still written
LeaveOut ==
  /\ writer["main"].at = "fetching"
  /\ writer' = [writer EXCEPT !["main"].at = "observed"]
  /\ UNCHANGED <<today, reports, marks, shown, saved, carried, readOn, busts, deaths>>

\* _persist_watermarks truncates the file, then writes it, with no lock
OpenMarks(w) ==
  /\ writer[w].at = "observed"
  /\ marks' = NoMarks
  /\ writer' = [v \in Writers |->
       IF v = w THEN [writer[v] EXCEPT !.at =
                        IF \E u \in Writers : writer[u].at = "writing" THEN "clashing" ELSE "writing"]
       ELSE IF writer[v].at = "writing" THEN [writer[v] EXCEPT !.at = "clashing"]
       ELSE writer[v]]
  /\ UNCHANGED <<today, reports, shown, saved, carried, readOn, busts, deaths>>

\* of two that write at once one may leave bytes of the other behind it.  Then
\* the snapshot is written, and the monitor sleeps; a hydration is over, and its
\* dictionary with it
CloseMarks(w) ==
  /\ writer[w].at \in {"writing", "clashing"}
  /\ \/ marks' = writer[w].marks
     \/ writer[w].at = "clashing" /\ marks' = NoMarks
  /\ saved' = IF w = "monitor" \/ writer[w].fed THEN shown ELSE saved
  /\ writer' = [writer EXCEPT ![w] =
                  IF w = "main" THEN Down ELSE [writer[w] EXCEPT !.at = "idle", !.fed = FALSE]]
  /\ UNCHANGED <<today, reports, shown, carried, readOn, busts, deaths>>

-----------------------------------------------------------------------------
(* run_forecast_sync, restarts, and the cycle that reads.                  *)

BeginForecast ==
  /\ carried = NoCopy
  /\ carried' = IF shown = NoRecord THEN NoIntraday ELSE shown
  /\ UNCHANGED <<today, reports, marks, writer, shown, saved, readOn, busts, deaths>>

\* the new forecast takes the intraday part it was given back with it
EndForecast ==
  /\ carried # NoCopy
  /\ shown' = carried /\ saved' = carried /\ carried' = NoCopy
  /\ UNCHANGED <<today, reports, marks, writer, readOn, busts, deaths>>

\* the coordinate's fetch failed: nothing is written
DropForecast ==
  /\ carried # NoCopy /\ carried' = NoCopy
  /\ UNCHANGED <<today, reports, marks, writer, shown, saved, readOn, busts, deaths>>

\* _load_weather_snapshot, after a restart
LoadSnapshot ==
  /\ shown = NoRecord /\ saved # NoRecord /\ shown' = saved
  /\ UNCHANGED <<today, reports, marks, writer, saved, carried, readOn, busts, deaths>>

\* get_contract_weather_data: the intraday part is for today's contract alone
IntradayOf(d) == IF d = today /\ shown # NoRecord THEN shown ELSE NoIntraday

\* run_position_monitor: a bracket is lost when the high of its day is above it
BustExit(d) ==
  /\ IntradayOf(d).high >= Ceiling
  /\ busts' = busts \cup {[day |-> d, on |-> IntradayOf(d).day, high |-> IntradayOf(d).high]}
  /\ UNCHANGED <<today, reports, marks, writer, shown, saved, carried, readOn, deaths>>

\* the daemon dies; a file that is being written stays torn
WatermarksDie ==
  /\ deaths < MaxDeaths /\ deaths' = deaths + 1
  /\ writer' = [w \in Writers |-> Down] /\ shown' = NoRecord /\ carried' = NoCopy
  /\ UNCHANGED <<today, reports, marks, saved, readOn, busts>>

WatermarksNext ==
  \/ \E temp \in Temps, rain \in {0, 1} : Report(temp, rain)
  \/ DayTurns
  \/ \E w \in Writers : \/ Begin(w) \/ ObserveNothing(w)
                        \/ OpenMarks(w) \/ CloseMarks(w)
                        \/ \E i \in Ids : Observe(w, i)
  \/ LeaveOut
  \/ BeginForecast \/ EndForecast \/ DropForecast \/ LoadSnapshot
  \/ WatermarksDie
  \/ \E d \in Days : BustExit(d)

WatermarksSpec == WatermarksInit /\ [][WatermarksNext]_watermarksVars

-----------------------------------------------------------------------------
(* Properties.                                                             *)

DayMarks == [high: Temps \cup {0}, rain: 0..MaxReports, key: 0..MaxReports,
             obs: 0..MaxReports, from: 0..MaxReports, to: 0..MaxReports]
Marks == [Days -> DayMarks]
Threads == [at: {"down", "idle", "fetching", "observed", "writing", "clashing"},
            marks: Marks, fed: BOOLEAN]
WatermarksTypeOK ==
  /\ today \in Days
  /\ reports \in Seq([temp: Temps, rain: {0, 1}]) /\ Len(reports) <= MaxReports
  /\ marks \in Marks
  /\ writer \in [Writers -> Threads]
  /\ {shown, saved, carried} \subseteq Payloads
  /\ readOn \in [Days -> SUBSET (1..Len(reports))]
  /\ busts \subseteq [day: Days, on: Days, high: Temps]
  /\ deaths \in 0..MaxDeaths

RainOf(ids) == Cardinality({i \in ids : reports[i].rain = 1})
Read(d, high) == high # 0 => \E i \in readOn[d] : reports[i].temp = high
SoundMark(d, m) ==
  /\ Read(d, m.high)
  /\ m.rain <= RainOf({i \in readOn[d] : i <= m.key})
  /\ m.obs # 0 => m.obs \in readOn[d]
  /\ m.to # 0 => m.from < m.to /\ {m.from, m.to} \subseteq readOn[d]
SoundMarks(f)   == \A d \in Days : SoundMark(d, f[d])
SoundPayload(p) == p.day > 0 => Read(p.day, p.high) /\ p.rain <= RainOf(readOn[p.day])

(* However threads overwrite each other's file, tear it, restart, or carry *)
(* old copies along: a high is a temperature that was read on that day, no *)
(* report's rain is counted twice, a trend goes forward between two        *)
(* reports of the day, and what the cycle is shown, or has sold on, is no  *)
(* more than that.                                                         *)
WatermarksAreObserved ==
  /\ SoundMarks(marks) /\ \A w \in Writers : SoundMarks(writer[w].marks)
  /\ SoundPayload(shown) /\ SoundPayload(saved) /\ SoundPayload(carried)
  /\ \A b \in busts : Read(b.on, b.high)

(* "The record high for today is already above our bracket ceiling."       *)
(* (runner.py:2349).  Expected to fail: after the settlement day turns,    *)
(* and until the next sync, the high of the day before is the new day's.   *)
BustsAreOfToday == \A b \in busts : b.on = b.day
=============================================================================
