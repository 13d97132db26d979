--------------------------- MODULE Sources_proofs ---------------------------
(***************************************************************************)
(* Theorems of what an entry rests on.  Watermarks, for any number of      *)
(* days, reports and restarts: types, and that every watermark, wherever   *)
(* it is, was observed.  Contracts, for any ladder and readings: types,    *)
(* and that one rung wins.  Paper, for any runners, legs and quotes:       *)
(* types, and that the balance follows the trades.  Entries, for any       *)
(* markets, prices, balances and limits: types, and that the rails stand   *)
(* when an order goes out.  Last, with Broker, that the five together keep *)
(* their types.                                                            *)
(***************************************************************************)
EXTENDS MC_Sources, Broker_proofs, Sums_proofs

-----------------------------------------------------------------------------
(* Watermarks.                                                             *)

\* rain is counted at most once per report, so the key bounds it
RainWithinKey(f) == \A d \in Days : f[d].rain <= f[d].key

WatermarksInd ==
  /\ WatermarksTypeOK /\ WatermarksAreObserved
  /\ RainWithinKey(marks) /\ \A w \in Writers : RainWithinKey(writer[w].marks)

\* reports are only added, and so is what was read of them
Grows ==
  /\ WatermarksTypeOK
  /\ reports' \in Seq([temp: Temps, rain: {0, 1}]) /\ Len(reports) <= Len(reports')
  /\ \A i \in 1..Len(reports) : reports'[i] = reports[i]
  /\ readOn' \in [Days -> SUBSET (1..Len(reports'))]
  /\ \A d \in Days : readOn[d] \subseteq readOn'[d]

-----------------------------------------------------------------------------
(* Counting wet hours.                                                     *)

LEMMA Counts ==
  ASSUME NEW n \in Nat, NEW T \in SUBSET (1..n), NEW S \in SUBSET T
  PROVE  IsFiniteSet(T) /\ Cardinality(S) \in Nat /\ Cardinality(T) \in Nat
         /\ Cardinality(S) <= Cardinality(T)
<1>1. IsFiniteSet(1..n)
  BY FS_Interval
<1>2. IsFiniteSet(T)
  BY <1>1, FS_Subset
<1> QED
  BY <1>2, FS_Subset, FS_CardinalityType

LEMMA CountsOneMore ==
  ASSUME NEW n \in Nat, NEW T \in SUBSET (1..n), NEW S \in SUBSET T, NEW i \in T \ S
  PROVE  Cardinality(S) + 1 <= Cardinality(T)
<1>1. IsFiniteSet(T) /\ IsFiniteSet(S) /\ Cardinality(S) \in Nat
  BY Counts, FS_Subset, FS_CardinalityType
<1>2. Cardinality(S \cup {i}) = Cardinality(S) + 1
  BY <1>1, FS_AddElement
<1>3. S \cup {i} \in SUBSET T
  OBVIOUS
<1> QED
  BY <1>2, <1>3, Counts

-----------------------------------------------------------------------------
(* What was sound stays so.                                                *)

LEMMA RainGrows ==
  ASSUME Grows, NEW d \in Days, NEW k \in Int
  PROVE  /\ RainOf(readOn[d]) \in Nat /\ RainOf(readOn[d])' \in Nat
         /\ RainOf(readOn[d]) <= RainOf(readOn[d])'
         /\ RainOf({i \in readOn[d] : i <= k}) \in Nat
         /\ RainOf({i \in readOn[d] : i <= k})' \in Nat
         /\ RainOf({i \in readOn[d] : i <= k}) <= RainOf({i \in readOn[d] : i <= k})'
         /\ RainOf({i \in readOn[d] : i <= k}) <= RainOf(readOn[d])
<1> DEFINE all   == {i \in readOn[d] : reports[i].rain = 1}
           all2  == {i \in readOn'[d] : reports'[i].rain = 1}
           some  == {i \in {i \in readOn[d] : i <= k} : reports[i].rain = 1}
           some2 == {i \in {i \in readOn'[d] : i <= k} : reports'[i].rain = 1}
<1>1. /\ readOn[d] \in SUBSET (1..Len(reports)) /\ readOn'[d] \in SUBSET (1..Len(reports'))
      /\ readOn[d] \subseteq readOn'[d] /\ Len(reports) \in Nat /\ Len(reports') \in Nat
      /\ Len(reports) <= Len(reports')
      /\ \A i \in readOn[d] : reports'[i] = reports[i]
  BY DEF Grows, WatermarksTypeOK
<1>2. /\ all2 \in SUBSET (1..Len(reports')) /\ some2 \in SUBSET (1..Len(reports'))
      /\ all \in SUBSET all2 /\ some \in SUBSET some2 /\ some \in SUBSET all
      /\ all \in SUBSET (1..Len(reports'))
  BY <1>1
<1> HIDE DEF all, all2, some, some2
<1>3. /\ Cardinality(all) \in Nat /\ Cardinality(all2) \in Nat
      /\ Cardinality(some) \in Nat /\ Cardinality(some2) \in Nat
      /\ Cardinality(all) <= Cardinality(all2) /\ Cardinality(some) <= Cardinality(some2)
      /\ Cardinality(some) <= Cardinality(all)
  BY <1>1, <1>2, Counts
<1> QED
  BY <1>3 DEF RainOf, all, all2, some, some2

LEMMA SoundGrows ==
  ASSUME Grows, NEW d \in Days, NEW m \in DayMarks, SoundMark(d, m)
  PROVE  SoundMark(d, m)'
<1>1. m.key \in Int /\ m.rain \in Int
  BY WatermarksAssumption DEF DayMarks
<1>k. PICK k \in Int : k = m.key
  BY <1>1
<1>2. m.rain <= RainOf({i \in readOn[d] : i <= k})'
  <2>1. m.rain <= RainOf({i \in readOn[d] : i <= k})
    BY <1>k DEF SoundMark
  <2>2. /\ RainOf({i \in readOn[d] : i <= k}) \in Nat
        /\ RainOf({i \in readOn[d] : i <= k})' \in Nat
        /\ RainOf({i \in readOn[d] : i <= k}) <= RainOf({i \in readOn[d] : i <= k})'
    BY RainGrows
  <2> QED
    BY <2>1, <2>2, <1>1
<1>3. /\ readOn[d] \subseteq readOn'[d] /\ readOn[d] \subseteq 1..Len(reports)
      /\ \A i \in readOn[d] : reports'[i] = reports[i]
  BY DEF Grows, WatermarksTypeOK
<1> QED
  BY <1>k, <1>2, <1>3 DEF SoundMark, Read

LEMMA SoundMarksGrow ==
  ASSUME Grows, NEW f \in Marks, SoundMarks(f)
  PROVE  SoundMarks(f)'
BY SoundGrows DEF SoundMarks, Marks

LEMMA SoundPayloadGrows ==
  ASSUME Grows, NEW p \in Payloads, SoundPayload(p)
  PROVE  SoundPayload(p)'
<1> SUFFICES ASSUME p.day > 0 PROVE SoundPayload(p)'
  BY DEF SoundPayload
<1>1. p.day \in Days /\ p.rain \in Int
  BY WatermarksAssumption DEF Payloads, NoIntraday, NoRecord, Payload, Days
<1>d. PICK d \in Days : d = p.day
  BY <1>1
<1>2. p.rain <= RainOf(readOn[d])'
  <2>1. p.rain <= RainOf(readOn[d])
    BY <1>d DEF SoundPayload
  <2>2. /\ RainOf(readOn[d]) \in Nat /\ RainOf(readOn[d])' \in Nat
        /\ RainOf(readOn[d]) <= RainOf(readOn[d])'
    <3>1. 0 \in Int
      OBVIOUS
    <3> QED
      BY <3>1, RainGrows
  <2> QED
    BY <2>1, <2>2, <1>1
<1>3. /\ readOn[p.day] \subseteq readOn'[p.day] /\ readOn[p.day] \subseteq 1..Len(reports)
      /\ \A i \in readOn[p.day] : reports'[i] = reports[i]
  BY <1>1 DEF Grows, WatermarksTypeOK
<1> QED
  BY <1>d, <1>2, <1>3 DEF SoundPayload, Read

\* the world's steps, and every step that reads nothing new
LEMMA Stays ==
  ASSUME WatermarksTypeOK, UNCHANGED <<reports, readOn>>
  PROVE  Grows
BY DEF WatermarksTypeOK, Grows

-----------------------------------------------------------------------------
(* A report is read.                                                       *)

LEMMA ObservedFields ==
  ASSUME WatermarksTypeOK, NEW m \in DayMarks, m.rain <= m.key, NEW i \in 1..Len(reports)
  PROVE  LET x == Observed(m, i) IN
         /\ x \in DayMarks /\ x.rain <= x.key /\ x.obs = i
         /\ x.high = m.high \/ x.high = reports[i].temp
         /\ (x.from = m.from /\ x.to = m.to) \/ (m.obs # 0 /\ i > m.obs /\ x.from = m.obs /\ x.to = i)
         /\ \/ x.rain = m.rain /\ x.key = m.key
            \/ x.rain = m.rain + 1 /\ x.key = i /\ i > m.key /\ reports[i].rain = 1
<1> DEFINE warm  == Warmed(m, i)
           trend == Trended(warm, i)
           x     == Rained(trend, i)
<1>1. /\ reports[i].temp \in Temps /\ reports[i].rain \in {0, 1}
      /\ Len(reports) \in Nat /\ i \in 1..MaxReports
  <2>1. reports \in Seq([temp: Temps, rain: {0, 1}]) /\ Len(reports) <= MaxReports
    BY DEF WatermarksTypeOK
  <2>2. reports[i] \in [temp: Temps, rain: {0, 1}] /\ Len(reports) \in Nat
    BY <2>1, ElementOfSeq, LenProperties
  <2> QED
    BY <2>1, <2>2, WatermarksAssumption
<1>2. warm \in DayMarks /\ (warm.high = m.high \/ warm.high = reports[i].temp)
      /\ warm.rain = m.rain /\ warm.key = m.key /\ warm.obs = m.obs
      /\ warm.from = m.from /\ warm.to = m.to
  BY <1>1 DEF Warmed, DayMarks
<1> HIDE DEF warm
<1>3. trend \in DayMarks /\ trend.high = warm.high /\ trend.obs = i
      /\ trend.rain = m.rain /\ trend.key = m.key
      /\ \/ trend.from = m.from /\ trend.to = m.to
         \/ m.obs # 0 /\ i > m.obs /\ trend.from = m.obs /\ trend.to = i
  <2>1. CASE warm.obs # 0 /\ i > warm.obs
    <3>1. trend = [warm EXCEPT !.obs = i, !.from = warm.obs, !.to = i]
      BY <2>1 DEF Trended
    <3>2. /\ trend.from = warm.obs /\ trend.to = i /\ trend.obs = i
          /\ trend.high = warm.high /\ trend.rain = warm.rain /\ trend.key = warm.key
      BY <1>2, <3>1 DEF DayMarks
    <3>3. warm.obs \in 0..MaxReports /\ i \in 0..MaxReports
      BY <1>1, <1>2, WatermarksAssumption DEF DayMarks
    <3>4. trend \in DayMarks
      BY <1>2, <3>1, <3>3 DEF DayMarks
    <3> QED
      BY <1>2, <2>1, <3>2, <3>4
  <2>2. CASE ~(warm.obs # 0 /\ i > warm.obs)
    BY <1>1, <1>2, <2>2 DEF Trended, DayMarks
  <2> QED
    BY <2>1, <2>2
<1> HIDE DEF trend
<1>4. x \in DayMarks /\ x.rain <= x.key /\ x.obs = i /\ x.high = trend.high
      /\ x.from = trend.from /\ x.to = trend.to
      /\ \/ x.rain = m.rain /\ x.key = m.key
         \/ x.rain = m.rain + 1 /\ x.key = i /\ i > m.key /\ reports[i].rain = 1
  <2>1. CASE reports[i].rain > 0 /\ i > trend.key
    <3>1. reports[i].rain = 1 /\ trend.rain + 1 \in 0..MaxReports /\ trend.rain + 1 <= i
      BY <1>1, <1>3, <2>1, WatermarksAssumption DEF DayMarks
    <3> QED
      BY <1>1, <1>3, <2>1, <3>1 DEF Rained, DayMarks
  <2>2. CASE ~(reports[i].rain > 0 /\ i > trend.key)
    BY <1>1, <1>3, <2>2 DEF Rained, DayMarks
  <2> QED
    BY <2>1, <2>2
<1>5. Observed(m, i) = x
  BY DEF Observed, x, trend, warm
<1> QED
  BY <1>2, <1>3, <1>4, <1>5

LEMMA ObservedSound ==
  ASSUME WatermarksTypeOK, NEW d \in Days, NEW m \in DayMarks, m.rain <= m.key,
         SoundMark(d, m), NEW i \in 1..Len(reports), reports' = reports, Grows,
         readOn'[d] = readOn[d] \cup {i}, NEW x \in DayMarks, x = Observed(m, i)
  PROVE  SoundMark(d, x)' /\ (m.high # 0 \/ x.high # 0 => Read(d, x.high)')
<1>1. /\ x.rain <= x.key /\ x.obs = i
      /\ x.high = m.high \/ x.high = reports[i].temp
      /\ (x.from = m.from /\ x.to = m.to) \/ (m.obs # 0 /\ i > m.obs /\ x.from = m.obs /\ x.to = i)
      /\ \/ x.rain = m.rain /\ x.key = m.key
         \/ x.rain = m.rain + 1 /\ x.key = i /\ i > m.key /\ reports[i].rain = 1
  BY ObservedFields
<1>2. SoundMark(d, m)'
  BY SoundGrows
<1>3. Read(d, x.high)'
  BY <1>1, <1>2 DEF Read, SoundMark
<1>4. x.to # 0 => x.from < x.to /\ {x.from, x.to} \subseteq readOn'[d]
  BY <1>1, <1>2 DEF SoundMark
<1>5. x.rain <= RainOf({j \in readOn[d] : j <= x.key})'
  <2>1. CASE x.rain = m.rain /\ x.key = m.key
    BY <1>2, <2>1 DEF SoundMark
  <2>2. CASE x.rain = m.rain + 1 /\ x.key = i /\ i > m.key /\ reports[i].rain = 1
    <3> DEFINE S == {j \in {j \in readOn[d] : j <= m.key} : reports[j].rain = 1}
               T == {j \in {j \in readOn'[d] : j <= x.key} : reports'[j].rain = 1}
    <3>1. /\ readOn[d] \in SUBSET (1..Len(reports)) /\ Len(reports) \in Nat
          /\ m.key \in Nat /\ m.rain \in Nat
      BY WatermarksAssumption DEF WatermarksTypeOK, DayMarks
    <3>2. T \in SUBSET (1..Len(reports)) /\ S \in SUBSET T /\ i \in T \ S
      BY <2>2, <3>1
    <3>3. m.rain <= Cardinality(S)
      BY DEF SoundMark, RainOf
    <3> HIDE DEF S, T
    <3>4. Cardinality(S) + 1 <= Cardinality(T) /\ Cardinality(S) \in Nat /\ Cardinality(T) \in Nat
      BY <3>1, <3>2, CountsOneMore, Counts
    <3>5. x.rain <= Cardinality(T)
      BY <2>2, <3>1, <3>3, <3>4
    <3> QED
      BY <3>5 DEF RainOf, T
  <2> QED
    BY <1>1, <2>1, <2>2
<1> QED
  BY <1>1, <1>3, <1>4, <1>5 DEF SoundMark

-----------------------------------------------------------------------------
(* Steps that only move dictionaries, files and payloads about.            *)

OldMarks    == {marks, NoMarks} \cup {writer[w].marks : w \in Writers}
OldPayloads == {shown, saved, carried, NoRecord, NoIntraday}
Busts == [day: Days, on: Days, high: Temps]

LEMMA NoMarksSound ==
  /\ NoMark \in DayMarks /\ NoMarks \in Marks /\ RainWithinKey(NoMarks)
  /\ WatermarksTypeOK => SoundMarks(NoMarks)
  /\ Down \in Threads /\ {NoIntraday, NoRecord} \subseteq Payloads
  /\ SoundPayload(NoIntraday) /\ SoundPayload(NoRecord)
<1>1. 0 \in 0..MaxReports /\ 0 \in Temps \cup {0}
  BY WatermarksAssumption
<1>2. NoMark \in DayMarks /\ NoMarks \in Marks /\ RainWithinKey(NoMarks)
  BY <1>1 DEF NoMark, NoMarks, DayMarks, Marks, RainWithinKey
<1>3. Down \in Threads /\ {NoIntraday, NoRecord} \subseteq Payloads
  BY <1>2 DEF Down, Threads, Payloads
<1>4. SoundPayload(NoIntraday) /\ SoundPayload(NoRecord)
  BY DEF SoundPayload, NoIntraday, NoRecord, Payload
<1>5. ASSUME WatermarksTypeOK PROVE SoundMarks(NoMarks)
  <2> SUFFICES ASSUME NEW d \in Days PROVE SoundMark(d, NoMark)
    BY DEF SoundMarks, NoMarks
  <2> DEFINE S == {i \in {i \in readOn[d] : i <= 0} : reports[i].rain = 1}
  <2>1. readOn[d] \in SUBSET (1..Len(reports)) /\ Len(reports) \in Nat
    BY <1>5 DEF WatermarksTypeOK
  <2>2. Cardinality(S) \in Nat
    BY <2>1, Counts
  <2> HIDE DEF S
  <2>3. 0 <= Cardinality(S)
    BY <2>2
  <2> QED
    BY <2>3 DEF SoundMark, Read, RainOf, NoMark, S
<1> QED
  BY <1>2, <1>3, <1>4, <1>5

LEMMA OldMarksStay ==
  ASSUME WatermarksInd, Grows, NEW f \in OldMarks
  PROVE  f \in Marks /\ SoundMarks(f)' /\ RainWithinKey(f)
<1>1. f \in Marks /\ SoundMarks(f) /\ RainWithinKey(f)
  BY NoMarksSound DEF OldMarks, WatermarksInd, WatermarksTypeOK, WatermarksAreObserved, Threads
<1> QED
  BY <1>1, SoundMarksGrow

LEMMA OldPayloadsStay ==
  ASSUME WatermarksInd, Grows, NEW p \in OldPayloads
  PROVE  p \in Payloads /\ SoundPayload(p)'
<1>1. p \in Payloads /\ SoundPayload(p)
  BY NoMarksSound DEF OldPayloads, WatermarksInd, WatermarksTypeOK, WatermarksAreObserved
<1> QED
  BY <1>1, SoundPayloadGrows

LEMMA KeepsInd ==
  ASSUME WatermarksInd, Grows, today' \in Days, Len(reports') <= MaxReports,
         deaths' \in 0..MaxDeaths, marks' \in OldMarks,
         writer' \in [Writers -> Threads],
         \A w \in Writers : \/ writer'[w].marks \in OldMarks
                            \/ SoundMarks(writer[w].marks)' /\ RainWithinKey(writer[w].marks)',
         shown' \in OldPayloads \/ (shown' \in Payloads /\ SoundPayload(shown)'),
         saved' \in OldPayloads, carried' \in OldPayloads,
         busts' \subseteq Busts, \A b \in busts' : b \in busts \/ Read(b.on, b.high)
  PROVE  WatermarksInd'
<1>1. marks' \in Marks /\ SoundMarks(marks)' /\ RainWithinKey(marks)'
  <2>1. PICK f \in OldMarks : f = marks'
    OBVIOUS
  <2> QED
    BY <2>1, OldMarksStay DEF SoundMarks, RainWithinKey
<1>2. \A w \in Writers : SoundMarks(writer[w].marks)' /\ RainWithinKey(writer[w].marks)'
  <2> SUFFICES ASSUME NEW w \in Writers, writer'[w].marks \in OldMarks
               PROVE  SoundMarks(writer[w].marks)' /\ RainWithinKey(writer[w].marks)'
    OBVIOUS
  <2>1. PICK f \in OldMarks : f = writer'[w].marks
    OBVIOUS
  <2> QED
    BY <2>1, OldMarksStay DEF SoundMarks, RainWithinKey
<1>3. /\ {shown', saved', carried'} \subseteq Payloads
      /\ SoundPayload(shown)' /\ SoundPayload(saved)' /\ SoundPayload(carried)'
  <2>1. \A p \in OldPayloads : p \in Payloads /\ SoundPayload(p)'
    BY OldPayloadsStay
  <2> QED
    BY <2>1 DEF SoundPayload
<1>4. \A b \in busts' : Read(b.on, b.high)'
  <2> SUFFICES ASSUME NEW b \in busts' PROVE Read(b.on, b.high)'
    OBVIOUS
  <2>1. Read(b.on, b.high) /\ b.on \in Days
    BY DEF WatermarksInd, WatermarksAreObserved, Busts
  <2>2. /\ readOn[b.on] \subseteq readOn'[b.on] /\ readOn[b.on] \subseteq 1..Len(reports)
        /\ \A i \in readOn[b.on] : reports'[i] = reports[i]
    BY <2>1 DEF Grows, WatermarksTypeOK
  <2> QED
    BY <2>1, <2>2 DEF Read
<1>5. WatermarksTypeOK'
  BY <1>1, <1>3 DEF WatermarksTypeOK, Grows, Busts
<1> QED
  BY <1>1, <1>2, <1>3, <1>4, <1>5 DEF WatermarksInd, WatermarksAreObserved

-----------------------------------------------------------------------------
(* The steps.                                                              *)

LEMMA WorldKeepsInd ==
  ASSUME WatermarksInd, \/ \E temp \in Temps, rain \in {0, 1} : Report(temp, rain)
              \/ DayTurns
  PROVE  WatermarksInd'
<1>1. /\ WatermarksTypeOK /\ writer \in [Writers -> Threads]
      /\ today \in Days /\ deaths \in 0..MaxDeaths /\ busts \subseteq Busts
      /\ Len(reports) <= MaxReports
  BY DEF WatermarksInd, WatermarksTypeOK, Busts
<1>2. /\ marks \in OldMarks /\ \A w \in Writers : writer[w].marks \in OldMarks
      /\ {shown, saved, carried} \subseteq OldPayloads
  BY DEF OldMarks, OldPayloads
<1>3. CASE DayTurns
  <2>1. Grows /\ today' \in Days
    <3>1. today' \in Days
      BY <1>1, <1>3, WatermarksAssumption DEF DayTurns, Days
    <3> QED
      BY <1>1, <1>3, <3>1, Stays DEF DayTurns
  <2> QED
    BY <1>1, <1>2, <1>3, <2>1, KeepsInd DEF DayTurns
<1>4. ASSUME NEW temp \in Temps, NEW rain \in {0, 1}, Report(temp, rain) PROVE WatermarksInd'
  <2>1. /\ reports' = Append(reports, [temp |-> temp, rain |-> rain])
        /\ Len(reports) < MaxReports
        /\ UNCHANGED <<today, marks, writer, shown, saved, carried, readOn, busts, deaths>>
    BY <1>4 DEF Report
  <2> DEFINE R == [temp: Temps, rain: {0, 1}]
             r == [temp |-> temp, rain |-> rain]
  <2>2. reports \in Seq(R) /\ r \in R
    BY <1>1 DEF WatermarksTypeOK
  <2> HIDE DEF R, r
  <2>3. /\ Append(reports, r) \in Seq(R) /\ Len(Append(reports, r)) = Len(reports) + 1
        /\ Len(reports) \in Nat
        /\ \A i \in 1..Len(reports) : Append(reports, r)[i] = reports[i]
    BY <2>2
  <2>4. reports' = Append(reports, r)
    BY <2>1 DEF r
  <2>5. Len(reports) <= Len(reports') /\ Len(reports') <= MaxReports
    BY <2>1, <2>3, <2>4, WatermarksAssumption
  <2>6. Grows
    <3>1. readOn \in [Days -> SUBSET (1..Len(reports'))]
      <4>1. 1..Len(reports) \subseteq 1..Len(reports')
        BY <2>3, <2>4
      <4> QED
        BY <1>1, <4>1 DEF WatermarksTypeOK
    <3>2. reports' \in Seq([temp: Temps, rain: {0, 1}])
      BY <2>3, <2>4 DEF R
    <3> QED
      BY <1>1, <2>1, <2>3, <2>4, <2>5, <3>1, <3>2 DEF Grows
  <2> QED
    BY <1>1, <1>2, <2>1, <2>5, <2>6, KeepsInd
<1> QED
  BY <1>3, <1>4

LEMMA RearrangingKeepsInd ==
  ASSUME WatermarksInd, NEW w \in Writers,
         \/ Begin(w) \/ OpenMarks(w) \/ CloseMarks(w) \/ LeaveOut
         \/ BeginForecast \/ EndForecast \/ DropForecast \/ LoadSnapshot \/ WatermarksDie
  PROVE  WatermarksInd'
<1>1. /\ WatermarksTypeOK /\ writer \in [Writers -> Threads]
      /\ today \in Days /\ deaths \in 0..MaxDeaths /\ busts \subseteq Busts
      /\ Len(reports) <= MaxReports
  BY DEF WatermarksInd, WatermarksTypeOK, Busts
<1>2. /\ {marks, NoMarks} \subseteq OldMarks /\ \A v \in Writers : writer[v].marks \in OldMarks
      /\ {shown, saved, carried, NoRecord, NoIntraday} \subseteq OldPayloads
      /\ Down.marks = NoMarks /\ NoCopy = NoRecord
  BY DEF OldMarks, OldPayloads, Down, NoCopy
<1>3. marks \in Marks /\ Down \in Threads /\ "main" \in Writers /\ "monitor" \in Writers
  BY <1>1, NoMarksSound DEF WatermarksTypeOK, Writers
<1>4. UNCHANGED <<today, reports, readOn, busts>> /\ Grows
  <2>1. UNCHANGED <<today, reports, readOn, busts>>
    BY DEF Begin, OpenMarks, CloseMarks, LeaveOut, BeginForecast, EndForecast,
           DropForecast, LoadSnapshot, WatermarksDie
  <2> QED
    BY <1>1, <2>1, Stays
<1>5. deaths' \in 0..MaxDeaths
  BY <1>1, WatermarksAssumption
  DEF Begin, OpenMarks, CloseMarks, LeaveOut, BeginForecast, EndForecast,
      DropForecast, LoadSnapshot, WatermarksDie
<1>6. marks' \in OldMarks
  BY <1>2 DEF Begin, OpenMarks, CloseMarks, LeaveOut, BeginForecast, EndForecast,
              DropForecast, LoadSnapshot, WatermarksDie
<1>7. {shown', saved', carried'} \subseteq OldPayloads
  BY <1>2 DEF Begin, OpenMarks, CloseMarks, LeaveOut, BeginForecast, EndForecast,
              DropForecast, LoadSnapshot, WatermarksDie
<1>8. writer' \in [Writers -> Threads] /\ \A v \in Writers : writer'[v].marks \in OldMarks
  <2>1. CASE Begin(w)
    <3> DEFINE f == IF writer[w].at = "down" THEN marks ELSE writer[w].marks
    <3>1. f \in Marks /\ f \in OldMarks
      BY <1>1, <1>2, <1>3 DEF Threads
    <3> HIDE DEF f
    <3>2. writer' = [writer EXCEPT ![w] = [at |-> "fetching", fed |-> FALSE, marks |-> f]]
      BY <2>1 DEF Begin, f
    <3>3. [at |-> "fetching", fed |-> FALSE, marks |-> f] \in Threads
      BY <3>1 DEF Threads
    <3> QED
      BY <1>1, <1>2, <3>1, <3>2, <3>3
  <2>2. CASE OpenMarks(w)
    <3>1. \A v \in Writers : \/ writer'[v] = writer[v]
                             \/ \E at \in {"writing", "clashing"} : writer'[v] = [writer[v] EXCEPT !.at = at]
      BY <2>2 DEF OpenMarks
    <3>2. writer' = [v \in Writers |-> writer'[v]]
      BY <2>2 DEF OpenMarks
    <3>3. ASSUME NEW v \in Writers
          PROVE  writer'[v] \in Threads /\ writer'[v].marks = writer[v].marks
      <4>1. writer[v] \in Threads
        BY <1>1
      <4>2. ASSUME NEW at \in {"writing", "clashing"}
            PROVE  [writer[v] EXCEPT !.at = at] \in Threads
                   /\ [writer[v] EXCEPT !.at = at].marks = writer[v].marks
        BY <4>1 DEF Threads
      <4> QED
        BY <3>1, <4>1, <4>2
    <3> QED
      BY <1>2, <3>2, <3>3
  <2>3. CASE CloseMarks(w)
    <3>1. \/ writer' = [writer EXCEPT ![w] = Down]
          \/ writer' = [writer EXCEPT ![w] = [writer[w] EXCEPT !.at = "idle", !.fed = FALSE]]
      BY <2>3 DEF CloseMarks
    <3>2. writer[w] \in Threads
      BY <1>1
    <3>3. [writer[w] EXCEPT !.at = "idle", !.fed = FALSE] \in Threads
          /\ [writer[w] EXCEPT !.at = "idle", !.fed = FALSE].marks = writer[w].marks
      BY <3>2 DEF Threads
    <3> QED
      BY <1>1, <1>2, <1>3, <3>1, <3>3
  <2>4. CASE LeaveOut
    <3>1. writer' = [writer EXCEPT !["main"] = [writer["main"] EXCEPT !.at = "observed"]]
      BY <2>4 DEF LeaveOut
    <3>2. [writer["main"] EXCEPT !.at = "observed"] \in Threads
          /\ [writer["main"] EXCEPT !.at = "observed"].marks = writer["main"].marks
      BY <1>1, <1>3 DEF Threads
    <3> QED
      BY <1>1, <1>2, <1>3, <3>1, <3>2
  <2>5. CASE WatermarksDie
    BY <1>2, <1>3, <2>5 DEF WatermarksDie
  <2>6. CASE UNCHANGED writer
    BY <1>1, <1>2, <2>6
  <2> QED
    BY <2>1, <2>2, <2>3, <2>4, <2>5, <2>6
    DEF BeginForecast, EndForecast, DropForecast, LoadSnapshot
<1> QED
  BY <1>1, <1>4, <1>5, <1>6, <1>7, <1>8, KeepsInd

LEMMA BustKeepsInd ==
  ASSUME WatermarksInd, NEW d \in Days, BustExit(d)
  PROVE  WatermarksInd'
<1>1. /\ WatermarksTypeOK /\ writer \in [Writers -> Threads]
      /\ today \in Days /\ deaths \in 0..MaxDeaths /\ busts \subseteq Busts
      /\ Len(reports) <= MaxReports
  BY DEF WatermarksInd, WatermarksTypeOK, Busts
<1>2. /\ marks \in OldMarks /\ \A v \in Writers : writer[v].marks \in OldMarks
      /\ {shown, saved, carried} \subseteq OldPayloads
  BY DEF OldMarks, OldPayloads
<1>3. UNCHANGED <<today, reports, marks, writer, shown, saved, carried, readOn, deaths>>
  BY DEF BustExit
<1>4. Grows
  BY <1>1, <1>3, Stays
<1> DEFINE b == [day |-> d, on |-> IntradayOf(d).day, high |-> IntradayOf(d).high]
<1>5. busts' = busts \cup {b} /\ IntradayOf(d).high >= Ceiling
  BY DEF BustExit
<1>6. IntradayOf(d) = shown /\ shown.day \in Days /\ shown.high \in Temps /\ shown.high # 0
  <2>1. Ceiling > 0
    BY WatermarksAssumption
  <2>2. IntradayOf(d) = shown /\ shown # NoRecord /\ shown # NoIntraday
    <3>1. NoIntraday.high = 0 /\ ~(0 >= Ceiling)
      BY <2>1, WatermarksAssumption DEF NoIntraday, Payload
    <3>2. IntradayOf(d) # NoIntraday
      BY <1>5, <3>1
    <3> QED
      BY <3>2 DEF IntradayOf
  <2>3. shown \in [day: Days, high: Temps \cup {0}, rain: 0..MaxReports]
    BY <1>1, <2>2 DEF WatermarksTypeOK, Payloads
  <2>4. shown.high >= Ceiling
    BY <1>5, <2>2
  <2>5. shown.day \in Days /\ shown.high \in Temps \cup {0}
    BY <2>3
  <2> QED
    BY <2>1, <2>2, <2>4, <2>5, WatermarksAssumption
<1>7. Read(shown.day, shown.high)
  BY <1>6, WatermarksAssumption DEF WatermarksInd, WatermarksAreObserved, SoundPayload, Days
<1>8. b \in Busts /\ Read(b.on, b.high)
  BY <1>6, <1>7 DEF Busts
<1> HIDE DEF b
<1> QED
  BY <1>1, <1>2, <1>3, <1>4, <1>5, <1>8, KeepsInd

\* what a dictionary says of a day becomes a payload
LEMMA PayloadOfMark ==
  ASSUME WatermarksInd, Grows, today \in Days, NEW m \in DayMarks, m.rain <= m.key,
         Read(today, m.high)', m.rain <= RainOf({i \in readOn[today] : i <= m.key})',
         UNCHANGED today,
         shown' = Payload(today, m.high, m.rain) \/ shown' = Payload(today, m.high, 0)
  PROVE  shown' \in Payloads /\ SoundPayload(shown)'
<1>1. PICK r \in 0..MaxReports : r <= m.rain /\ shown' = Payload(today, m.high, r)
  BY WatermarksAssumption DEF DayMarks
<1>2. shown' \in Payloads
  BY <1>1 DEF Payloads, Payload, DayMarks
<1>3. /\ shown'.day = today /\ shown'.high = m.high /\ shown'.rain = r
  BY <1>1 DEF Payload
<1>4. PICK d \in Days : d = today
  OBVIOUS
<1>5. r <= RainOf(readOn[d])'
  <2>1. PICK k \in Int : k = m.key
    BY DEF DayMarks
  <2>2. m.rain <= RainOf({i \in readOn[d] : i <= k})'
    BY <1>4, <2>1
  <2> DEFINE S == {j \in {j \in readOn'[d] : j <= k} : reports'[j].rain = 1}
             T == {j \in readOn'[d] : reports'[j].rain = 1}
  <2>3. readOn'[d] \in SUBSET (1..Len(reports')) /\ Len(reports') \in Nat
    BY DEF Grows
  <2>4. T \in SUBSET (1..Len(reports')) /\ S \in SUBSET T
    BY <2>3
  <2>5. m.rain <= Cardinality(S)
    BY <2>2 DEF RainOf
  <2> HIDE DEF S, T
  <2>6. Cardinality(S) <= Cardinality(T) /\ Cardinality(S) \in Nat /\ Cardinality(T) \in Nat
    BY <2>3, <2>4, Counts
  <2>7. m.rain \in Nat
    BY WatermarksAssumption DEF DayMarks
  <2>8. r <= Cardinality(T)
    BY <1>1, <2>5, <2>6, <2>7, WatermarksAssumption
  <2> QED
    BY <2>8 DEF RainOf, T
<1> QED
  BY <1>2, <1>3, <1>4, <1>5 DEF SoundPayload

LEMMA ObserveKeepsInd ==
  ASSUME WatermarksInd, NEW w \in Writers, NEW i \in Ids, Observe(w, i)
  PROVE  WatermarksInd'
<1>1. /\ WatermarksTypeOK /\ writer \in [Writers -> Threads]
      /\ today \in Days /\ deaths \in 0..MaxDeaths /\ busts \subseteq Busts
      /\ Len(reports) <= MaxReports /\ Len(reports) \in Nat
      /\ readOn \in [Days -> SUBSET (1..Len(reports))]
      /\ reports \in Seq([temp: Temps, rain: {0, 1}])
  BY LenProperties DEF WatermarksInd, WatermarksTypeOK, Busts
<1>2. /\ marks \in OldMarks /\ \A v \in Writers : writer[v].marks \in OldMarks
      /\ {shown, saved, carried} \subseteq OldPayloads
  BY DEF OldMarks, OldPayloads
<1> DEFINE f == writer[w].marks
<1>3. /\ f \in Marks /\ SoundMarks(f) /\ RainWithinKey(f)
  BY <1>1 DEF WatermarksInd, WatermarksAreObserved, Threads
<1> DEFINE m == f[today]
           x == Observed(m, i)
           g == [f EXCEPT ![today] = x]
           fed == w = "main" \/ shown # NoRecord
<1>4. /\ i \in 1..Len(reports)
      /\ writer' = [writer EXCEPT ![w] = [at |-> "observed", marks |-> g, fed |-> fed]]
      /\ shown' = IF fed THEN Payload(today, x.high, x.rain) ELSE shown
      /\ readOn' = [readOn EXCEPT ![today] = readOn[today] \cup {i}]
      /\ UNCHANGED <<today, reports, marks, saved, carried, busts, deaths>>
  BY <1>1 DEF Observe, KeyOfDay, Reported, Ids
<1>5. m \in DayMarks /\ m.rain <= m.key /\ SoundMark(today, m)
  BY <1>1, <1>3 DEF Marks, SoundMarks, RainWithinKey
<1>6. x \in DayMarks /\ x.rain <= x.key
  BY <1>1, <1>4, <1>5, ObservedFields
<1>7. g \in Marks /\ g[today] = x /\ \A d \in Days \ {today} : g[d] = f[d]
  BY <1>1, <1>3, <1>6 DEF Marks
<1>8. Grows /\ readOn'[today] = readOn[today] \cup {i}
  <2>1. readOn' \in [Days -> SUBSET (1..Len(reports))]
        /\ \A d \in Days : readOn[d] \subseteq readOn'[d]
    BY <1>1, <1>4
  <2> QED
    BY <1>1, <1>4, <2>1 DEF Grows
<1>9. PICK n \in DayMarks, y \in DayMarks, d \in Days, h \in Marks, e \in Marks :
        n = m /\ y = x /\ d = today /\ h = g /\ e = f
  BY <1>1, <1>3, <1>5, <1>6, <1>7
<1>10. SoundMark(d, y)'
  BY <1>1, <1>4, <1>5, <1>8, <1>9, ObservedSound
<1>11. SoundMarks(h)'
  <2>1. SoundMarks(e)'
    BY <1>3, <1>8, <1>9, SoundMarksGrow
  <2>2. h[d] = y /\ \A c \in Days \ {d} : h[c] = e[c]
    BY <1>7, <1>9
  <2> QED
    BY <1>10, <2>1, <2>2 DEF SoundMarks
<1>12. RainWithinKey(h)
  BY <1>3, <1>6, <1>7, <1>9 DEF RainWithinKey
<1>13. writer' \in [Writers -> Threads] /\ writer'[w].marks = h
       /\ \A v \in Writers \ {w} : writer'[v].marks = writer[v].marks
  <2>1. [at |-> "observed", marks |-> h, fed |-> fed] \in Threads
    BY DEF Threads
  <2> HIDE DEF fed
  <2> QED
    BY <1>1, <1>4, <1>9, <2>1
<1>14. \A v \in Writers : \/ writer'[v].marks \in OldMarks
                          \/ SoundMarks(writer[v].marks)' /\ RainWithinKey(writer[v].marks)'
  BY <1>2, <1>11, <1>12, <1>13 DEF SoundMarks, RainWithinKey
<1>15. shown' \in OldPayloads \/ (shown' \in Payloads /\ SoundPayload(shown)')
  <2>1. CASE ~fed
    BY <1>2, <1>4, <2>1
  <2>2. CASE fed
    <3>1. shown' = Payload(today, y.high, y.rain) /\ today' = today
      BY <1>4, <1>9, <2>2
    <3>2. Read(today, y.high)' /\ y.rain <= RainOf({j \in readOn[today] : j <= y.key})'
      BY <1>4, <1>9, <1>10, <3>1 DEF SoundMark
    <3>3. y.rain <= y.key
      BY <1>6, <1>9
    <3> QED
      BY <1>1, <1>8, <3>1, <3>2, <3>3, PayloadOfMark
  <2> QED
    BY <2>1, <2>2
<1> QED
  BY <1>1, <1>2, <1>4, <1>8, <1>13, <1>14, <1>15, KeepsInd

LEMMA ObserveNothingKeepsInd ==
  ASSUME WatermarksInd, NEW w \in Writers, ObserveNothing(w)
  PROVE  WatermarksInd'
<1>1. /\ WatermarksTypeOK /\ writer \in [Writers -> Threads]
      /\ today \in Days /\ deaths \in 0..MaxDeaths /\ busts \subseteq Busts
      /\ Len(reports) <= MaxReports
  BY DEF WatermarksInd, WatermarksTypeOK, Busts
<1>2. /\ marks \in OldMarks /\ \A v \in Writers : writer[v].marks \in OldMarks
      /\ {shown, saved, carried} \subseteq OldPayloads
  BY DEF OldMarks, OldPayloads
<1> DEFINE fed == w = "main" \/ shown # NoRecord
<1>3. /\ writer' = [writer EXCEPT ![w] = [writer[w] EXCEPT !.at = "observed", !.fed = fed]]
      /\ shown' = IF fed THEN Payload(today, writer[w].marks[today].high, 0) ELSE shown
      /\ UNCHANGED <<today, reports, marks, saved, carried, readOn, busts, deaths>>
  BY <1>1 DEF ObserveNothing, KeyOfDay, Threads
<1>4. Grows
  BY <1>1, <1>3, Stays
<1>5. writer' \in [Writers -> Threads] /\ \A v \in Writers : writer'[v].marks = writer[v].marks
  <2>1. writer[w] \in Threads /\ fed \in BOOLEAN
    BY <1>1
  <2> HIDE DEF fed
  <2>2. [writer[w] EXCEPT !.at = "observed", !.fed = fed] \in Threads
        /\ [writer[w] EXCEPT !.at = "observed", !.fed = fed].marks = writer[w].marks
    BY <2>1 DEF Threads
  <2> QED
    BY <1>1, <1>3, <2>2
<1>6. shown' \in OldPayloads \/ (shown' \in Payloads /\ SoundPayload(shown)')
  <2>1. CASE ~fed
    BY <1>2, <1>3, <2>1
  <2>2. CASE fed
    <3>1. PICK m \in DayMarks, d \in Days : m = writer[w].marks[today] /\ d = today
      BY <1>1 DEF Threads, Marks
    <3>2. m.rain <= m.key /\ SoundMark(d, m)
      BY <3>1 DEF WatermarksInd, WatermarksAreObserved, SoundMarks, RainWithinKey
    <3>3. SoundMark(d, m)'
      BY <1>4, <3>2, SoundGrows
    <3>4. shown' = Payload(today, m.high, 0) /\ today' = today
      BY <1>3, <2>2, <3>1
    <3>5. Read(today, m.high)' /\ m.rain <= RainOf({j \in readOn[today] : j <= m.key})'
      BY <3>1, <3>3, <3>4 DEF SoundMark
    <3> QED
      BY <1>1, <1>4, <3>2, <3>4, <3>5, PayloadOfMark
  <2> QED
    BY <2>1, <2>2
<1> QED
  BY <1>1, <1>2, <1>3, <1>4, <1>5, <1>6, KeepsInd

-----------------------------------------------------------------------------
(* The theorems.                                                           *)

LEMMA WatermarksInitInd == WatermarksInit => WatermarksInd
<1> SUFFICES ASSUME WatermarksInit PROVE WatermarksInd
  OBVIOUS
<1>1. 1 \in Days /\ 0 \in 0..MaxDeaths /\ 0 <= MaxReports
  BY WatermarksAssumption DEF Days
<1>2. <<>> \in Seq([temp: Temps, rain: {0, 1}]) /\ Len(<<>>) = 0
  OBVIOUS
<1>3. WatermarksTypeOK
  BY <1>1, <1>2, NoMarksSound DEF WatermarksInit, WatermarksTypeOK, NoCopy
<1> QED
  BY <1>3, NoMarksSound DEF WatermarksInit, WatermarksInd, WatermarksAreObserved, Down, NoCopy

LEMMA WatermarksStepInd ==
  WatermarksInd /\ [WatermarksNext]_watermarksVars => WatermarksInd'
<1> SUFFICES ASSUME WatermarksInd, [WatermarksNext]_watermarksVars PROVE WatermarksInd'
  OBVIOUS
<1>1. CASE UNCHANGED watermarksVars
  BY <1>1 DEF watermarksVars, WatermarksInd, WatermarksTypeOK, WatermarksAreObserved, SoundMarks,
     SoundMark, SoundPayload, Read, RainOf, RainWithinKey
<1>2. CASE DayTurns \/ \E temp \in Temps, rain \in {0, 1} : Report(temp, rain)
  BY <1>2, WorldKeepsInd
<1>3. ASSUME NEW w \in Writers, Begin(w) \/ OpenMarks(w) \/ CloseMarks(w) PROVE WatermarksInd'
  BY <1>3, RearrangingKeepsInd
<1>4. ASSUME NEW w \in Writers, ObserveNothing(w) PROVE WatermarksInd'
  BY <1>4, ObserveNothingKeepsInd
<1>5. ASSUME NEW w \in Writers, NEW i \in Ids, Observe(w, i) PROVE WatermarksInd'
  BY <1>5, ObserveKeepsInd
<1>6. CASE LeaveOut \/ BeginForecast \/ EndForecast \/ DropForecast \/ LoadSnapshot
           \/ WatermarksDie
  <2>1. "main" \in Writers
    BY DEF Writers
  <2> QED
    BY <1>6, <2>1, RearrangingKeepsInd
<1>7. ASSUME NEW d \in Days, BustExit(d) PROVE WatermarksInd'
  BY <1>7, BustKeepsInd
<1> QED
  BY <1>1, <1>2, <1>3, <1>4, <1>5, <1>6, <1>7 DEF WatermarksNext

(* The watermark file, the threads' dictionaries, the payloads and the     *)
(* snapshot are always what WatermarksInd says, whichever thread moves.    *)
THEOREM WatermarksInvariant == WatermarksSpec => []WatermarksInd
BY WatermarksInitInd, WatermarksStepInd, PTL DEF WatermarksSpec

(* Every variable of the weather's observations keeps its type: highs are  *)
(* temperatures, and no more wet hours are counted than there were reports. *)
THEOREM WatermarksTypes == WatermarksSpec => []WatermarksTypeOK
<1>1. WatermarksInd => WatermarksTypeOK
  BY DEF WatermarksInd
<1> QED
  BY <1>1, WatermarksInvariant, PTL

(* Whatever _intraday_payload, _persist_watermarks and the loops around    *)
(* them overwrite, tear or carry along: what they keep was observed on its *)
(* day, and no rain twice.                                                 *)
THEOREM WatermarksObserved == WatermarksSpec => []WatermarksAreObserved
<1>1. WatermarksInd => WatermarksAreObserved
  BY DEF WatermarksInd
<1> QED
  BY <1>1, WatermarksInvariant, PTL

-----------------------------------------------------------------------------
(* Contracts.                                                              *)

Resolutions == [side : {"open", "YES", "NO"}, by : Readings \cup {Unseen}]

\* a resolution is what its reading says of a contract that can be read
AsRead(r, row) ==
  row # Untold =>
    row.by \in Readings /\ row.side = Side(r, row.by) /\ Semantics(r) # Ambiguous
ToldAsRead == \A r \in Rungs : AsRead(r, told[r])

ContractsInd == ContractsTypeOK /\ ToldAsRead

LEMMA ContractsInitInd == ContractsInit => ContractsInd
<1> SUFFICES ASSUME ContractsInit PROVE ContractsInd
  OBVIOUS
<1>1. Untold \in Resolutions /\ 0 \in 0..MaxRises
  BY ContractsAssumption DEF Untold, Resolutions
<1>2. ContractsTypeOK
  BY <1>1 DEF ContractsInit, ContractsTypeOK, Resolutions
<1> QED
  BY <1>2 DEF ContractsInit, ContractsInd, ToldAsRead, AsRead

LEMMA ContractsStepInd == ContractsInd /\ [ContractsNext]_contractsVars => ContractsInd'
<1> SUFFICES ASSUME ContractsInd, [ContractsNext]_contractsVars PROVE ContractsInd'
  OBVIOUS
<1>1. /\ told \in [Rungs -> Resolutions] /\ titled \in BOOLEAN /\ Unseen \notin Readings
      /\ {watermark, report, archive, cached} \subseteq Readings \cup {Unseen}
  BY ContractsAssumption DEF ContractsInd, ContractsTypeOK, Resolutions
<1>2. titled' = titled
  BY DEF ContractsNext, DeadlinePasses, DayEnds, CacheExpires, SourceShows, SyncRow,
     contractsVars
<1>3. ASSUME told' = told PROVE ToldAsRead'
  BY <1>2, <1>3 DEF ContractsInd, ToldAsRead, AsRead, Side, Semantics
<1>4. CASE DeadlinePasses \/ DayEnds \/ CacheExpires \/ UNCHANGED contractsVars
  <2>1. told' = told /\ ContractsTypeOK'
    BY <1>4 DEF DeadlinePasses, DayEnds, CacheExpires, contractsVars, ContractsInd,
       ContractsTypeOK
  <2> QED
    BY <1>3, <2>1 DEF ContractsInd
<1>5. ASSUME NEW v \in Readings, SourceShows(v) PROVE ContractsInd'
  <2>1. told' = told /\ rises' \in 0..MaxRises
    BY <1>5, ContractsAssumption DEF SourceShows, ContractsInd, ContractsTypeOK
  <2>2. ContractsTypeOK'
    BY <1>1, <1>5, <2>1 DEF SourceShows, ContractsInd, ContractsTypeOK
  <2> QED
    BY <1>3, <2>1, <2>2 DEF ContractsInd
<1>6. ASSUME NEW r \in Rungs, NEW unanswered \in SUBSET {"report", "archive"},
             SyncRow(r, unanswered)
      PROVE  ContractsInd'
  <2>1. PICK value : value = ObservedData(unanswered)
    OBVIOUS
  <2>2. value \in Readings
    BY <1>1, <1>6, <2>1 DEF SyncRow, ObservedData, Asked
  <2>3. PICK row : row = IF Semantics(r) = Ambiguous THEN Untold
                         ELSE [side |-> Side(r, value), by |-> value]
    OBVIOUS
  <2>4. /\ told' = [told EXCEPT ![r] = row] /\ cached' \in Readings \cup {Unseen}
        /\ UNCHANGED <<titled, due, past, watermark, report, archive, rises>>
    BY <1>1, <1>6, <2>1, <2>2, <2>3 DEF SyncRow
  <2>5. row \in Resolutions
    BY <2>2, <2>3 DEF Resolutions, Side, Untold
  <2>6. ContractsTypeOK'
    BY <1>1, <2>4, <2>5 DEF ContractsInd, ContractsTypeOK, Resolutions
  <2>7. AsRead(r, row)
    BY <2>2, <2>3 DEF AsRead
  <2>8. told'[r] = row /\ \A s \in Rungs \ {r} : told'[s] = told[s]
    BY <1>1, <2>4
  <2>9. ASSUME NEW s, NEW n, AsRead(s, n) PROVE AsRead(s, n)'
    BY <1>2, <2>9 DEF AsRead, Side, Semantics
  <2>10. ToldAsRead'
    <3> SUFFICES ASSUME NEW s \in Rungs, NEW n, n = told'[s] PROVE AsRead(s, n)'
      BY DEF ToldAsRead
    <3>1. AsRead(s, n)
      BY <2>7, <2>8 DEF ContractsInd, ToldAsRead
    <3> QED
      BY <2>9, <3>1
  <2> QED
    BY <2>6, <2>10 DEF ContractsInd
<1> QED
  BY <1>4, <1>5, <1>6 DEF ContractsNext

LEMMA ContractsInvariant == ContractsSpec => []ContractsInd
BY ContractsInitInd, ContractsStepInd, PTL DEF ContractsSpec

(* The sources, the cache and the rows hold readings, and nothing else.    *)
THEOREM ContractsTypes == ContractsSpec => []ContractsTypeOK
<1>1. ContractsInd => ContractsTypeOK
  BY DEF ContractsInd
<1> QED
  BY <1>1, ContractsInvariant, PTL

\* where the rungs lie, in half degrees
LEMMA RungsLie ==
  ASSUME NEW r \in Rungs, NEW value \in Int, Semantics(r) # Ambiguous
  PROVE  /\ r = 0 => (Satisfies(value, Semantics(r)) <=> value <= Edge)
         /\ r \in 1..Bins => (Satisfies(value, Semantics(r)) <=>
                                Edge + 4 * (r - 1) <= value /\ value < Edge + 4 * r)
         /\ r = Bins + 1 => (Satisfies(value, Semantics(r)) <=> Edge + 4 * Bins <= value)
<1>1. Bottom \in Int /\ Bins \in Nat /\ r \in Nat /\ r <= Bins + 1
  BY ContractsAssumption DEF Rungs
<1>2. CASE r \in 1..Bins
  <2>1. Semantics(r) = Between(LowOf(r), LowOf(r) + 1)
    BY <1>1, <1>2 DEF Semantics, Titled, FromTicker
  <2>2. /\ Semantics(r).is = "between"
        /\ Semantics(r).low = 2 * (Bottom + 2 * (r - 1)) - 1
        /\ Semantics(r).high = 2 * (Bottom + 2 * (r - 1) + 1) + 1
    BY <2>1 DEF Between, LowOf, Deg, HalfStep
  <2>3. Satisfies(value, Semantics(r)) <=>
          Semantics(r).low <= value /\ value < Semantics(r).high
    BY <2>2 DEF Satisfies
  <2> QED
    BY <1>1, <1>2, <2>2, <2>3 DEF Edge, Deg, HalfStep
<1>3. CASE r = 0
  <2>1. Semantics(r) = Below(Bottom)
    BY <1>1, <1>3 DEF Semantics, Titled, FromTicker
  <2>2. Semantics(r).is = "lt" /\ Semantics(r).limit = Edge
    BY <2>1 DEF Below, Edge
  <2>3. Satisfies(value, Semantics(r)) <=> value <= Semantics(r).limit
    BY <2>2 DEF Satisfies
  <2> QED
    BY <1>1, <1>3, <2>2, <2>3
<1>4. CASE r = Bins + 1
  <2>1. Semantics(r) = Above(LowOf(r) - 1)
    BY <1>1, <1>4 DEF Semantics, Titled, FromTicker
  <2>2. Semantics(r).is = "gt" /\ Semantics(r).limit = 2 * (LowOf(r) - 1) + 1
    BY <2>1 DEF Above, Deg, HalfStep
  <2>3. Satisfies(value, Semantics(r)) <=> value >= Semantics(r).limit
    BY <2>2 DEF Satisfies
  <2> QED
    BY <1>1, <1>4, <2>2, <2>3 DEF Edge, LowOf, Deg, HalfStep
<1> QED
  BY <1>1, <1>2, <1>3, <1>4

LEMMA AtMostTwo ==
  /\ \A S : (\A x, y \in S : x = y) => Cardinality(S) <= 1
  /\ \A S : S \subseteq {0, 1} => Cardinality(S) <= 2
<1>1. ASSUME NEW S, \A x, y \in S : x = y PROVE Cardinality(S) <= 1
  <2>1. CASE S = {}
    BY <2>1, FS_EmptySet
  <2>2. ASSUME NEW x \in S PROVE Cardinality(S) <= 1
    <3>1. S = {x}
      BY <1>1, <2>2
    <3> QED
      BY <3>1, FS_Singleton
  <2> QED
    BY <2>1, <2>2
<1>2. ASSUME NEW S, S \subseteq {0, 1} PROVE Cardinality(S) <= 2
  <2>1. IsFiniteSet({0}) /\ Cardinality({0}) = 1
    BY FS_Singleton
  <2>2. IsFiniteSet({0, 1}) /\ Cardinality({0, 1}) = 2
    <3>1. {0, 1} = {0} \cup {1} /\ 1 \notin {0}
      OBVIOUS
    <3>2. IsFiniteSet({0} \cup {1}) /\ Cardinality({0} \cup {1}) = Cardinality({0}) + 1
      BY <2>1, <3>1, FS_AddElement
    <3> QED
      BY <2>1, <3>1, <3>2
  <2>3. Cardinality(S) \in Nat /\ Cardinality(S) <= Cardinality({0, 1})
    BY <1>2, <2>2, FS_Subset, FS_CardinalityType
  <2> QED
    BY <2>2, <2>3
<1> QED
  BY <1>1, <1>2

(* Any ladder that weather_contracts parses, however many ranges it has:   *)
(* two contracts of it never both win on one reading off the lowest bound, *)
(* and when all of them have resolved on one reading, one has won.         *)
THEOREM LadderHasOneWinner == ContractsSpec => []OneRungWins
<1>1. ASSUME ContractsInd PROVE OneRungWins
  <2> SUFFICES ASSUME NEW value \in Readings
               PROVE  /\ Cardinality(Won(value)) <= (IF value = Edge THEN 2 ELSE 1)
                      /\ ToldBy(value) = Rungs => Won(value) # {}
    BY DEF OneRungWins
  <2>1. /\ Bottom \in Int /\ Bins \in Nat /\ value \in Int /\ value # Unseen /\ Edge \in Int
        /\ told \in [Rungs -> Resolutions]
    BY <1>1, ContractsAssumption DEF Edge, Deg, HalfStep, ContractsInd, ContractsTypeOK,
       Resolutions
  <2>2. ASSUME NEW r \in ToldBy(value)
        PROVE  /\ r \in Rungs /\ Semantics(r) # Ambiguous
               /\ told[r].side = "YES" <=> Satisfies(value, Semantics(r))
    <3>1. r \in Rungs /\ told[r] # Untold /\ told[r].by = value
      BY <2>1, <2>2 DEF ToldBy, Untold
    <3> QED
      BY <1>1, <3>1 DEF ContractsInd, ToldAsRead, AsRead, Side
  <2>3. ASSUME NEW r \in Won(value)
        PROVE  /\ r \in Rungs /\ r \in Nat /\ Satisfies(value, Semantics(r))
               /\ r = 0 => value <= Edge
               /\ r \in 1..Bins => Edge + 4 * (r - 1) <= value /\ value < Edge + 4 * r
               /\ r = Bins + 1 => Edge + 4 * Bins <= value
    <3>1. r \in ToldBy(value) /\ told[r].side = "YES"
      BY <2>3 DEF Won, ToldBy
    <3>2. r \in Rungs /\ r \in Nat /\ Semantics(r) # Ambiguous /\ Satisfies(value, Semantics(r))
      BY <2>2, <3>1 DEF Rungs
    <3> QED
      BY <2>1, <3>2, RungsLie
  <2>4. ASSUME NEW r \in Won(value), NEW s \in Won(value), r < s
        PROVE  value = Edge /\ r = 0 /\ s = 1
    <3>1. r \in Nat /\ s \in Nat /\ s <= Bins + 1
      BY <2>1, <2>3 DEF Rungs
    <3>2. value <= Edge + 4 * r
      BY <2>1, <2>3, <2>4, <3>1
    <3>3. Edge + 4 * (s - 1) <= value
      BY <2>1, <2>3, <2>4, <3>1
    <3>4. s = r + 1 /\ value = Edge + 4 * r
      BY <2>1, <2>4, <3>1, <3>2, <3>3
    <3>5. r = 0
      BY <2>1, <2>3, <2>4, <3>1, <3>4
    <3> QED
      BY <2>1, <3>4, <3>5
  <2>5. \A r \in Won(value) : r \in Nat
    BY <2>3
  <2>6. ToldBy(value) = Rungs => Won(value) # {}
    <3> SUFFICES ASSUME ToldBy(value) = Rungs PROVE \E r \in Rungs : r \in Won(value)
      OBVIOUS
    <3>1. \E r \in Rungs : Satisfies(value, Semantics(r))
      <4>1. /\ 0 \in Rungs /\ Bins + 1 \in Rungs /\ 1..Bins \subseteq Rungs
            /\ \A r \in Rungs : Semantics(r) # Ambiguous
        BY <2>1, <2>2 DEF Rungs
      <4>2. CASE value <= Edge
        BY <2>1, <4>1, <4>2, RungsLie
      <4>3. CASE Edge + 4 * Bins <= value
        BY <2>1, <4>1, <4>3, RungsLie
      <4>4. CASE Edge < value /\ value < Edge + 4 * Bins
        <5>1. PICK r \in 1..Bins : Edge + 4 * (r - 1) <= value /\ value < Edge + 4 * r
          <6>1. PICK r : r = ((value - Edge) \div 4) + 1
            OBVIOUS
          <6>2. r \in 1..Bins /\ Edge + 4 * (r - 1) <= value /\ value < Edge + 4 * r
            BY <2>1, <4>4, <6>1
          <6> QED
            BY <6>2
        <5> QED
          BY <2>1, <4>1, <5>1, RungsLie
      <4> QED
        BY <2>1, <4>2, <4>3, <4>4
    <3>2. PICK r \in Rungs : Satisfies(value, Semantics(r))
      BY <3>1
    <3>3. told[r].side = "YES" /\ told[r].by = value /\ told[r] \in Resolutions
      BY <2>1, <2>2, <3>2 DEF ToldBy
    <3>4. told[r] = [side |-> "YES", by |-> value]
      BY <3>3 DEF Resolutions
    <3> QED
      BY <3>4 DEF Won
  <2>7. CASE value # Edge
    <3>1. \A r, s \in Won(value) : r = s
      BY <2>4, <2>5, <2>7
    <3> QED
      BY <2>7, <3>1, AtMostTwo, <2>6
  <2>8. CASE value = Edge
    <3>1. \A r \in Won(value) : r \in {0, 1}
      <4> SUFFICES ASSUME NEW r \in Won(value), r > 1 PROVE FALSE
        BY <2>5
      <4> QED
        BY <2>1, <2>3, <2>8 DEF Rungs
    <3>2. Cardinality(Won(value)) <= 2
      BY <3>1, AtMostTwo
    <3> QED
      BY <2>6, <2>8, <3>2
  <2> QED
    BY <2>7, <2>8
<1> QED
  BY <1>1, ContractsInvariant, PTL

-----------------------------------------------------------------------------
(* Paper.                                                                  *)

PaperPlaces == {"down", "idle", "filled", "opened", "saved"}
PaperOrders == [contract : Legs \cup {"none"}, qty : Int, cash : Int]
PaperSessions == [at : PaperPlaces, balance : Nat, book : [Legs -> Nat], order : PaperOrders]
\* what has filled is booked on a leg that exists, and never sold short
Bookable(s) ==
  s.at \in {"filled", "opened"} =>
    s.order.contract \in Legs /\ s.book[s.order.contract] + s.order.qty \in Nat
SessionsOK ==
  /\ file \in {Missing, Torn} \cup Nat /\ journal \in Int /\ trades \in 0..MaxTrades
  /\ undisturbed \in BOOLEAN
  /\ paper \in [Runners -> PaperSessions] /\ \A p \in Runners : Bookable(paper[p])

\* who is connected has found a file, or written one
FileFound ==
  /\ \A p \in Runners : paper[p].at # "down" => file # Missing
  /\ file = Missing => journal = 0

\* nobody is ahead of the journal but the one execution under way
Balanced == file \in Nat /\ file = AccountSize + journal
Ahead(s) ==
  /\ s.at \in {"filled", "opened"} => s.balance = AccountSize + journal + s.order.cash
  /\ s.at = "filled" => Balanced
  /\ s.at = "saved" => file \in Nat /\ file = AccountSize + journal + s.order.cash
OneAhead ==
  undisturbed =>
    /\ \A p, q \in Runners : Executing(p) /\ Executing(q) => p = q
    /\ \A p \in Runners : Ahead(paper[p])
    /\ (\A p \in Runners : ~Executing(p)) => file = Missing \/ Balanced

PaperInd == SessionsOK /\ FileFound /\ OneAhead

\* a fee is never more than the price: seven per cent of a part of it, in whole
\* cents
LEMMA FeeFits ==
  ASSUME NEW n \in Nat \ {0}, NEW price \in 1..99
  PROVE  /\ n * price \in Nat /\ PaperFee(n, price) \in Nat
         /\ PaperFee(n, price) <= n * price
<1>1. PICK m \in Nat : m = n * price
  OBVIOUS
<1>2. PICK k \in 1..99 : k = 100 - price
  OBVIOUS
<1>3. 7 * n * price = 7 * m
  BY <1>1
<1>4. 7 * n * price * (100 - price) = 7 * m * k
  BY <1>2, <1>3
<1>5. PICK j \in Nat : j = m * k /\ j <= 99 * m
  BY <1>1, <1>2
<1>6. 7 * m * k = 7 * j
  BY <1>1, <1>2, <1>5
<1>7. PaperFee(n, price) = (7 * j + 9999) \div 10000
  BY <1>4, <1>6 DEF PaperFee
<1>8. (7 * j + 9999) \div 10000 \in Nat /\ (7 * j + 9999) \div 10000 <= m
  BY <1>1, <1>5
<1> QED
  BY <1>1, <1>7, <1>8

LEMMA PaperInitInd == PaperInit => PaperInd
<1> SUFFICES ASSUME PaperInit PROVE PaperInd
  OBVIOUS
<1>1. NoOrder \in PaperOrders
  BY DEF NoOrder, PaperOrders
<1>2. Offline \in PaperSessions /\ Offline.at = "down"
  BY <1>1 DEF Offline, PaperSessions, PaperPlaces
<1>3. SessionsOK
  BY <1>2, PaperAssumption DEF PaperInit, SessionsOK, Bookable
<1> QED
  BY <1>2, <1>3 DEF PaperInit, PaperInd, FileFound, OneAhead, Ahead, Executing

\* a process goes on to s, and the file and the journal with it
LEMMA RunnerKeeps ==
  ASSUME PaperInd, NEW p \in Runners, NEW s \in PaperSessions, paper' = [paper EXCEPT ![p] = s],
         Bookable(s), file' \in {Missing, Torn} \cup Nat, journal' \in Int,
         trades' \in 0..MaxTrades, undisturbed' \in BOOLEAN,
         s.at # "down" \/ file # Missing => file' # Missing,
         file' = Missing => journal' = 0,
         undisturbed' => undisturbed,
         undisturbed' /\ s.at \in {"filled", "opened", "saved"} =>
           \A q \in Runners \ {p} : ~Executing(q),
         undisturbed' /\ (\E q \in Runners \ {p} : Executing(q)) =>
           file' = file /\ journal' = journal,
         undisturbed' => Ahead(s)',
         undisturbed' /\ s.at \in {"down", "idle"}
           /\ (\A q \in Runners \ {p} : ~Executing(q)) => file' = Missing \/ Balanced'
  PROVE  PaperInd'
<1>1. /\ paper'[p] = s /\ \A q \in Runners \ {p} : paper'[q] = paper[q]
      /\ paper' \in [Runners -> PaperSessions] /\ s.at \in PaperPlaces
  BY DEF PaperInd, SessionsOK, PaperSessions
<1>2. SessionsOK'
  BY <1>1 DEF PaperInd, SessionsOK, Bookable
<1>3. FileFound'
  BY <1>1 DEF PaperInd, FileFound
<1>4. \A q \in Runners \ {p} : Executing(q)' <=> Executing(q)
  BY <1>1 DEF Executing
<1>5. Executing(p)' <=> s.at \in {"filled", "opened", "saved"}
  BY <1>1 DEF Executing
<1>6. ASSUME undisturbed' PROVE OneAhead'
  <2>1. OneAhead /\ undisturbed
    BY <1>6 DEF PaperInd
  <2>2. \A q, r \in Runners : Executing(q)' /\ Executing(r)' => q = r
    BY <1>4, <1>5, <1>6, <2>1 DEF OneAhead
  <2>3. ASSUME NEW q \in Runners, NEW n, n = paper'[q] PROVE Ahead(n)'
    <3>1. CASE q = p
      BY <1>1, <1>6, <2>3, <3>1
    <3>2. CASE q # p /\ Executing(q)
      <4>1. file' = file /\ journal' = journal /\ Ahead(n)
        BY <1>1, <1>6, <2>1, <2>3, <3>2 DEF OneAhead
      <4> QED
        BY <4>1 DEF Ahead, Balanced
    <3>3. CASE q # p /\ ~Executing(q)
      BY <1>1, <2>3, <3>3 DEF Ahead, Executing
    <3> QED
      BY <3>1, <3>2, <3>3
  <2>4. (\A q \in Runners : ~Executing(q)') => file' = Missing \/ Balanced'
    BY <1>1, <1>4, <1>5, <1>6 DEF PaperPlaces
  <2> QED
    BY <2>2, <2>3, <2>4 DEF OneAhead
<1> QED
  BY <1>2, <1>3, <1>6 DEF PaperInd, OneAhead

LEMMA ReadsTyped ==
  ASSUME PaperInd, NEW p \in Runners
  PROVE  /\ paper[p] \in PaperSessions /\ BalanceRead(p) \in Nat /\ AccountSize \in Nat
         /\ file \in {Missing, Torn} \cup Nat /\ journal \in Int /\ undisturbed \in BOOLEAN
         /\ trades \in 0..MaxTrades /\ DOMAIN paper = Runners /\ Missing \notin Nat
         /\ Offline \in PaperSessions /\ Offline.at = "down" /\ Bookable(paper[p])
BY PaperAssumption DEF PaperInd, SessionsOK, BalanceRead, Readable, PaperSessions, Missing,
   Offline, NoOrder, PaperOrders, PaperPlaces

\* who holds no execution and leaves the file alone disturbs nobody
LEMMA IdleKeeps ==
  ASSUME PaperInd, NEW p \in Runners, NEW s \in PaperSessions, paper' = [paper EXCEPT ![p] = s],
         s.at \in {"down", "idle"}, ~Executing(p), file' = file \/ file = Missing,
         file = Missing => s.at = "idle" /\ file' = AccountSize,
         UNCHANGED <<journal, trades, undisturbed>>
  PROVE  PaperInd'
<1>1. /\ file \in {Missing, Torn} \cup Nat /\ AccountSize \in Nat /\ Missing \notin Nat
      /\ file = Missing => journal = 0
  BY ReadsTyped DEF PaperInd, FileFound
<1>2. undisturbed /\ (\E q \in Runners \ {p} : Executing(q)) => file' = file
  BY DEF PaperInd, FileFound, Executing
<1>3. Bookable(s) /\ Ahead(s)'
  BY DEF Bookable, Ahead
<1>4. undisturbed /\ (\A q \in Runners \ {p} : ~Executing(q)) => file' = Missing \/ Balanced'
  <2>1. CASE file = Missing
    <3>1. file' = AccountSize /\ journal' = 0 /\ AccountSize \in Nat
      BY <1>1, <2>1
    <3> QED
      BY <3>1 DEF Balanced
  <2>2. CASE file # Missing
    BY <2>2 DEF PaperInd, OneAhead, Balanced
  <2> QED
    BY <2>1, <2>2
<1> QED
  BY <1>1, <1>2, <1>3, <1>4, RunnerKeeps, ReadsTyped

LEMMA ConnectKeeps ==
  ASSUME PaperInd, NEW p \in Runners, PaperConnect(p) PROVE PaperInd'
<1>1. PICK b \in Nat : b = IF Readable THEN file ELSE AccountSize
  BY ReadsTyped DEF Readable
<1>2. PICK s : s = [Offline EXCEPT !.at = "idle", !.balance = b]
  OBVIOUS
<1>3. s \in PaperSessions /\ s.at = "idle"
  BY <1>1, <1>2, ReadsTyped DEF PaperSessions, PaperPlaces
<1>4. /\ paper' = [paper EXCEPT ![p] = s] /\ ~Executing(p)
      /\ file' = IF file = Missing THEN AccountSize ELSE file
      /\ UNCHANGED <<journal, trades, undisturbed>>
  BY <1>1, <1>2 DEF PaperConnect, Executing
<1> QED
  BY <1>3, <1>4, IdleKeeps

LEMMA ReadKeeps ==
  ASSUME PaperInd, NEW p \in Runners, PaperRead(p) \/ PaperSync(p) PROVE PaperInd'
<1>1. /\ paper[p].at = "idle" /\ ~Executing(p) /\ file # Missing
      /\ UNCHANGED <<file, journal, trades, undisturbed>>
  BY DEF PaperRead, PaperSync, Executing, PaperInd, FileFound
<1>2. PICK n, b, k : n = paper[p] /\ b = BalanceRead(p) /\ k = Offline.book
  OBVIOUS
<1>3. n \in PaperSessions /\ b \in Nat /\ k \in [Legs -> Nat] /\ n.at = "idle"
  BY <1>1, <1>2, ReadsTyped DEF Offline
<1>4. PICK s : s \in PaperSessions /\ s.at = "idle" /\ paper' = [paper EXCEPT ![p] = s]
  <2>1. CASE PaperRead(p)
    <3>1. PICK s : s = [n EXCEPT !.balance = b]
      OBVIOUS
    <3>2. s \in PaperSessions /\ s.at = "idle"
      BY <1>3, <3>1 DEF PaperSessions
    <3>3. paper' = [paper EXCEPT ![p] = s]
      BY <1>2, <2>1, <3>1, ReadsTyped DEF PaperRead
    <3> QED
      BY <3>2, <3>3
  <2>2. CASE PaperSync(p)
    <3>1. PICK s : s = [n EXCEPT !.book = k]
      OBVIOUS
    <3>2. s \in PaperSessions /\ s.at = "idle"
      BY <1>3, <3>1 DEF PaperSessions
    <3>3. paper' = [paper EXCEPT ![p] = s]
      BY <1>2, <2>2, <3>1, ReadsTyped DEF PaperSync
    <3> QED
      BY <3>2, <3>3
  <2> QED
    BY <2>1, <2>2
<1> QED
  BY <1>1, <1>4, IdleKeeps

LEMMA FillKeeps ==
  ASSUME PaperInd, NEW p \in Runners, NEW fill \in PaperOrders, Filled(p, fill, BalanceRead(p)),
         fill.contract \in Legs, paper[p].book[fill.contract] + fill.qty \in Nat,
         BalanceRead(p) + fill.cash \in Nat
  PROVE  PaperInd'
<1>1. /\ paper[p].at = "idle" /\ ~Executing(p) /\ file # Missing /\ trades' \in 0..MaxTrades
      /\ undisturbed' = (undisturbed /\ \A q \in Runners : ~Executing(q))
      /\ UNCHANGED <<file, journal>>
  BY ReadsTyped, PaperAssumption DEF Filled, Executing, PaperInd, FileFound
<1>2. PICK n, b : n = paper[p] /\ b = BalanceRead(p) + fill.cash
  OBVIOUS
<1>3. n \in PaperSessions /\ b \in Nat
  BY <1>2, ReadsTyped
<1>4. PICK s : s = [n EXCEPT !.at = "filled", !.order = fill, !.balance = b]
  OBVIOUS
<1>5. /\ s \in PaperSessions /\ s.at = "filled" /\ s.order = fill /\ s.balance = b
      /\ s.book = n.book
  BY <1>3, <1>4 DEF PaperSessions, PaperPlaces
<1>6. paper' = [paper EXCEPT ![p] = s]
  BY <1>2, <1>4, ReadsTyped DEF Filled
<1>7. undisturbed' => Balanced /\ Balanced'
  BY <1>1 DEF PaperInd, OneAhead, Balanced
<1>8. undisturbed' => BalanceRead(p) = AccountSize + journal
  BY <1>7 DEF Balanced, BalanceRead, Readable
<1>9. undisturbed' => Ahead(s)'
  BY <1>1, <1>2, <1>5, <1>7, <1>8 DEF Ahead
<1>10. Bookable(s)
  BY <1>2, <1>5 DEF Bookable
<1> QED
  BY <1>1, <1>5, <1>6, <1>7, <1>9, <1>10, RunnerKeeps, ReadsTyped

LEMMA TradeKeeps ==
  ASSUME PaperInd, NEW p \in Runners, NEW c \in Legs, NEW n \in {1, MaxDepth},
         NEW price \in Quotes, NEW depth \in 1..MaxDepth,
         ShadowBuy(p, c, n, price, depth) \/ ShadowSell(p, c, n, price, depth)
  PROVE  PaperInd'
<1>1. /\ n \in Nat \ {0} /\ depth \in Nat \ {0} /\ price \in 1..99
      /\ paper[p].book \in [Legs -> Nat] /\ BalanceRead(p) \in Nat
  BY PaperAssumption, ReadsTyped DEF PaperSessions
<1>2. CASE ShadowBuy(p, c, n, price, depth)
  <2>1. PICK qty : qty = IF n < depth THEN n ELSE depth
    OBVIOUS
  <2>2. qty \in Nat \ {0}
    BY <1>1, <2>1
  <2>3. PICK cost : cost = qty * price + PaperFee(qty, price)
    OBVIOUS
  <2>4. cost \in Nat
    <3>1. qty * price \in Nat /\ PaperFee(qty, price) \in Nat
      BY <1>1, <2>2, FeeFits
    <3> QED
      BY <2>3, <3>1
  <2>5. PICK fill : fill = [contract |-> c, qty |-> qty, cash |-> -cost]
    OBVIOUS
  <2>6. /\ cost <= BalanceRead(p) /\ Filled(p, fill, BalanceRead(p))
    BY <1>2, <2>1, <2>3, <2>5 DEF ShadowBuy
  <2>7. /\ fill \in PaperOrders /\ fill.contract = c /\ fill.qty = qty
        /\ fill.cash = -cost
    BY <2>2, <2>4, <2>5 DEF PaperOrders
  <2>8. paper[p].book[c] + qty \in Nat /\ BalanceRead(p) + fill.cash \in Nat
    BY <1>1, <2>2, <2>4, <2>6, <2>7
  <2> QED
    BY <2>6, <2>7, <2>8, FillKeeps
<1>3. CASE ShadowSell(p, c, n, price, depth)
  <2>1. PICK owned : owned = paper[p].book[c]
    OBVIOUS
  <2>2. PICK asked : asked = IF n < owned THEN n ELSE owned
    OBVIOUS
  <2>3. PICK qty : qty = IF asked < depth THEN asked ELSE depth
    OBVIOUS
  <2>4. owned \in Nat
    BY <1>1, <2>1
  <2>5. PICK fill :
          fill = [contract |-> c, qty |-> -qty, cash |-> qty * price - PaperFee(qty, price)]
    OBVIOUS
  <2>6. qty > 0 /\ Filled(p, fill, BalanceRead(p))
    BY <1>3, <2>1, <2>2, <2>3, <2>5 DEF ShadowSell
  <2>7. qty \in Nat \ {0} /\ qty <= owned
    BY <1>1, <2>2, <2>3, <2>4, <2>6
  <2>8. PICK credit \in Nat : credit = qty * price - PaperFee(qty, price)
    <3>1. /\ qty * price \in Nat /\ PaperFee(qty, price) \in Nat
          /\ PaperFee(qty, price) <= qty * price
      BY <1>1, <2>7, FeeFits
    <3>2. PICK gain, fee : gain = qty * price /\ fee = PaperFee(qty, price)
      OBVIOUS
    <3>3. gain - fee \in Nat
      BY <3>1, <3>2
    <3> QED
      BY <3>2, <3>3
  <2>9. /\ fill \in PaperOrders /\ fill.contract = c /\ fill.qty = -qty
        /\ fill.cash = credit
    BY <2>5, <2>7, <2>8 DEF PaperOrders
  <2>10. paper[p].book[c] + fill.qty \in Nat /\ BalanceRead(p) + fill.cash \in Nat
    BY <1>1, <2>1, <2>4, <2>7, <2>9
  <2> QED
    BY <2>6, <2>9, <2>10, FillKeeps
<1> QED
  BY <1>2, <1>3

\* the execution under way, and nobody else's
LEMMA OneExecutes ==
  ASSUME PaperInd, NEW p \in Runners, Executing(p), undisturbed
  PROVE  Ahead(paper[p]) /\ \A q \in Runners \ {p} : ~Executing(q)
BY DEF PaperInd, OneAhead

LEMMA SaveKeeps ==
  ASSUME PaperInd, NEW p \in Runners, OpenBalance(p) \/ WriteBalance(p) \/ BalanceNotSaved(p)
  PROVE  PaperInd'
<1>1. PICK n : n = paper[p]
  OBVIOUS
<1>2. /\ n \in PaperSessions /\ n.at \in {"filled", "opened"} /\ Executing(p) /\ file # Missing
      /\ Bookable(n) /\ UNCHANGED <<journal, trades>> /\ undisturbed' \in BOOLEAN
      /\ undisturbed' => undisturbed
  <2>1. n \in PaperSessions /\ Bookable(n) /\ undisturbed \in BOOLEAN
    BY <1>1, ReadsTyped
  <2>2. /\ paper[p].at \in {"filled", "opened"} /\ UNCHANGED <<journal, trades>>
        /\ undisturbed' = undisturbed \/ undisturbed' = FALSE
    BY DEF OpenBalance, WriteBalance, BalanceNotSaved
  <2>3. file # Missing
    BY <2>2 DEF PaperInd, FileFound
  <2>4. undisturbed' \in BOOLEAN /\ (undisturbed' => undisturbed)
    <3>1. CASE undisturbed' = undisturbed
      BY <2>1, <3>1, Zenon
    <3>2. CASE undisturbed' = FALSE
      BY <3>2
    <3> QED
      BY <2>2, <3>1, <3>2, Zenon
  <2>5. Executing(p) /\ n.at \in {"filled", "opened"}
    BY <1>1, <2>2 DEF Executing
  <2> QED
    BY <2>1, <2>2, <2>3, <2>4, <2>5
<1>3. undisturbed' => Ahead(n) /\ \A q \in Runners \ {p} : ~Executing(q)
  BY <1>1, <1>2, OneExecutes
<1>4. CASE OpenBalance(p)
  <2>1. PICK s : s = [n EXCEPT !.at = "opened"]
    OBVIOUS
  <2>2. /\ s \in PaperSessions /\ s.at = "opened" /\ s.order = n.order /\ s.balance = n.balance
        /\ s.book = n.book
    BY <1>2, <2>1 DEF PaperSessions, PaperPlaces
  <2>3. /\ paper' = [paper EXCEPT ![p] = s] /\ file' = Torn /\ Torn # Missing
        /\ n.at = "filled"
    BY <1>1, <1>4, <2>1, ReadsTyped DEF OpenBalance, Torn, Missing
  <2>4. Bookable(s) /\ (undisturbed' => Ahead(s)')
    BY <1>2, <1>3, <2>2, <2>3 DEF Bookable, Ahead
  <2> QED
    BY <1>2, <1>3, <2>2, <2>3, <2>4, RunnerKeeps, ReadsTyped
<1>5. ASSUME paper' = Booked(p, "saved")
      PROVE  \E s \in PaperSessions : /\ s.at = "saved" /\ s.order = n.order
                                 /\ paper' = [paper EXCEPT ![p] = s]
  <2>1. PICK c, k : c = n.order.contract /\ k = n.book[c] + n.order.qty
    OBVIOUS
  <2>2. c \in Legs /\ k \in Nat /\ n.book \in [Legs -> Nat]
    BY <1>2, <2>1 DEF Bookable, PaperSessions
  <2>3. PICK b : b = [n.book EXCEPT ![c] = k]
    OBVIOUS
  <2>4. b \in [Legs -> Nat]
    BY <2>2, <2>3
  <2>5. PICK s : s = [n EXCEPT !.at = "saved", !.book = b]
    OBVIOUS
  <2>6. s \in PaperSessions /\ s.at = "saved" /\ s.order = n.order
    BY <1>2, <2>4, <2>5 DEF PaperSessions, PaperPlaces
  <2>7. paper' = [paper EXCEPT ![p] = s]
    BY <1>1, <1>2, <1>5, <2>1, <2>3, <2>5, ReadsTyped DEF Booked, PaperSessions
  <2> QED
    BY <2>6, <2>7
<1>6. CASE WriteBalance(p)
  <2>1. PICK s \in PaperSessions : /\ s.at = "saved" /\ s.order = n.order
                              /\ paper' = [paper EXCEPT ![p] = s]
    BY <1>5, <1>6 DEF WriteBalance
  <2>2. file' = n.balance /\ n.at = "opened" /\ n.balance \in Nat
    BY <1>1, <1>2, <1>6 DEF WriteBalance, PaperSessions
  <2>3. Bookable(s) /\ (undisturbed' => Ahead(s)')
    BY <1>2, <1>3, <2>1, <2>2 DEF Bookable, Ahead
  <2> QED
    BY <1>2, <1>3, <2>1, <2>2, <2>3, RunnerKeeps, ReadsTyped
<1>7. CASE BalanceNotSaved(p)
  <2>1. PICK s \in PaperSessions : /\ s.at = "saved" /\ s.order = n.order
                              /\ paper' = [paper EXCEPT ![p] = s]
    BY <1>5, <1>7 DEF BalanceNotSaved
  <2>2. Bookable(s) /\ ~undisturbed' /\ file' = file
    BY <1>7, <2>1 DEF Bookable, BalanceNotSaved
  <2> QED
    BY <1>2, <2>1, <2>2, RunnerKeeps, ReadsTyped
<1> QED
  BY <1>4, <1>6, <1>7

LEMMA LogKeeps ==
  ASSUME PaperInd, NEW p \in Runners, NEW logged \in BOOLEAN, LogTrade(p, logged)
  PROVE  PaperInd'
<1>1. PICK n : n = paper[p]
  OBVIOUS
<1>2. /\ n \in PaperSessions /\ n.at = "saved" /\ Executing(p) /\ file # Missing
      /\ undisturbed' = (undisturbed /\ logged)
      /\ journal' = IF logged THEN journal + n.order.cash ELSE journal
      /\ UNCHANGED <<file, trades>> /\ NoOrder \in PaperOrders /\ n.order.cash \in Int
  BY <1>1, ReadsTyped
  DEF LogTrade, Executing, PaperInd, FileFound, NoOrder, PaperOrders, PaperSessions
<1>3. PICK o : o = NoOrder
  OBVIOUS
<1>4. PICK s : s = [n EXCEPT !.at = "idle", !.order = o]
  OBVIOUS
<1>5. s \in PaperSessions /\ s.at = "idle"
  BY <1>2, <1>3, <1>4 DEF PaperSessions, PaperPlaces
<1>6. paper' = [paper EXCEPT ![p] = s]
  BY <1>1, <1>3, <1>4, ReadsTyped DEF LogTrade
<1>7. undisturbed' => Ahead(n) /\ (\A q \in Runners \ {p} : ~Executing(q)) /\ logged
  BY <1>1, <1>2, OneExecutes
<1>8. undisturbed' => Balanced'
  BY <1>2, <1>7, ReadsTyped DEF Ahead, Balanced
<1>9. Bookable(s) /\ Ahead(s)'
  BY <1>5 DEF Bookable, Ahead
<1>10. journal' \in Int /\ undisturbed' \in BOOLEAN
  BY <1>2, ReadsTyped
<1> QED
  BY <1>2, <1>5, <1>6, <1>7, <1>8, <1>9, <1>10, RunnerKeeps, ReadsTyped

LEMMA DeathKeeps ==
  ASSUME PaperInd, NEW p \in Runners, PaperDies(p)
  PROVE  PaperInd'
<1>1. /\ paper[p].at # "down" /\ file # Missing /\ paper' = [paper EXCEPT ![p] = Offline]
      /\ undisturbed' = (undisturbed /\ paper[p].at \notin {"opened", "saved"})
      /\ UNCHANGED <<file, journal, trades>>
  BY DEF PaperDies, PaperInd, FileFound
<1>2. Bookable(Offline) /\ Ahead(Offline)'
  BY DEF Bookable, Ahead, Offline
<1>3. undisturbed' /\ (\A q \in Runners \ {p} : ~Executing(q)) => Balanced
  <2> SUFFICES ASSUME undisturbed', \A q \in Runners \ {p} : ~Executing(q) PROVE Balanced
    OBVIOUS
  <2>1. CASE Executing(p)
    BY <1>1, <2>1, OneExecutes DEF Executing, Ahead
  <2>2. CASE ~Executing(p)
    BY <1>1, <2>2 DEF PaperInd, OneAhead
  <2> QED
    BY <2>1, <2>2
<1>4. Balanced => Balanced'
  BY <1>1 DEF Balanced
<1> QED
  BY <1>1, <1>2, <1>3, <1>4, RunnerKeeps, ReadsTyped

LEMMA PaperStepInd == PaperInd /\ [PaperNext]_paperVars => PaperInd'
<1> SUFFICES ASSUME PaperInd, [PaperNext]_paperVars PROVE PaperInd'
  OBVIOUS
<1>1. CASE UNCHANGED paperVars
  BY <1>1 DEF paperVars, PaperInd, SessionsOK, FileFound, OneAhead, Ahead, Balanced, Executing
<1>2. CASE PaperNext
  BY <1>2, ConnectKeeps, ReadKeeps, TradeKeeps, SaveKeeps, LogKeeps, DeathKeeps DEF PaperNext
<1> QED
  BY <1>1, <1>2

LEMMA PaperInvariant == PaperSpec => []PaperInd
BY PaperInitInd, PaperStepInd, PTL DEF PaperSpec

LEMMA PaperIndTypes == PaperInd => PaperTypeOK
BY DEF PaperInd, SessionsOK, PaperTypeOK, PaperSessions, PaperPlaces

(* The paper account of kalshi_broker keeps its types: no fee makes its    *)
(* balance negative, and nothing is sold short.                            *)
THEOREM PaperTypes == PaperSpec => []PaperTypeOK
BY PaperIndTypes, PaperInvariant, PTL

(* For any processes, quotes and account size: while paper executions do   *)
(* not overlap and their writes succeed, the balance in the file           *)
(* shadow_balance.json is what the journal of trades says.                 *)
THEOREM PaperBalanceFollows == PaperSpec => []BalanceFollowsTrades
<1>1. PaperInd => BalanceFollowsTrades
  BY DEF PaperInd, OneAhead, Balanced, BalanceFollowsTrades
<1> QED
  BY <1>1, PaperInvariant, PTL

-----------------------------------------------------------------------------
(* Entries: the rails stand when an order goes out.  The argument: the     *)
(* admission budgets an order on one reading of the account, the order     *)
(* costs no more than that budget whatever it is priced on, and the last   *)
(* looks compare the account with that reading; whatever moves afterwards  *)
(* is on record.                                                           *)

\* What a sweep knows, and may hence rely on.
Accounts == [Markets -> [side : Sides, qty : Nat, paid : Nat]]
Candidates == [market : Markets, side : Sides, price : Prices, qty : 1..MaxQty,
               conviction : Convictions, budget : Int]
InHand == {"admitting", "planned", "priced", "funded", "posting"}
Selected == {"loop"} \cup InHand

SweepOK ==
  /\ positions \in Accounts /\ seen \in Accounts /\ cash \in Nat /\ bankroll \in Nat
  /\ stage \in {"idle", "started", "evaluating"} \cup Selected
  /\ ahead \subseteq Markets /\ charged \in [Markets -> Nat]
  /\ offers \subseteq Candidates
  /\ IF stage \in InHand THEN pick \in Candidates ELSE pick = Nothing
  /\ moved \in BOOLEAN /\ late \subseteq Markets /\ moves \in 0..MaxMoves
  /\ entered \subseteq {Slot[m] : m \in Markets}

\* what is on offer, in hand and entered is of different slots
SlotsApart ==
  /\ stage = "evaluating" => entered = {}
  /\ stage \in Selected =>
       /\ \A o, p \in offers : Slot[o.market] = Slot[p.market] => o = p
       /\ \A o \in offers : Slot[o.market] \notin entered
  /\ stage \in InHand =>
       /\ Slot[pick.market] \notin entered
       /\ \A o \in offers : Slot[o.market] # Slot[pick.market]

\* nothing was held, when it was evaluated, of what is on offer or in hand
NewOnly ==
  /\ stage = "evaluating" =>
       \A m \in Markets : positions[m].qty > 0 => seen[m].qty > 0 \/ m \in late
  /\ stage \in {"evaluating"} \cup Selected =>
       \A o \in offers : positions[o.market].qty > 0 => o.market \in late
  /\ stage \in InHand => (positions[pick.market].qty > 0 => pick.market \in late)

\* the rails stand for what was admitted, on what was read for it
RailsAdmitted ==
  stage \in {"planned", "priced", "funded", "posting"} =>
    /\ seen[pick.market].qty = 0 \/ seen[pick.market].side # pick.side
    /\ pick.budget + Paid(seen, Markets) <= (DeployedPct * bankroll) \div 100
    /\ pick.budget + Paid(seen, InFamily(pick.market)) <= EventBudget(bankroll)
    /\ \E c \in Nat : /\ pick.budget <= c
                      /\ RegionAllows(seen, pick.market, pick.side, c, bankroll)
\* and the order costs no more than that
OrderFits ==
  stage \in {"priced", "funded", "posting"} =>
    LET cost == Cost(pick.qty, pick.price) IN
    cost <= pick.budget /\ cost <= PositionCap(pick.conviction) /\ cost <= bankroll
\* what was read is still so, unless the account moved
ReadingsStand ==
  /\ stage \in {"funded", "posting"} /\ ~moved => bankroll <= cash
  /\ stage = "posting" /\ ~moved => positions = seen

EntriesInd ==
  SweepOK /\ SlotsApart /\ NewOnly /\ RailsAdmitted /\ OrderFits /\ ReadingsStand

-----------------------------------------------------------------------------
(* Money: what an order costs, what is paid, what is allowed.              *)

\* more contracts cost no less, the fee in whole cents included
LEMMA CostIsMonotone ==
  ASSUME NEW n \in Nat, NEW k \in Nat, n <= k, NEW price \in Prices
  PROVE  Cost(n, price) \in Nat /\ Cost(k, price) \in Nat /\ Cost(n, price) <= Cost(k, price)
<1>1. price \in 1..99 /\ price \in Nat /\ 100 - price \in Nat
  BY EntriesAssumption
<1>2. 7 * n \in Nat /\ 7 * k \in Nat /\ 7 * n <= 7 * k
  OBVIOUS
<1>3. 7 * n * price \in Nat /\ 7 * k * price \in Nat /\ 7 * n * price <= 7 * k * price
  BY <1>1, <1>2, ProductIsMonotone
<1> DEFINE x == 7 * n * price * (100 - price)
           y == 7 * k * price * (100 - price)
<1>4. x \in Nat /\ y \in Nat /\ x <= y
  BY <1>1, <1>3, ProductIsMonotone
<1>5. Fee(n, price) = (x + 9999) \div 10000 /\ Fee(k, price) = (y + 9999) \div 10000
  BY DEF Fee
<1> HIDE DEF x, y
<1>6. Fee(n, price) \in Nat /\ Fee(k, price) \in Nat /\ Fee(n, price) <= Fee(k, price)
  BY <1>4, <1>5
<1>7. n * price \in Nat /\ k * price \in Nat /\ n * price <= k * price
  BY <1>1, ProductIsMonotone
<1> QED
  BY <1>6, <1>7 DEF Cost

\* Paid is the library's fold over the markets, hence one of those sums
LEMMA PaidTyped ==
  ASSUME NEW a \in Accounts, NEW some \in SUBSET Markets
  PROVE  Paid(a, some) \in Nat
<1> DEFINE f == [m \in Markets |-> a[m].paid]
           IsFold(g) == g = [s \in SUBSET some |->
             IF s = {} THEN 0 ELSE a[CHOOSE x \in s : TRUE].paid
                                     + g[s \ {CHOOSE x \in s : TRUE}]]
<1>1. \A x \in some : f[x] \in Nat
  BY DEF Accounts
<1>2. Paid(a, some) = (CHOOSE g : IsFold(g))[some]
  BY DEF Paid, MapThenSumSet, MapThenFoldSet
<1>3. ASSUME NEW g PROVE IsFold(g) <=> IsSum(f, some, g)
  <2> DEFINE one(s) == IF s = {} THEN 0 ELSE a[Pick(s)].paid + g[Rest(s)]
             two(s) == IF s = {} THEN 0 ELSE f[Pick(s)] + g[Rest(s)]
  <2>1. ASSUME NEW s \in SUBSET some PROVE one(s) = two(s)
    <3>1. s # {} => Pick(s) \in Markets
      BY RestSmaller
    <3> QED
      BY <3>1
  <2>2. IsFold(g) <=> g = [s \in SUBSET some |-> one(s)]
    BY DEF Pick, Rest
  <2>3. IsSum(f, some, g) <=> g = [s \in SUBSET some |-> two(s)]
    BY DEF IsSum
  <2>4. [s \in SUBSET some |-> one(s)] = [s \in SUBSET some |-> two(s)]
    <3> HIDE DEF one, two
    <3> QED
      BY <2>1
  <2> HIDE DEF one, two, IsFold
  <2> QED
    BY <2>2, <2>3, <2>4
<1>4. IsFiniteSet(some)
  BY EntriesAssumption, FS_Subset
<1>5. \E g : IsSum(f, some, g)
  BY <1>4, SumExists
<1> HIDE DEF IsFold, f
<1>6. IsSum(f, some, CHOOSE g : IsFold(g))
  BY <1>3, <1>5
<1> QED
  BY <1>1, <1>2, <1>4, <1>6, SumTyped

LEMMA SignTyped ==
  ASSUME NEW m \in Markets, NEW side
  PROVE  Sign(m, side) \in {1, -1}
<1>1. Axis[m] = 1 \/ Axis[m] = -1
  BY EntriesAssumption
<1> QED
  BY <1>1 DEF Sign

LEMMA BudgetsTyped ==
  ASSUME NEW balance \in Nat
  PROVE  /\ EventBudget(balance) \in Nat /\ RegionCap(balance) \in Nat
         /\ (DeployedPct * balance) \div 100 \in Nat /\ (KellyPct * balance) \div 100 \in Nat
         /\ \A conviction \in Convictions : PositionCap(conviction) \in Nat
<1>1. /\ EventPct \in Nat /\ RegionPct \in Nat /\ DeployedPct \in Nat /\ KellyPct \in Nat
      /\ RegionMin \in Nat /\ PositionUsd \in Nat
  BY EntriesAssumption
<1>2. /\ EventPct * balance \in Nat /\ RegionPct * balance \in Nat
      /\ DeployedPct * balance \in Nat /\ KellyPct * balance \in Nat
  BY <1>1, ProductIsMonotone
<1>3. /\ (EventPct * balance) \div 100 \in Nat /\ (RegionPct * balance) \div 100 \in Nat
      /\ (DeployedPct * balance) \div 100 \in Nat /\ (KellyPct * balance) \div 100 \in Nat
  BY <1>2, QuotientTyped
<1>4. ASSUME NEW conviction \in Convictions PROVE PositionCap(conviction) \in Nat
  <2>1. (3 * PositionUsd) \div 2 \in Nat /\ 2 * PositionUsd \in Nat
    BY <1>1
  <2> QED
    BY <1>1, <2>1 DEF PositionCap, Convictions
<1> QED
  BY <1>1, <1>3, <1>4 DEF EventBudget, RegionCap, Greatest

\* a bigger balance allows no less
LEMMA BudgetsGrow ==
  ASSUME NEW a \in Nat, NEW b \in Nat, a <= b
  PROVE  /\ EventBudget(a) <= EventBudget(b) /\ RegionCap(a) <= RegionCap(b)
         /\ DeployedPct * a \in Nat /\ DeployedPct * b \in Nat
         /\ DeployedPct * a <= DeployedPct * b
<1>1. /\ EventPct \in Nat /\ RegionPct \in Nat /\ DeployedPct \in Nat /\ RegionMin \in Nat
  BY EntriesAssumption
<1> DEFINE x == EventPct * a
           y == EventPct * b
           u == RegionPct * a
           v == RegionPct * b
<1>2. /\ x \in Nat /\ y \in Nat /\ x <= y /\ u \in Nat /\ v \in Nat /\ u <= v
      /\ DeployedPct * a \in Nat /\ DeployedPct * b \in Nat
      /\ DeployedPct * a <= DeployedPct * b
  <2>1. /\ EventPct * a = a * EventPct /\ EventPct * b = b * EventPct
        /\ RegionPct * a = a * RegionPct /\ RegionPct * b = b * RegionPct
        /\ DeployedPct * a = a * DeployedPct /\ DeployedPct * b = b * DeployedPct
    BY <1>1
  <2> QED
    BY <1>1, <2>1, ProductIsMonotone
<1>3. /\ EventBudget(a) = x \div 100 /\ EventBudget(b) = y \div 100
      /\ RegionCap(a) = Greatest(RegionMin, u \div 100)
      /\ RegionCap(b) = Greatest(RegionMin, v \div 100)
  BY DEF EventBudget, RegionCap
<1> HIDE DEF x, y, u, v
<1>4. x \div 100 <= y \div 100 /\ u \div 100 <= v \div 100
  BY <1>2
<1>5. u \div 100 \in Int /\ v \div 100 \in Int
  BY <1>2
<1> QED
  BY <1>1, <1>2, <1>3, <1>4, <1>5 DEF Greatest

LEMMA LeaningTyped ==
  ASSUME NEW a \in Accounts, NEW m \in Markets
  PROVE  Leaning(a, m) \in Int
<1> DEFINE warm == {k \in InRegion(m) : Sign(k, a[k].side) = 1}
<1>1. warm \in SUBSET Markets /\ InRegion(m) \ warm \in SUBSET Markets
  BY DEF InRegion
<1>2. Leaning(a, m) = Paid(a, warm) - Paid(a, InRegion(m) \ warm)
  BY DEF Leaning
<1> HIDE DEF warm
<1>3. Paid(a, warm) \in Nat /\ Paid(a, InRegion(m) \ warm) \in Nat
  BY <1>1, PaidTyped
<1> QED
  BY <1>2, <1>3

\* an order that costs less than what the region allowed leaves it between what it
\* was and what it was allowed to become
LEMMA LeansBetween ==
  ASSUME NEW a \in Accounts, NEW m \in Markets, NEW side, NEW cost \in Nat, NEW c \in Nat,
         cost <= c, NEW balance \in Nat, RegionAllows(a, m, side, c, balance)
  PROVE  Magnitude(LeanAfter(a, m, side, cost))
           <= Greatest(RegionCap(balance), Magnitude(Leaning(a, m)))
<1>1. PICK l \in Int : l = Leaning(a, m)
  BY LeaningTyped
<1>2. PICK s \in {1, -1} : s = Sign(m, side)
  BY SignTyped
<1>3. PICK r \in Nat : r = RegionCap(balance)
  BY BudgetsTyped
<1>4. Magnitude(l + c * s) <= r
  BY <1>1, <1>2, <1>3 DEF RegionAllows, LeanAfter
<1>5. Magnitude(l + cost * s) <= Greatest(r, Magnitude(l))
  <2>1. CASE s = 1
    <3>1. c * s = c /\ cost * s = cost
      BY <2>1
    <3> QED
      BY <1>4, <3>1 DEF Magnitude, Greatest
  <2>2. CASE s = -1
    <3>1. c * s = -c /\ cost * s = -cost
      BY <2>2
    <3> QED
      BY <1>4, <3>1 DEF Magnitude, Greatest
  <2> QED
    BY <1>2, <2>1, <2>2
<1> QED
  BY <1>1, <1>2, <1>3, <1>5 DEF LeanAfter

LEMMA AfterTyped ==
  ASSUME NEW p \in [side : Sides, qty : Nat, paid : Nat], NEW side \in Sides, NEW n \in Nat,
         NEW price \in Prices
  PROVE  After(p, side, n, price) \in [side : Sides, qty : Nat, paid : Nat]
<1>1. price \in Nat /\ p.qty \in Nat /\ p.paid \in Nat /\ p.side \in Sides
  BY EntriesAssumption
<1>2. CASE p.qty = 0 \/ p.side = side
  <2>1. p.qty + n \in Nat /\ p.paid + n * price \in Nat
    BY <1>1, ProductIsMonotone
  <2> QED
    BY <1>2, <2>1 DEF After, Position
<1>3. CASE ~(p.qty = 0 \/ p.side = side) /\ n < p.qty
  <2>1. p.qty - n \in Nat
    BY <1>1, <1>3
  <2>2. p.paid * (p.qty - n) \in Nat
    BY <1>1, <2>1, ProductIsMonotone
  <2>3. (p.paid * (p.qty - n)) \div p.qty \in Nat
    BY <1>1, <1>3, <2>2, QuotientTyped
  <2> QED
    BY <1>1, <1>3, <2>1, <2>3 DEF After, Position
<1>4. CASE ~(p.qty = 0 \/ p.side = side) /\ n = p.qty
  BY <1>4 DEF After, Position, Flat0, Sides
<1>5. CASE ~(p.qty = 0 \/ p.side = side) /\ ~(n < p.qty) /\ n # p.qty
  <2>1. n - p.qty \in Nat
    BY <1>1, <1>5
  <2>2. (n - p.qty) * price \in Nat
    BY <1>1, <2>1, ProductIsMonotone
  <2> QED
    BY <1>5, <2>1, <2>2 DEF After, Position
<1> QED
  BY <1>2, <1>3, <1>4, <1>5

-----------------------------------------------------------------------------
(* The account, and the evaluation.                                        *)

Holdings == [side : Sides, qty : Nat, paid : Nat]

LEMMA PositionsBounds ==
  ASSUME NEW side \in Sides, NEW qty \in 1..MaxQty, NEW price \in Prices
  PROVE  Position(side, qty, qty * price) \in Holdings /\ Flat0 \in Holdings
<1>1. price \in Nat /\ MaxQty \in Nat
  BY EntriesAssumption
<1>2. qty * price \in Nat
  BY <1>1, ProductIsMonotone
<1> QED
  BY <1>1, <1>2 DEF Position, Flat0, Holdings, Sides

LEMMA PositionMovesKeeps ==
  ASSUME NEW m \in Markets, NEW p \in Holdings, EntriesInd, PositionMoves(m, p)
  PROVE  EntriesInd'
<1> USE DEF EntriesInd
<1>1. /\ positions' = [positions EXCEPT ![m] = p] /\ positions \in Accounts
      /\ UNCHANGED <<cash, stage, ahead, charged, offers, pick, seen, bankroll, entered>>
  BY DEF PositionMoves, SweepOK
<1>2. /\ positions' \in Accounts /\ positions'[m] = p
      /\ \A k \in Markets : k # m => positions'[k] = positions[k]
  BY <1>1 DEF Accounts, Holdings
<1>3. SweepOK'
  <2>1. moves' \in 0..MaxMoves
    BY EntriesAssumption DEF PositionMoves, SweepOK
  <2>2. late' \in SUBSET Markets
    BY DEF PositionMoves, SweepOK
  <2>3. moved' \in BOOLEAN
    BY DEF PositionMoves
  <2> QED
    BY <1>1, <1>2, <2>1, <2>2, <2>3 DEF SweepOK
<1>4. SlotsApart'
  BY <1>1 DEF SlotsApart
<1>5. ASSUME NEW k \in Markets, positions'[k].qty > 0
      PROVE  k \in late' \/ (positions[k].qty > 0 /\ (k \in late => k \in late'))
  <2>1. /\ positions[k].qty \in Nat /\ positions[m].qty \in Nat
    BY <1>1 DEF Accounts
  <2>2. CASE k = m
    <3>1. p.qty # 0
      BY <1>2, <1>5, <2>2
    <3> QED
      BY <2>1, <2>2, <3>1 DEF PositionMoves
  <2>3. CASE k # m
    BY <1>2, <1>5, <2>3 DEF PositionMoves
  <2> QED
    BY <2>2, <2>3
<1>6. NewOnly'
  <2>1. pick \in Candidates \/ stage \notin InHand
    BY DEF SweepOK
  <2>2. offers \subseteq Candidates
    BY DEF SweepOK
  <2>3. \A o \in Candidates : o.market \in Markets
    BY DEF Candidates
  <2>4. (stage = "evaluating" =>
          \A k \in Markets : positions[k].qty > 0 => seen[k].qty > 0 \/ k \in late)'
    BY <1>1, <1>5 DEF NewOnly
  <2>5. (stage \in {"evaluating"} \cup Selected =>
          \A o \in offers : positions[o.market].qty > 0 => o.market \in late)'
    BY <1>1, <1>5, <2>2, <2>3 DEF NewOnly
  <2>6. (stage \in InHand => (positions[pick.market].qty > 0 => pick.market \in late))'
    BY <1>1, <1>5, <2>1, <2>3 DEF NewOnly
  <2> QED
    BY <2>4, <2>5, <2>6 DEF NewOnly
<1>7. RailsAdmitted' /\ OrderFits'
  BY <1>1 DEF RailsAdmitted, OrderFits
<1>8. ReadingsStand'
  BY <1>1 DEF ReadingsStand, PositionMoves
<1> QED
  BY <1>3, <1>4, <1>6, <1>7, <1>8

LEMMA CashMovesKeeps ==
  ASSUME NEW balance \in Balances, EntriesInd, CashMoves(balance)
  PROVE  EntriesInd'
<1> USE DEF EntriesInd
<1>1. /\ UNCHANGED <<positions, stage, ahead, charged, offers, pick, seen, bankroll, late,
                     entered>>
      /\ cash' \in Nat /\ moved' = (stage \in {"funded", "posting"})
  BY EntriesAssumption DEF CashMoves
<1>2. moves' \in 0..MaxMoves
  BY EntriesAssumption DEF CashMoves, SweepOK
<1>3. SweepOK'
  BY <1>1, <1>2 DEF SweepOK
<1>4. SlotsApart' /\ NewOnly' /\ RailsAdmitted' /\ OrderFits'
  BY <1>1 DEF SlotsApart, NewOnly, RailsAdmitted, OrderFits
<1>5. ReadingsStand'
  BY <1>1 DEF ReadingsStand
<1> QED
  BY <1>3, <1>4, <1>5

\* out of the loop, or in it with nothing in hand, little is left to show
LEMMA NothingInHand ==
  ASSUME (stage \notin InHand)'
  PROVE  RailsAdmitted' /\ OrderFits' /\ ReadingsStand'
BY DEF InHand, RailsAdmitted, OrderFits, ReadingsStand

LEMMA BeginKeeps ==
  ASSUME EntriesInd, ReadCash \/ ReadPositions
  PROVE  EntriesInd'
<1> USE DEF EntriesInd
<1>1. CASE ReadCash
  <2>1. /\ stage = "idle" /\ stage' = "started" /\ bankroll' = cash
        /\ UNCHANGED <<positions, cash, moved, late, moves, ahead, charged, offers, pick, seen,
                       entered>>
    BY <1>1 DEF ReadCash, Goes, account
  <2>2. SweepOK'
    BY <2>1 DEF SweepOK, InHand, Selected
  <2>3. SlotsApart' /\ NewOnly'
    BY <2>1 DEF SlotsApart, NewOnly, InHand, Selected
  <2> QED
    BY <2>1, <2>2, <2>3, NothingInHand DEF InHand
<1>2. CASE ReadPositions
  <2>1. /\ stage = "started" /\ stage' \in {"evaluating", "idle"} /\ ahead' \in SUBSET Markets
        /\ seen' = positions /\ charged' = FamilyCharges
        /\ offers' = {} /\ entered' = {} /\ late' = {}
        /\ UNCHANGED <<positions, cash, moved, moves, pick, bankroll>>
    BY <1>2 DEF ReadPositions, Goes
  <2>2. positions \in Accounts /\ pick = Nothing
    BY <2>1 DEF SweepOK, InHand
  <2>3. charged' \in [Markets -> Nat]
    <3>1. \A m \in Markets : Paid(positions, InFamily(m)) \in Nat
      BY <2>2, PaidTyped DEF InFamily
    <3> QED
      BY <2>1, <3>1 DEF FamilyCharges
  <2>4. SweepOK'
    BY <2>1, <2>2, <2>3 DEF SweepOK, InHand, Selected
  <2>5. SlotsApart' /\ NewOnly'
    BY <2>1 DEF SlotsApart, NewOnly, InHand, Selected
  <2> QED
    BY <2>1, <2>4, <2>5, NothingInHand DEF InHand
<1> QED
  BY <1>1, <1>2

LEMMA EvaluateKeeps ==
  ASSUME NEW m \in Markets, NEW side \in Sides, NEW price \in Prices, NEW qty \in 1..MaxQty,
         NEW conviction \in Convictions, EntriesInd, Evaluate(m, side, price, qty, conviction)
  PROVE  EntriesInd'
<1> USE DEF EntriesInd
<1>1. /\ stage = "evaluating" /\ stage' = "evaluating" /\ ahead' \subseteq ahead
      /\ UNCHANGED <<positions, cash, moved, late, moves, pick, seen, bankroll, entered>>
  BY DEF Evaluate, account
<1>2. qty \in Nat /\ Cost(qty, price) \in Nat
  BY EntriesAssumption, CostIsMonotone
<1>3. charged' \in [Markets -> Nat]
  <2>1. charged \in [Markets -> Nat]
    BY DEF SweepOK
  <2>2. \A k \in Markets : charged[k] + Cost(qty, price) \in Nat
    BY <1>2, <2>1
  <2> QED
    BY <2>1, <2>2 DEF Evaluate
<1>4. PICK o \in Candidates : o = [market |-> m, side |-> side, price |-> price, qty |-> qty,
                                   conviction |-> conviction, budget |-> 0]
  <2>1. [market |-> m, side |-> side, price |-> price, qty |-> qty,
         conviction |-> conviction, budget |-> 0] \in Candidates
    <3>1. 0 \in Int
      OBVIOUS
    <3> QED
      BY <3>1, Zenon DEF Candidates
  <2> QED
    BY <2>1, Zenon
<1>5. offers' \subseteq Candidates
      /\ \A x \in offers' : x \in offers \/ (x = o /\ seen[m].qty = 0)
  <2>1. offers \subseteq Candidates /\ seen[m].qty \in Nat
    BY DEF SweepOK, Accounts
  <2> QED
    BY <1>4, <2>1 DEF Evaluate, AlreadyHeld
<1>6. SweepOK'
  BY <1>1, <1>3, <1>5 DEF SweepOK, InHand
<1>7. SlotsApart'
  BY <1>1 DEF SlotsApart, Selected, InHand
<1>8. NewOnly'
  <2>1. ASSUME NEW x \in offers', positions'[x.market].qty > 0 PROVE x.market \in late'
    <3>1. CASE x \in offers
      BY <1>1, <2>1, <3>1 DEF NewOnly
    <3>2. CASE x = o /\ seen[m].qty = 0
      <4>1. x.market = m
        BY <1>4, <3>2
      <4> QED
        BY <1>1, <2>1, <3>2, <4>1 DEF NewOnly
    <3> QED
      BY <1>5, <3>1, <3>2
  <2>2. stage' \notin InHand
    BY <1>1 DEF InHand
  <2> QED
    BY <1>1, <2>1, <2>2 DEF NewOnly
<1> QED
  BY <1>1, <1>6, <1>7, <1>8, NothingInHand DEF InHand

LEMMA SkipKeeps ==
  ASSUME NEW m \in Markets, EntriesInd, NotApproved(m)
  PROVE  EntriesInd'
<1> USE DEF EntriesInd
<1>1. /\ stage = "evaluating" /\ stage' = "evaluating" /\ ahead' \subseteq ahead
      /\ UNCHANGED <<positions, cash, moved, late, moves, charged, offers, pick, seen, bankroll,
                     entered>>
  BY DEF NotApproved, account
<1>2. SweepOK'
  BY <1>1 DEF SweepOK
<1>3. SlotsApart' /\ NewOnly'
  BY <1>1 DEF SlotsApart, NewOnly
<1> QED
  BY <1>1, <1>2, <1>3, NothingInHand DEF InHand

LEMMA SelectKeeps ==
  ASSUME EntriesInd, Select
  PROVE  EntriesInd'
<1> USE DEF EntriesInd
<1>1. /\ stage = "evaluating" /\ stage' = "loop"
      /\ offers' \subseteq offers
      /\ \A o, p \in offers' : Slot[o.market] = Slot[p.market] => o = p
      /\ charged' = [m \in Markets |-> 0]
      /\ bankroll' = 0 /\ seen' = [m \in Markets |-> Flat0]
      /\ UNCHANGED <<positions, cash, moved, late, moves, ahead, pick, entered>>
  BY DEF Select, Goes, BestOfSlots, NothingRead, account
<1>2. seen' \in Accounts
  BY <1>1 DEF Accounts, Flat0, Position, Sides
<1>3. SweepOK'
  BY <1>1, <1>2 DEF SweepOK, InHand, Selected
<1>4. SlotsApart' /\ NewOnly'
  BY <1>1 DEF SlotsApart, NewOnly, InHand, Selected
<1> QED
  BY <1>1, <1>3, <1>4, NothingInHand DEF InHand

-----------------------------------------------------------------------------
(* The candidate loop.                                                     *)

LEMMA DropKeeps ==
  ASSUME EntriesInd, stage \in Selected, Drops,
         UNCHANGED <<positions, cash, late, moves, ahead, charged, offers, entered>>,
         moved' \in BOOLEAN
  PROVE  EntriesInd'
<1> USE DEF EntriesInd
<1>1. /\ stage' = "loop" /\ pick' = Nothing /\ bankroll' = 0
      /\ seen' = [m \in Markets |-> Flat0]
  BY DEF Drops, Goes, EmptyHanded, NothingRead
<1>2. seen' \in Accounts
  BY <1>1 DEF Accounts, Flat0, Position, Sides
<1>3. SweepOK'
  BY <1>1, <1>2 DEF SweepOK, InHand, Selected
<1>4. SlotsApart' /\ NewOnly'
  BY <1>1 DEF SlotsApart, NewOnly, InHand, Selected
<1> QED
  BY <1>1, <1>3, <1>4, NothingInHand DEF InHand

LEMMA LoopKeeps ==
  ASSUME EntriesInd, (\E o \in offers : Veto(o) \/ RefreshBook(o)) \/ Turn \/ EndSweepOfMarkets
  PROVE  EntriesInd'
<1> USE DEF EntriesInd
<1>1. ASSUME NEW o \in offers, Veto(o) PROVE EntriesInd'
  <2>1. /\ stage = "loop" /\ offers' \subseteq offers
        /\ UNCHANGED <<positions, cash, moved, late, moves, stage, ahead, charged, pick, seen,
                       bankroll, entered>>
    BY <1>1 DEF Veto, account
  <2>2. SweepOK'
    BY <2>1 DEF SweepOK
  <2>3. SlotsApart' /\ NewOnly'
    BY <2>1 DEF SlotsApart, NewOnly, InHand
  <2> QED
    BY <2>1, <2>2, <2>3, NothingInHand DEF InHand
<1>2. ASSUME NEW o \in offers, RefreshBook(o) PROVE EntriesInd'
  <2>1. /\ stage = "loop" /\ stage' = "admitting" /\ offers' = offers \ {o}
        /\ pick' = o /\ seen' = positions /\ o \in Candidates
        /\ UNCHANGED <<positions, cash, moved, late, moves, ahead, charged, bankroll, entered>>
    BY <1>2 DEF RefreshBook, Goes, account, SweepOK
  <2>2. SweepOK'
    BY <2>1 DEF SweepOK, InHand, Selected
  <2>3. /\ \A x, y \in offers : Slot[x.market] = Slot[y.market] => x = y
        /\ \A x \in offers : Slot[x.market] \notin entered
        /\ \A x \in offers : positions[x.market].qty > 0 => x.market \in late
    BY <2>1 DEF SlotsApart, NewOnly, Selected
  <2>4. SlotsApart'
    BY <2>1, <2>3 DEF SlotsApart, InHand
  <2>5. NewOnly'
    BY <2>1, <2>3 DEF NewOnly
  <2>6. RailsAdmitted' /\ OrderFits' /\ ReadingsStand'
    BY <2>1 DEF RailsAdmitted, OrderFits, ReadingsStand
  <2> QED
    BY <2>2, <2>4, <2>5, <2>6
<1>3. ASSUME Turn PROVE EntriesInd'
  BY <1>3, DropKeeps DEF Turn, account, Selected, InHand, SweepOK
<1>4. ASSUME EndSweepOfMarkets PROVE EntriesInd'
  <2>1. /\ stage = "loop" /\ stage' = "idle"
        /\ UNCHANGED <<positions, cash, moved, late, moves, ahead, charged, offers, pick, seen,
                       bankroll, entered>>
    BY <1>4 DEF EndSweepOfMarkets, Goes, account
  <2>2. SweepOK'
    BY <2>1 DEF SweepOK, InHand
  <2>3. SlotsApart' /\ NewOnly'
    BY <2>1 DEF SlotsApart, NewOnly, InHand, Selected
  <2> QED
    BY <2>1, <2>2, <2>3, NothingInHand DEF InHand
<1> QED
  BY <1>1, <1>2, <1>3, <1>4

\* the budget of the admission stays within the caps, on the positions it read
LEMMA CapitalFits ==
  ASSUME NEW m \in Markets, NEW n \in Nat, NEW price \in Prices, NEW balance \in Nat,
         seen \in Accounts
  PROVE  /\ CapitalFor(m, n, price, balance) \in Int
         /\ CapitalFor(m, n, price, balance) <= Cost(n, price)
         /\ CapitalFor(m, n, price, balance) + Paid(seen, Markets)
              <= (DeployedPct * balance) \div 100
         /\ CapitalFor(m, n, price, balance) + Paid(seen, InFamily(m)) <= EventBudget(balance)
<1>1. PICK d \in Nat : d = (DeployedPct * balance) \div 100
  BY BudgetsTyped
<1>2. PICK e \in Nat : e = EventBudget(balance)
  BY BudgetsTyped
<1>3. PICK p \in Nat : p = Paid(seen, Markets)
  BY PaidTyped
<1>4. PICK f \in Nat : f = Paid(seen, InFamily(m))
  BY PaidTyped DEF InFamily
<1>5. PICK c \in Nat : c = Cost(n, price)
  BY CostIsMonotone
<1>6. CapitalFor(m, n, price, balance) = Least(Least(d - p, e - f), c)
  BY <1>1, <1>2, <1>3, <1>4, <1>5 DEF CapitalFor
<1> QED
  BY <1>1, <1>2, <1>3, <1>4, <1>5, <1>6 DEF Least

LEMMA AdmitKeeps ==
  ASSUME NEW n \in 1..MaxQty, EntriesInd, Admit(n)
  PROVE  EntriesInd'
<1> USE DEF EntriesInd
<1>1. /\ stage = "admitting" /\ stage' = "planned" /\ bankroll' = cash
      /\ UNCHANGED <<positions, cash, moved, late, moves, ahead, charged, offers, seen, entered>>
  BY DEF Admit, Goes, account
<1>2. pick \in Candidates /\ seen \in Accounts /\ cash \in Nat
  BY <1>1 DEF SweepOK, InHand
<1>3. pick.market \in Markets /\ pick.price \in Prices /\ n \in Nat
  BY <1>2 DEF Candidates
<1>4. PICK b \in Int : b = CapitalFor(pick.market, n, pick.price, cash)
  BY <1>2, <1>3, CapitalFits
<1>5. pick' = [pick EXCEPT !.qty = n, !.budget = b]
  BY <1>4 DEF Admit
<1>6. /\ pick' \in Candidates /\ pick'.market = pick.market /\ pick'.side = pick.side
      /\ pick'.budget = b
  BY <1>2, <1>4, <1>5 DEF Candidates
<1>7. SweepOK'
  BY <1>1, <1>2, <1>6 DEF SweepOK, InHand, Selected
<1>8. SlotsApart'
  BY <1>1, <1>6 DEF SlotsApart, InHand, Selected
<1>9. NewOnly'
  BY <1>1, <1>6 DEF NewOnly, InHand, Selected
<1>10. RailsAdmitted'
  <2>1. PICK c \in Nat : c = Cost(n, pick.price)
    BY <1>3, CostIsMonotone
  <2>2. /\ b <= c
        /\ b + Paid(seen, Markets) <= (DeployedPct * cash) \div 100
        /\ b + Paid(seen, InFamily(pick.market)) <= EventBudget(cash)
    BY <1>2, <1>3, <1>4, <2>1, CapitalFits
  <2>3. RegionAllows(seen, pick.market, pick.side, c, cash)
    BY <2>1 DEF Admit
  <2>4. seen[pick.market].qty = 0 \/ seen[pick.market].side # pick.side
    BY DEF Admit
  <2> QED
    BY <1>1, <1>6, <2>2, <2>3, <2>4 DEF RailsAdmitted
<1>11. OrderFits' /\ ReadingsStand'
  BY <1>1 DEF OrderFits, ReadingsStand
<1> QED
  BY <1>7, <1>8, <1>9, <1>10, <1>11

LEMMA LimitFits ==
  ASSUME NEW balance \in Nat, pick \in Candidates
  PROVE  /\ Limit(balance) \in Int /\ Limit(balance) <= pick.budget /\ Limit(balance) <= balance
         /\ Limit(balance) <= PositionCap(pick.conviction)
<1>1. PICK k \in Nat : k = (KellyPct * balance) \div 100
  BY BudgetsTyped
<1>2. PICK p \in Nat : p = PositionCap(pick.conviction)
  BY BudgetsTyped DEF Candidates
<1>3. pick.budget \in Int
  BY DEF Candidates
<1>4. Limit(balance) = Least(Least(balance, pick.budget), Least(p, k))
  BY <1>1, <1>2 DEF Limit
<1> QED
  BY <1>1, <1>2, <1>3, <1>4 DEF Least

LEMMA ReplanKeeps ==
  ASSUME NEW price \in Prices, NEW visible \in 1..MaxQty, NEW n \in 0..MaxQty, EntriesInd,
         Replan(price, visible, n)
  PROVE  EntriesInd'
<1> USE DEF EntriesInd
<1>1. /\ stage = "planned" /\ stage' = "priced"
      /\ UNCHANGED <<positions, cash, moved, late, moves, ahead, charged, offers, seen, bankroll,
                     entered>>
  BY DEF Replan, Goes, account
<1>2. pick \in Candidates /\ bankroll \in Nat
  BY <1>1 DEF SweepOK, InHand
<1>3. PICK k : k = Least(Least(pick.qty, visible), n)
  OBVIOUS
<1>4. k \in 1..MaxQty /\ k <= n /\ n \in Nat
  <2>1. pick.qty \in 1..MaxQty /\ MaxQty \in Nat
    BY <1>2, EntriesAssumption DEF Candidates
  <2>2. k > 0
    BY <1>3 DEF Replan
  <2> QED
    BY <1>3, <2>1, <2>2 DEF Least
<1>5. pick' = [pick EXCEPT !.qty = k, !.price = price]
  BY <1>3 DEF Replan
<1>6. /\ pick' \in Candidates /\ pick'.market = pick.market /\ pick'.side = pick.side
      /\ pick'.budget = pick.budget /\ pick'.conviction = pick.conviction
      /\ pick'.qty = k /\ pick'.price = price
  BY <1>2, <1>4, <1>5 DEF Candidates
<1>7. SweepOK'
  BY <1>1, <1>6 DEF SweepOK, InHand, Selected
<1>8. SlotsApart'
  BY <1>1, <1>6 DEF SlotsApart, InHand, Selected
<1>9. NewOnly'
  BY <1>1, <1>6 DEF NewOnly, InHand, Selected
<1>10. RailsAdmitted'
  BY <1>1, <1>6 DEF RailsAdmitted
<1>11. OrderFits'
  <2>1. Cost(n, price) <= Limit(bankroll)
    BY DEF Replan, IsMostFor
  <2>2. k \in Nat /\ Cost(k, price) \in Nat /\ Cost(n, price) \in Nat
        /\ Cost(k, price) <= Cost(n, price)
    BY <1>4, CostIsMonotone
  <2>3. /\ pick.budget \in Int /\ PositionCap(pick.conviction) \in Nat
    BY <1>2, BudgetsTyped DEF Candidates
  <2>4. /\ Cost(k, price) <= pick.budget /\ Cost(k, price) <= bankroll
        /\ Cost(k, price) <= PositionCap(pick.conviction)
    BY <1>2, <2>1, <2>2, <2>3, LimitFits
  <2> QED
    BY <1>1, <1>6, <2>4 DEF OrderFits
<1>12. ReadingsStand'
  BY <1>1 DEF ReadingsStand
<1> QED
  BY <1>7, <1>8, <1>9, <1>10, <1>11, <1>12

LEMMA LastLooksKeep ==
  ASSUME EntriesInd, RefreshFunds \/ RefreshRiskBook
  PROVE  EntriesInd'
<1> USE DEF EntriesInd
<1>1. ASSUME NEW from \in {"priced", "funded"}, NEW to \in {"funded", "posting"},
             stage = from, stage' = to, moved' \in BOOLEAN,
             UNCHANGED <<positions, cash, late, moves, ahead, charged, offers, entered, pick, seen,
                         bankroll>>
      PROVE  /\ SweepOK' /\ SlotsApart' /\ NewOnly' /\ RailsAdmitted' /\ OrderFits'
  <2>1. stage \in InHand /\ stage' \in InHand /\ stage \in Selected /\ stage' \in Selected
        /\ stage' # "evaluating"
    BY <1>1 DEF InHand, Selected
  <2>2. SweepOK'
    BY <1>1, <2>1 DEF SweepOK
  <2>3. SlotsApart'
    BY <1>1, <2>1 DEF SlotsApart
  <2>4. NewOnly'
    BY <1>1, <2>1 DEF NewOnly
  <2>5. RailsAdmitted' /\ OrderFits'
    BY <1>1 DEF RailsAdmitted, OrderFits
  <2> QED
    BY <2>2, <2>3, <2>4, <2>5
<1>2. CASE RefreshFunds
  <2>1. /\ stage = "priced"
        /\ UNCHANGED <<positions, cash, late, moves, ahead, charged, offers, entered>>
    BY <1>2 DEF RefreshFunds
  <2>2. CASE cash >= bankroll /\ Cost(pick.qty, pick.price) <= cash
    <3>1. stage' = "funded" /\ UNCHANGED <<pick, seen, bankroll>> /\ moved' = FALSE
      BY <1>2, <2>2 DEF RefreshFunds, Goes
    <3>2. ReadingsStand'
      BY <2>1, <2>2, <3>1 DEF ReadingsStand, SweepOK
    <3> QED
      BY <1>1, <2>1, <3>1, <3>2
  <2>3. CASE ~(cash >= bankroll /\ Cost(pick.qty, pick.price) <= cash)
    BY <1>2, <2>1, <2>3, DropKeeps DEF RefreshFunds, Selected, InHand, SweepOK
  <2> QED
    BY <2>2, <2>3
<1>3. CASE RefreshRiskBook
  <2>1. /\ stage = "funded"
        /\ UNCHANGED <<positions, cash, moved, late, moves, ahead, charged, offers, entered>>
    BY <1>3 DEF RefreshRiskBook, account
  <2>2. CASE SameBook(positions, seen)
    <3>1. stage' = "posting" /\ UNCHANGED <<pick, seen, bankroll>>
      BY <1>3, <2>2 DEF RefreshRiskBook, Goes
    <3>2. ReadingsStand'
      BY <2>1, <2>2, <3>1 DEF ReadingsStand, SameBook
    <3>3. moved' \in BOOLEAN
      BY <2>1 DEF SweepOK
    <3> QED
      BY <1>1, <2>1, <3>1, <3>2, <3>3
  <2>3. CASE ~SameBook(positions, seen)
    BY <1>3, <2>1, <2>3, DropKeeps DEF RefreshRiskBook, Selected, InHand, SweepOK
  <2> QED
    BY <2>2, <2>3
<1> QED
  BY <1>2, <1>3

LEMMA PostEntryKeeps ==
  ASSUME NEW n \in 0..MaxQty, NEW price \in Prices, EntriesInd, PostEntry(n, price)
  PROVE  EntriesInd'
<1> USE DEF EntriesInd
<1>1. /\ stage = "posting" /\ stage' \in {"loop", "idle"} /\ moved' = FALSE
      /\ UNCHANGED <<late, moves, ahead, charged>>
      /\ pick' = Nothing /\ bankroll' = 0 /\ seen' = [m \in Markets |-> Flat0]
      /\ entered' = entered \cup {Slot[pick.market]}
      /\ offers' = IF stage' = "idle" THEN {} ELSE offers
  BY DEF PostEntry, EmptyHanded, NothingRead
<1>2. pick \in Candidates /\ positions \in Accounts /\ cash \in Nat
  BY <1>1 DEF SweepOK, InHand
<1>3. pick.market \in Markets /\ pick.side \in Sides /\ n \in Nat /\ offers' \subseteq offers
  BY <1>1, <1>2, EntriesAssumption DEF Candidates
<1>4. PICK p : p = After(positions[pick.market], pick.side, n, price)
  OBVIOUS
<1>5. p \in Holdings
  <2>1. positions[pick.market] \in [side : Sides, qty : Nat, paid : Nat]
    BY <1>2, <1>3 DEF Accounts
  <2> QED
    BY <1>3, <1>4, <2>1, AfterTyped DEF Holdings
<1>6. positions' = [positions EXCEPT ![pick.market] = p]
  BY <1>4 DEF PostEntry
<1>7. /\ positions' \in Accounts
      /\ \A k \in Markets : k # pick.market => positions'[k] = positions[k]
  BY <1>2, <1>5, <1>6 DEF Accounts, Holdings
<1>8. cash' \in Nat
  <2>1. PICK c \in Nat : c = IF n = 0 THEN 0 ELSE Cost(n, price)
    BY <1>3, CostIsMonotone
  <2>2. cash' = Greatest(0, cash - c)
    BY <2>1 DEF PostEntry
  <2> QED
    BY <1>2, <2>1, <2>2 DEF Greatest
<1>9. SweepOK'
  <2>1. seen' \in Accounts /\ bankroll' \in Nat
    BY <1>1 DEF Accounts, Flat0, Position, Sides
  <2>2. entered' \subseteq {Slot[m] : m \in Markets}
    BY <1>1, <1>3 DEF SweepOK
  <2>3. stage' \notin InHand /\ stage' \in {"idle"} \cup Selected
    BY <1>1 DEF InHand, Selected
  <2> QED
    BY <1>1, <1>3, <1>7, <1>8, <2>1, <2>2, <2>3 DEF SweepOK
<1>10. /\ \A x, y \in offers : Slot[x.market] = Slot[y.market] => x = y
       /\ \A x \in offers : Slot[x.market] \notin entered
       /\ \A x \in offers : Slot[x.market] # Slot[pick.market]
       /\ \A x \in offers : positions[x.market].qty > 0 => x.market \in late
       /\ \A x \in offers : x.market \in Markets
  BY <1>1 DEF SlotsApart, NewOnly, SweepOK, Candidates, Selected, InHand
<1>11. SlotsApart'
  BY <1>1, <1>3, <1>10 DEF SlotsApart, InHand, Selected
<1>12. NewOnly'
  <2>1. ASSUME NEW x \in offers', positions'[x.market].qty > 0 PROVE x.market \in late'
    <3>1. x.market # pick.market
      BY <1>3, <1>10, <2>1
    <3> QED
      BY <1>1, <1>3, <1>7, <1>10, <2>1, <3>1
  <2> QED
    BY <1>1, <2>1 DEF NewOnly, InHand
<1> QED
  BY <1>1, <1>9, <1>11, <1>12, NothingInHand DEF InHand

-----------------------------------------------------------------------------

LEMMA EntriesInitInd == ASSUME EntriesInit PROVE EntriesInd
<1> USE DEF EntriesInit
<1>1. SweepOK
  <2>1. cash \in Nat /\ 0 \in 0..MaxMoves
    BY EntriesAssumption
  <2>2. positions \in Accounts /\ seen \in Accounts
    BY DEF Accounts, Flat0, Position, Sides
  <2> QED
    BY <2>1, <2>2 DEF SweepOK, InHand
<1>2. SlotsApart /\ NewOnly /\ RailsAdmitted /\ OrderFits /\ ReadingsStand
  BY DEF SlotsApart, NewOnly, RailsAdmitted, OrderFits, ReadingsStand, InHand, Selected
<1> QED
  BY <1>1, <1>2 DEF EntriesInd

LEMMA EntriesStepInd ==
  ASSUME EntriesInd, [EntriesNext]_entriesVars
  PROVE  EntriesInd'
<1>1. ASSUME NEW m \in Markets, NEW side \in Sides, NEW qty \in 1..MaxQty, NEW price \in Prices,
             PositionMoves(m, Position(side, qty, qty * price)) \/ PositionMoves(m, Flat0)
      PROVE  EntriesInd'
  BY <1>1, PositionsBounds, PositionMovesKeeps
<1>2. ASSUME NEW m \in Markets, NEW side \in Sides, NEW price \in Prices, NEW qty \in 1..MaxQty,
             NEW conviction \in Convictions, Evaluate(m, side, price, qty, conviction)
      PROVE  EntriesInd'
  BY <1>2, EvaluateKeeps
<1>3. CASE UNCHANGED entriesVars
  <2>1. SweepOK'
    BY <1>3 DEF EntriesInd, entriesVars, SweepOK
  <2>2. SlotsApart' /\ NewOnly' /\ RailsAdmitted' /\ OrderFits' /\ ReadingsStand'
    BY <1>3 DEF EntriesInd, entriesVars, SlotsApart, NewOnly, RailsAdmitted, OrderFits,
                ReadingsStand
  <2> QED
    BY <2>1, <2>2 DEF EntriesInd
<1> QED
  BY <1>1, <1>2, <1>3, CashMovesKeeps, BeginKeeps, SkipKeeps, SelectKeeps, LoopKeeps, AdmitKeeps,
     ReplanKeeps, LastLooksKeep, PostEntryKeeps DEF EntriesNext

LEMMA EntriesIndTypes == ASSUME EntriesInd PROVE EntriesTypeOK
<1>1. Candidates \subseteq [market : Markets \cup {0}, side : Sides, price : Prices \cup {0},
                   qty : 0..MaxQty, conviction : Convictions, budget : Int]
  BY EntriesAssumption DEF Candidates
<1>2. Nothing \in [market : Markets \cup {0}, side : Sides, price : Prices \cup {0},
                   qty : 0..MaxQty, conviction : Convictions, budget : Int]
  BY EntriesAssumption DEF Nothing, Sides, Convictions
<1> QED
  BY <1>1, <1>2 DEF EntriesInd, SweepOK, EntriesTypeOK, Accounts, Selected, InHand

LEMMA EntriesIndSound == ASSUME EntriesInd PROVE EntriesSound
<1> USE DEF EntriesInd
<1>1. OneOrderPerSlot
  BY DEF OneOrderPerSlot, SlotsApart, InHand
<1>2. MeetsOnlyLate
  <2> SUFFICES ASSUME stage = "posting", positions[pick.market].qty > 0
               PROVE  /\ pick.market \in late
                      /\ positions[pick.market].side = pick.side => moved
    BY DEF MeetsOnlyLate
  <2>1. pick.market \in late
    BY DEF NewOnly, InHand
  <2>2. ASSUME positions[pick.market].side = pick.side, ~moved PROVE FALSE
    <3>1. positions = seen
      BY <2>2 DEF ReadingsStand
    <3>2. seen[pick.market].qty # 0
      BY <3>1
    <3> QED
      BY <2>2, <3>1, <3>2 DEF RailsAdmitted
  <2> QED
    BY <2>1, <2>2
<1>3. RailsHold
  <2> SUFFICES ASSUME stage = "posting", ~moved
               PROVE  LET m == pick.market  cost == Cost(pick.qty, pick.price) IN
                      /\ cost <= cash /\ cost <= PositionCap(pick.conviction)
                      /\ 100 * (Paid(positions, Markets) + cost) <= DeployedPct * cash
                      /\ Paid(positions, InFamily(m)) + cost <= EventBudget(cash)
                      /\ Magnitude(LeanAfter(positions, m, pick.side, cost))
                           <= Greatest(RegionCap(cash), Magnitude(Leaning(positions, m)))
    BY DEF RailsHold
  <2>1. /\ pick \in Candidates /\ seen \in Accounts /\ cash \in Nat /\ bankroll \in Nat
        /\ positions = seen /\ bankroll <= cash
    BY DEF SweepOK, InHand, ReadingsStand
  <2>2. pick.market \in Markets /\ pick.qty \in Nat /\ pick.price \in Prices
        /\ pick.budget \in Int /\ pick.conviction \in Convictions
    BY <2>1, EntriesAssumption DEF Candidates
  <2>3. PICK cost \in Nat : cost = Cost(pick.qty, pick.price)
    BY <2>2, CostIsMonotone
  <2>4. cost <= pick.budget /\ cost <= PositionCap(pick.conviction) /\ cost <= bankroll
    BY <2>3 DEF OrderFits
  <2>5. PICK c \in Nat : /\ pick.budget <= c
                         /\ RegionAllows(seen, pick.market, pick.side, c, bankroll)
    BY DEF RailsAdmitted
  <2>6. /\ pick.budget + Paid(seen, Markets) <= (DeployedPct * bankroll) \div 100
        /\ pick.budget + Paid(seen, InFamily(pick.market)) <= EventBudget(bankroll)
    BY DEF RailsAdmitted
  <2>7. Paid(seen, Markets) \in Nat /\ Paid(seen, InFamily(pick.market)) \in Nat
    BY <2>1, PaidTyped DEF InFamily
  <2>8. /\ EventBudget(bankroll) <= EventBudget(cash)
        /\ RegionCap(bankroll) <= RegionCap(cash)
        /\ DeployedPct * bankroll \in Nat /\ DeployedPct * cash \in Nat
        /\ DeployedPct * bankroll <= DeployedPct * cash
        /\ EventBudget(bankroll) \in Nat /\ EventBudget(cash) \in Nat
        /\ RegionCap(bankroll) \in Nat /\ RegionCap(cash) \in Nat
        /\ PositionCap(pick.conviction) \in Nat
    BY <2>1, <2>2, BudgetsGrow, BudgetsTyped
  <2>9. cost <= cash
    BY <2>1, <2>4
  <2>10. 100 * (Paid(positions, Markets) + cost) <= DeployedPct * cash
    <3>1. PICK x \in Nat : x = DeployedPct * bankroll
      BY <2>8
    <3>2. PICK p \in Nat : p = Paid(seen, Markets)
      BY <2>7
    <3>3. cost + p <= x \div 100
      BY <2>2, <2>4, <2>6, <3>1, <3>2
    <3>4. 100 * (p + cost) <= x
      BY <3>3
    <3> QED
      BY <2>1, <2>8, <3>1, <3>2, <3>4
  <2>11. Paid(positions, InFamily(pick.market)) + cost <= EventBudget(cash)
    BY <2>1, <2>2, <2>4, <2>6, <2>7, <2>8
  <2>12. Magnitude(LeanAfter(positions, pick.market, pick.side, cost))
           <= Greatest(RegionCap(cash), Magnitude(Leaning(positions, pick.market)))
    <3>1. cost <= c
      BY <2>2, <2>4, <2>5
    <3>2. Magnitude(LeanAfter(seen, pick.market, pick.side, cost))
            <= Greatest(RegionCap(bankroll), Magnitude(Leaning(seen, pick.market)))
      BY <2>1, <2>2, <2>5, <3>1, LeansBetween
    <3>3. PICK l \in Int : l = Leaning(seen, pick.market)
      BY <2>1, <2>2, LeaningTyped
    <3>4. PICK s \in {1, -1} : s = Sign(pick.market, pick.side)
      BY <2>2, SignTyped
    <3>5. LeanAfter(seen, pick.market, pick.side, cost) = l + cost * s /\ l + cost * s \in Int
      <4>1. cost * s \in Int
        BY <3>4
      <4> QED
        BY <3>3, <3>4, <4>1 DEF LeanAfter
    <3> QED
      BY <2>1, <2>8, <3>2, <3>3, <3>5 DEF Magnitude, Greatest
  <2> QED
    BY <2>3, <2>4, <2>9, <2>10, <2>11, <2>12
<1> QED
  BY <1>1, <1>2, <1>3 DEF EntriesSound

(* Every variable of a sweep keeps its type: whatever the account bought,  *)
(* sold or let cancel out, what is paid for its positions, and what the    *)
(* evaluation charges to a family, is never negative.                      *)
THEOREM EntriesTypes == EntriesSpec => []EntriesTypeOK
<1>1. EntriesInit => EntriesInd
  BY EntriesInitInd
<1>2. EntriesInd /\ [EntriesNext]_entriesVars => EntriesInd'
  BY EntriesStepInd
<1>3. EntriesInd => EntriesTypeOK
  BY EntriesIndTypes
<1> QED
  BY <1>1, <1>2, <1>3, PTL DEF EntriesSpec

(* execute_plan after _refresh_submission_risk_state: unless the account   *)
(* moved after the last look, the order that goes out leaves the cash, the *)
(* deployed cap, the event's budget, the position's cap and the region     *)
(* standing; it is the first of its slot; and it meets no position that    *)
(* was there when its contract was evaluated.                              *)
THEOREM RailsStand == EntriesSpec => []EntriesSound
<1>1. EntriesInit => EntriesInd
  BY EntriesInitInd
<1>2. EntriesInd /\ [EntriesNext]_entriesVars => EntriesInd'
  BY EntriesStepInd
<1>3. EntriesInd => EntriesSound
  BY EntriesIndSound
<1> QED
  BY <1>1, <1>2, <1>3, PTL DEF EntriesSpec

-----------------------------------------------------------------------------
(* The five together, one of them in focus.                                *)

\* a step of the whole is a step of the one in focus, and no step of the others
LEMMA StepsAreTheirs ==
  ASSUME [Next]_allVars
  PROVE  /\ [BrokerNext]_brokerVars /\ [WatermarksNext]_watermarksVars
         /\ [EntriesNext]_entriesVars /\ [ContractsNext]_contractsVars
         /\ [PaperNext]_paperVars
<1>1. CASE UNCHANGED allVars \/ LadderEnds
  BY <1>1 DEF allVars, LadderEnds
<1>2. CASE BrokerStep
  BY <1>2 DEF BrokerStep
<1>3. CASE WatermarksStep
  BY <1>3 DEF WatermarksStep
<1>4. CASE EntriesStep
  BY <1>4 DEF EntriesStep
<1>5. CASE LadderStep
  BY <1>5 DEF LadderStep
<1>6. CASE PaperStep
  BY <1>6 DEF PaperStep
<1> QED
  BY <1>1, <1>2, <1>3, <1>4, <1>5, <1>6 DEF Next

(* A run of positions, observations, entries, contracts and paper trades   *)
(* is a behaviour of each: the composition restricts them and adds         *)
(* nothing, so that what is proved of each alone holds of the whole, the   *)
(* order desk that the broker session implements included.                 *)
THEOREM SourcesAreTheirParts ==
  Spec => /\ BrokerSpec /\ WatermarksSpec /\ EntriesSpec /\ ContractsSpec /\ PaperSpec
          /\ ImplementsOrderDesk
<1>1. Init => BrokerInit /\ WatermarksInit /\ EntriesInit /\ ContractsInit /\ PaperInit
  BY DEF Init
<1>2. Spec => BrokerSpec /\ WatermarksSpec /\ EntriesSpec /\ ContractsSpec /\ PaperSpec
  BY <1>1, StepsAreTheirs, PTL
    DEF Spec, BrokerSpec, WatermarksSpec, EntriesSpec, ContractsSpec, PaperSpec
<1> QED
  BY <1>2, SessionImplementsOrderDesk

LEMMA BrokerStepTyped == BrokerTypeOK /\ [BrokerNext]_brokerVars => BrokerTypeOK'
<1>1. BrokerTypeOK /\ UNCHANGED brokerVars => BrokerTypeOK'
  BY DEF brokerVars, exchange, book, session, BrokerTypeOK, ExchangeOK, BookOK, SessionOK,
     Posted, Latest
<1> QED
  BY <1>1, NextIsAnyStep, StepTyped

(* What was proved of each module holds of the five that a run checks      *)
(* together: the composition restricts them and adds nothing.              *)
THEOREM SourcesTypes == Spec => []SourcesTypeOK
<1> DEFINE AllInd == /\ BrokerTypeOK /\ WatermarksInd /\ EntriesInd /\ ContractsInd
                     /\ PaperInd
<1>1. Init => AllInd
  BY InitTyped, WatermarksInitInd, EntriesInitInd, ContractsInitInd, PaperInitInd DEF Init
<1>2. AllInd /\ [Next]_allVars => AllInd'
  BY StepsAreTheirs, BrokerStepTyped, WatermarksStepInd, EntriesStepInd, ContractsStepInd,
     PaperStepInd
<1>3. AllInd => SourcesTypeOK
  BY EntriesIndTypes, PaperIndTypes DEF WatermarksInd, ContractsInd, SourcesTypeOK
<1> QED
  BY <1>1, <1>2, <1>3, PTL DEF Spec
=============================================================================
