-------------------------- MODULE Outcomes_proofs --------------------------
(***************************************************************************)
(* Theorems of Outcomes, for any number of processes, markets, answers and *)
(* faults: types; no answer is recorded twice running; the cockpit's row   *)
(* follows the record; and the two writers implement ResolutionRegister.   *)
(***************************************************************************)
EXTENDS Outcomes, FiniteSetTheorems, SequenceTheorems, TLAPS

\* a process that holds a market holds an answer that market gave
InHand == {"asked", "write", "legacy"}
HeldWasGiven == \A p \in Procs :
  sync[p].at \in InHand =>
    sync[p].ticker \in Tickers /\ sync[p].answer \in 1..Len(market[sync[p].ticker])

RecordedWasGiven == \A t \in Tickers : \A i \in DOMAIN revisions[t] :
  revisions[t][i] \in 1..Len(market[t])

\* about to write, a process knows a revision that is still the last one and
\* differs from its answer, or one that the unique index will refuse
Fresh(p) ==
  LET t == sync[p].ticker
      known == sync[p].known
  IN /\ known <= Len(revisions[t])
     /\ known = Len(revisions[t]) => (known = 0 \/ revisions[t][known] # sync[p].answer)
WritesAreFresh == \A p \in Procs : sync[p].at = "write" => Fresh(p)

OutcomesInd == OutcomesTypeOK /\ HeldWasGiven /\ RecordedWasGiven /\ WritesAreFresh /\ NoAnswerTwice

-----------------------------------------------------------------------------
LEMMA RestingTyped == Resting \in Sweeps /\ Resting.at \notin InHand
BY DEF Resting, Sweeps, Places, InHand

\* the step of one process that only moves on in its sweep, empty-handed
Moves(p) ==
  /\ p \in Procs
  /\ \E s \in Sweeps : s.at \notin InHand /\ sync' = [sync EXCEPT ![p] = s]
  /\ UNCHANGED <<closed, market, revisions>>

LEMMA OnwardMoves ==
  ASSUME OutcomesTypeOK, NEW p \in Procs, Onward(p), UNCHANGED <<closed, market, revisions>>
  PROVE  Moves(p)
<1>1. [Resting EXCEPT !.at = "ask", !.todo = sync[p].todo \ {sync[p].ticker}] \in Sweeps
  BY DEF OutcomesTypeOK, Resting, Sweeps, Places
<1>2. [Resting EXCEPT !.at = "ask", !.todo = sync[p].todo \ {sync[p].ticker}].at \notin InHand
  BY DEF Resting, InHand
<1> QED
  BY <1>1, <1>2 DEF Onward, Moves

LEMMA RestMoves ==
  ASSUME NEW p \in Procs, sync' = [sync EXCEPT ![p] = Resting],
         UNCHANGED <<closed, market, revisions>>
  PROVE  Moves(p)
BY RestingTyped DEF Moves

\* its todo list changes, and it holds nothing
LEMMA TodoMoves ==
  ASSUME OutcomesTypeOK, NEW p \in Procs, NEW rest \in SUBSET Tickers,
         NEW place \in {"ask", "guess"},
         sync' = [sync EXCEPT ![p] = [Resting EXCEPT !.at = place, !.todo = rest]]
           \/ (sync[p].at = place /\ sync' = [sync EXCEPT ![p].todo = rest]),
         UNCHANGED <<closed, market, revisions>>
  PROVE  Moves(p)
<1>1. CASE sync' = [sync EXCEPT ![p] = [Resting EXCEPT !.at = place, !.todo = rest]]
  <2>1. [Resting EXCEPT !.at = place, !.todo = rest] \in Sweeps
    BY DEF Resting, Sweeps, Places
  <2>2. [Resting EXCEPT !.at = place, !.todo = rest].at \notin InHand
    BY DEF Resting, InHand
  <2> QED
    BY <1>1, <2>1, <2>2 DEF Moves
<1>2. CASE sync[p].at = place /\ sync' = [sync EXCEPT ![p].todo = rest]
  <2>1. [sync[p] EXCEPT !.todo = rest] \in Sweeps
    BY DEF OutcomesTypeOK, Sweeps
  <2>2. [sync[p] EXCEPT !.todo = rest].at \notin InHand
    BY <1>2 DEF OutcomesTypeOK, Sweeps, InHand
  <2>3. sync' = [sync EXCEPT ![p] = [sync[p] EXCEPT !.todo = rest]]
    BY <1>2
  <2> QED
    BY <2>1, <2>2, <2>3 DEF Moves
<1> QED
  BY <1>1, <1>2

LEMMA MovesKeepInd ==
  ASSUME OutcomesInd, NEW p \in Procs, Moves(p)
  PROVE  /\ sync' \in [Procs -> Sweeps]
         /\ HeldWasGiven' /\ RecordedWasGiven' /\ WritesAreFresh' /\ NoAnswerTwice'
<1>1. PICK s \in Sweeps : s.at \notin InHand /\ sync' = [sync EXCEPT ![p] = s]
  BY DEF Moves
<1>2. sync' \in [Procs -> Sweeps]
  BY <1>1 DEF OutcomesInd, OutcomesTypeOK
<1>3. \A q \in Procs : sync'[q].at \in InHand => sync'[q] = sync[q]
  BY <1>1 DEF OutcomesInd, OutcomesTypeOK
<1>4. UNCHANGED <<market, revisions>>
  BY DEF Moves
<1>5. HeldWasGiven'
  BY <1>3, <1>4 DEF OutcomesInd, HeldWasGiven
<1>6. WritesAreFresh'
  BY <1>3, <1>4 DEF OutcomesInd, WritesAreFresh, Fresh, InHand
<1>7. RecordedWasGiven' /\ NoAnswerTwice'
  BY <1>4 DEF OutcomesInd, RecordedWasGiven, NoAnswerTwice
<1> QED
  BY <1>2, <1>5, <1>6, <1>7

-----------------------------------------------------------------------------
(* The steps that hold a market, or change what is recorded or given.      *)

LEMMA FinalizeKeepsInd ==
  ASSUME OutcomesInd, NEW t \in Tickers, NEW side \in Sides, Finalize(t, side)
  PROVE  /\ market' \in [Tickers -> Seq(Sides)]
         /\ HeldWasGiven' /\ RecordedWasGiven' /\ WritesAreFresh' /\ NoAnswerTwice'
<1>1. /\ market[t] \in Seq(Sides)
      /\ market' = [market EXCEPT ![t] = Append(@, side)]
      /\ UNCHANGED <<revisions, sync>>
  BY DEF OutcomesInd, OutcomesTypeOK, Finalize, records
<1>2. Append(market[t], side) \in Seq(Sides) /\ Len(Append(market[t], side)) = Len(market[t]) + 1
  BY <1>1
<1>3. market' \in [Tickers -> Seq(Sides)]
  BY <1>1, <1>2 DEF OutcomesInd, OutcomesTypeOK
<1>4. \A u \in Tickers : Len(market[u]) \in Nat /\ Len(market'[u]) \in Nat
                         /\ Len(market[u]) <= Len(market'[u])
  <2> TAKE u \in Tickers
  <2>1. market[u] \in Seq(Sides)
    BY DEF OutcomesInd, OutcomesTypeOK
  <2>2. market'[u] = IF u = t THEN Append(market[t], side) ELSE market[u]
    BY <1>1 DEF OutcomesInd, OutcomesTypeOK
  <2>3. Len(market[u]) \in Nat
    BY <2>1
  <2> QED
    BY <1>2, <2>2, <2>3
<1>5. HeldWasGiven'
  <2> SUFFICES ASSUME NEW p \in Procs, sync[p].at \in InHand
               PROVE  sync[p].ticker \in Tickers
                      /\ sync[p].answer \in 1..Len(market'[sync[p].ticker])
    BY <1>1 DEF HeldWasGiven
  <2>1. sync[p].ticker \in Tickers /\ sync[p].answer \in 1..Len(market[sync[p].ticker])
    BY DEF OutcomesInd, HeldWasGiven
  <2> QED
    BY <1>4, <2>1
<1>6. RecordedWasGiven'
  <2> SUFFICES ASSUME NEW u \in Tickers, NEW i \in DOMAIN revisions[u]
               PROVE  revisions[u][i] \in 1..Len(market'[u])
    BY <1>1 DEF RecordedWasGiven
  <2>1. revisions[u][i] \in 1..Len(market[u])
    BY DEF OutcomesInd, RecordedWasGiven
  <2> QED
    BY <1>4, <2>1
<1>7. WritesAreFresh' /\ NoAnswerTwice'
  BY <1>1 DEF OutcomesInd, WritesAreFresh, Fresh, NoAnswerTwice
<1> QED
  BY <1>3, <1>5, <1>6, <1>7

LEMMA AskKeepsInd ==
  ASSUME OutcomesInd, NEW p \in Procs, NEW t \in Tickers, Ask(p, t)
  PROVE  /\ sync' \in [Procs -> Sweeps]
         /\ HeldWasGiven' /\ RecordedWasGiven' /\ WritesAreFresh' /\ NoAnswerTwice'
<1>1. CASE market[t] = <<>>
  <2>1. sync[p].at = "ask" /\ sync' = [sync EXCEPT ![p].todo = sync[p].todo \ {t}]
    BY <1>1 DEF Ask
  <2>2. sync[p].todo \ {t} \in SUBSET Tickers
    BY DEF OutcomesInd, OutcomesTypeOK, Sweeps
  <2>3. Moves(p)
    BY <2>1, <2>2, TodoMoves DEF OutcomesInd, Ask, records
  <2> QED
    BY <2>3, MovesKeepInd
<1>2. CASE market[t] # <<>>
  <2>1. sync' = [sync EXCEPT ![p].at = "asked", ![p].ticker = t, ![p].answer = Len(market[t])]
        /\ UNCHANGED <<market, revisions>>
    BY <1>2 DEF Ask, records
  <2>2. market[t] \in Seq(Sides) /\ sync[p] \in Sweeps
    BY DEF OutcomesInd, OutcomesTypeOK
  <2>3. Len(market[t]) \in Nat /\ Len(market[t]) \in 1..Len(market[t])
    BY <1>2, <2>2, EmptySeq
  <2>4. \A q \in Procs \ {p} : sync'[q] = sync[q]
    BY <2>1 DEF OutcomesInd, OutcomesTypeOK
  <2>5. sync'[p] = [sync[p] EXCEPT !.at = "asked", !.ticker = t, !.answer = Len(market[t])]
    BY <2>1 DEF OutcomesInd, OutcomesTypeOK
  <2>6. sync'[p] = [at |-> "asked", todo |-> sync[p].todo, ticker |-> t,
                    answer |-> Len(market[t]), known |-> sync[p].known]
    BY <2>2, <2>5 DEF Sweeps
  <2>7. sync'[p] \in Sweeps
    BY <2>2, <2>3, <2>6 DEF Sweeps, Places
  <2>8. sync' \in [Procs -> Sweeps]
    BY <2>1, <2>4, <2>7 DEF OutcomesInd, OutcomesTypeOK
  <2>9. HeldWasGiven'
    <3> SUFFICES ASSUME NEW q \in Procs, sync'[q].at \in InHand
                 PROVE  sync'[q].ticker \in Tickers
                        /\ sync'[q].answer \in 1..Len(market[sync'[q].ticker])
      BY <2>1 DEF HeldWasGiven
    <3>1. CASE q = p
      BY <2>3, <2>6, <3>1
    <3>2. CASE q # p
      BY <2>4, <3>2 DEF OutcomesInd, HeldWasGiven
    <3> QED
      BY <3>1, <3>2
  <2>10. WritesAreFresh'
    <3> SUFFICES ASSUME NEW q \in Procs, sync'[q].at = "write"
                 PROVE  Fresh(q)'
      BY <2>1 DEF WritesAreFresh, Fresh
    <3>1. q # p
      BY <2>6
    <3> QED
      BY <2>1, <2>4, <3>1 DEF OutcomesInd, WritesAreFresh, Fresh
  <2>11. RecordedWasGiven' /\ NoAnswerTwice'
    BY <2>1 DEF OutcomesInd, RecordedWasGiven, NoAnswerTwice
  <2> QED
    BY <2>8, <2>9, <2>10, <2>11
<1> QED
  BY <1>1, <1>2

LEMMA ReadCurrentKeepsInd ==
  ASSUME OutcomesInd, NEW p \in Procs, ReadCurrent(p)
  PROVE  /\ sync' \in [Procs -> Sweeps]
         /\ HeldWasGiven' /\ RecordedWasGiven' /\ WritesAreFresh' /\ NoAnswerTwice'
<1> DEFINE t == sync[p].ticker
           answer == sync[p].answer
           place == IF SameAnswer(t, answer) THEN "legacy" ELSE "write"
<1>1. /\ sync[p].at = "asked" /\ UNCHANGED <<market, revisions>>
      /\ sync' = [sync EXCEPT ![p].known = Len(revisions[t]), ![p].at = place]
  BY DEF ReadCurrent, records
<1>2. sync[p] \in Sweeps /\ t \in Tickers /\ answer \in 1..Len(market[t])
  BY <1>1 DEF OutcomesInd, OutcomesTypeOK, HeldWasGiven, InHand
<1>3. revisions[t] \in Seq(Nat \ {0}) /\ Len(revisions[t]) \in Nat
  BY <1>2 DEF OutcomesInd, OutcomesTypeOK
<1>4. \A q \in Procs \ {p} : sync'[q] = sync[q]
  BY <1>1 DEF OutcomesInd, OutcomesTypeOK
<1>5. sync'[p] = [sync[p] EXCEPT !.known = Len(revisions[t]), !.at = place]
  BY <1>1 DEF OutcomesInd, OutcomesTypeOK
<1>6. sync'[p] = [at |-> place, todo |-> sync[p].todo, ticker |-> t,
                  answer |-> answer, known |-> Len(revisions[t])]
  BY <1>2, <1>5 DEF Sweeps
<1>7. place \in Places
  BY DEF Places
<1>8. sync'[p] \in Sweeps
  BY <1>2, <1>3, <1>6, <1>7 DEF Sweeps
<1>9. sync' \in [Procs -> Sweeps]
  BY <1>1, <1>4, <1>8 DEF OutcomesInd, OutcomesTypeOK
<1>10. HeldWasGiven'
  <2> SUFFICES ASSUME NEW q \in Procs, sync'[q].at \in InHand
               PROVE  sync'[q].ticker \in Tickers
                      /\ sync'[q].answer \in 1..Len(market[sync'[q].ticker])
    BY <1>1 DEF HeldWasGiven
  <2>1. CASE q = p
    BY <1>2, <1>6, <2>1
  <2>2. CASE q # p
    BY <1>4, <2>2 DEF OutcomesInd, HeldWasGiven
  <2> QED
    BY <2>1, <2>2
<1>11. WritesAreFresh'
  <2> SUFFICES ASSUME NEW q \in Procs, sync'[q].at = "write"
               PROVE  Fresh(q)'
    BY <1>1 DEF WritesAreFresh, Fresh
  <2>1. CASE q = p
    <3>1. ~SameAnswer(t, answer)
      BY <1>6, <2>1
    <3>2. Len(revisions[t]) = 0 \/ revisions[t][Len(revisions[t])] # answer
      BY <1>3, <3>1, EmptySeq DEF SameAnswer, Current
    <3> QED
      BY <1>1, <1>3, <1>6, <2>1, <3>2 DEF Fresh
  <2>2. CASE q # p
    BY <1>1, <1>4, <2>2 DEF OutcomesInd, WritesAreFresh, Fresh
  <2> QED
    BY <2>1, <2>2
<1>12. RecordedWasGiven' /\ NoAnswerTwice'
  BY <1>1 DEF OutcomesInd, RecordedWasGiven, NoAnswerTwice
<1> QED
  BY <1>9, <1>10, <1>11, <1>12

\* the unique index lets only a revision in that follows the one it was read against
LEMMA WriteRevisionKeepsInd ==
  ASSUME OutcomesInd, NEW p \in Procs, WriteRevision(p)
  PROVE  /\ sync' \in [Procs -> Sweeps] /\ revisions' \in [Tickers -> Seq(Nat \ {0})]
         /\ HeldWasGiven' /\ RecordedWasGiven' /\ WritesAreFresh' /\ NoAnswerTwice'
<1> DEFINE t == sync[p].ticker
           answer == sync[p].answer
<1>1. sync[p].at = "write" /\ UNCHANGED <<closed, market>>
  BY DEF WriteRevision
<1>2. /\ sync[p] \in Sweeps /\ t \in Tickers
      /\ answer \in 1..Len(market[t]) /\ Fresh(p)
  BY <1>1 DEF OutcomesInd, OutcomesTypeOK, HeldWasGiven, WritesAreFresh, InHand
<1>3. revisions[t] \in Seq(Nat \ {0}) /\ market[t] \in Seq(Sides)
  BY <1>2 DEF OutcomesInd, OutcomesTypeOK
<1>4. CASE Len(revisions[t]) # sync[p].known
  <2>1. Onward(p) /\ UNCHANGED revisions
    BY <1>4 DEF WriteRevision
  <2>2. Moves(p)
    BY <1>1, <2>1, OnwardMoves DEF OutcomesInd
  <2> QED
    BY <2>1, <2>2, MovesKeepInd DEF OutcomesInd, OutcomesTypeOK
<1>5. CASE Len(revisions[t]) = sync[p].known
  <2> DEFINE longer == Append(revisions[t], answer)
  <2>1. /\ revisions' = [revisions EXCEPT ![t] = longer]
        /\ sync' = [sync EXCEPT ![p].at = "legacy"]
    BY <1>5 DEF WriteRevision
  <2>2. answer \in Nat \ {0}
    BY <1>2, <1>3
  <2>3. /\ longer \in Seq(Nat \ {0}) /\ Len(longer) = Len(revisions[t]) + 1
        /\ \A i \in 1..Len(revisions[t]) : longer[i] = revisions[t][i]
        /\ longer[Len(revisions[t]) + 1] = answer
    BY <1>3, <2>2, AppendProperties
  <2>4. Len(revisions[t]) \in Nat /\ DOMAIN longer = 1..(Len(revisions[t]) + 1)
    BY <1>3, <2>3
  <2>5. revisions'[t] = longer /\ \A u \in Tickers \ {t} : revisions'[u] = revisions[u]
    BY <1>2, <2>1 DEF OutcomesInd, OutcomesTypeOK
  <2>6. revisions' \in [Tickers -> Seq(Nat \ {0})]
    BY <1>2, <2>1, <2>3 DEF OutcomesInd, OutcomesTypeOK
  <2>7. \A q \in Procs \ {p} : sync'[q] = sync[q]
    BY <2>1 DEF OutcomesInd, OutcomesTypeOK
  <2>8. sync'[p] = [sync[p] EXCEPT !.at = "legacy"]
    BY <2>1 DEF OutcomesInd, OutcomesTypeOK
  <2>9. sync'[p] = [at |-> "legacy", todo |-> sync[p].todo, ticker |-> t,
                    answer |-> answer, known |-> sync[p].known]
    BY <1>2, <2>8 DEF Sweeps
  <2>10. sync'[p] \in Sweeps
    BY <1>2, <2>9 DEF Sweeps, Places
  <2>11. sync' \in [Procs -> Sweeps]
    BY <2>1, <2>7, <2>10 DEF OutcomesInd, OutcomesTypeOK
  <2> HIDE DEF longer
  <2>12. HeldWasGiven'
    <3> SUFFICES ASSUME NEW q \in Procs, sync'[q].at \in InHand
                 PROVE  sync'[q].ticker \in Tickers
                        /\ sync'[q].answer \in 1..Len(market[sync'[q].ticker])
      BY <1>1 DEF HeldWasGiven
    <3>1. CASE q = p
      BY <1>2, <2>9, <3>1
    <3>2. CASE q # p
      BY <2>7, <3>2 DEF OutcomesInd, HeldWasGiven
    <3> QED
      BY <3>1, <3>2
  <2>13. RecordedWasGiven'
    <3> SUFFICES ASSUME NEW u \in Tickers, NEW i \in DOMAIN revisions'[u]
                 PROVE  revisions'[u][i] \in 1..Len(market[u])
      BY <1>1 DEF RecordedWasGiven
    <3>1. CASE u # t
      BY <2>5, <3>1 DEF OutcomesInd, RecordedWasGiven
    <3>2. CASE u = t /\ i = Len(revisions[t]) + 1
      BY <1>2, <2>3, <2>5, <3>2
    <3>3. CASE u = t /\ i \in 1..Len(revisions[t])
      <4>1. revisions[t][i] \in 1..Len(market[t])
        BY <1>2, <1>3, <3>3 DEF OutcomesInd, RecordedWasGiven
      <4> QED
        BY <2>3, <2>5, <3>3, <4>1
    <3> QED
      BY <2>4, <2>5, <3>1, <3>2, <3>3
  <2>14. WritesAreFresh'
    <3> SUFFICES ASSUME NEW q \in Procs, sync'[q].at = "write"
                 PROVE  Fresh(q)'
      BY DEF WritesAreFresh
    <3>1. q # p
      BY <2>9
    <3>2. sync'[q] = sync[q] /\ Fresh(q)
      BY <2>7, <3>1 DEF OutcomesInd, WritesAreFresh
    <3>3. sync[q].known \in Nat /\ sync[q].ticker \in Tickers
      BY <3>2 DEF OutcomesInd, OutcomesTypeOK, Sweeps, HeldWasGiven, InHand
    <3>4. CASE sync[q].ticker = t
      BY <2>3, <2>4, <2>5, <3>2, <3>3, <3>4 DEF Fresh
    <3>5. CASE sync[q].ticker # t
      BY <2>5, <3>2, <3>3, <3>5 DEF Fresh
    <3> QED
      BY <3>4, <3>5
  <2>15. NoAnswerTwice'
    <3> SUFFICES ASSUME NEW u \in Tickers, NEW i \in 1..(Len(revisions'[u]) - 1)
                 PROVE  revisions'[u][i] # revisions'[u][i + 1]
      BY DEF NoAnswerTwice
    <3>1. CASE u # t
      BY <2>5, <3>1 DEF OutcomesInd, NoAnswerTwice
    <3>2. CASE u = t /\ i = Len(revisions[t])
      <4>1. i \in 1..Len(revisions[t])
        BY <2>3, <2>4, <2>5, <3>2
      <4>2. revisions[t][i] # answer
        BY <1>2, <1>5, <3>2, <4>1 DEF Fresh
      <4>3. longer[i] = revisions[t][i] /\ longer[i + 1] = answer
        BY <2>3, <3>2, <4>1
      <4> QED
        BY <2>5, <3>2, <4>2, <4>3
    <3>3. CASE u = t /\ i \in 1..(Len(revisions[t]) - 1)
      <4>1. revisions[t][i] # revisions[t][i + 1]
        BY <1>2, <3>3 DEF OutcomesInd, NoAnswerTwice
      <4>2. i \in 1..Len(revisions[t]) /\ i + 1 \in 1..Len(revisions[t])
        BY <2>4, <3>3
      <4> QED
        BY <2>3, <2>5, <3>3, <4>1, <4>2
    <3>4. u = t => i \in 1..Len(revisions[t])
      BY <2>3, <2>4, <2>5
    <3> QED
      BY <2>4, <3>1, <3>2, <3>3, <3>4
  <2> QED
    BY <2>6, <2>11, <2>12, <2>13, <2>14, <2>15
<1> QED
  BY <1>4, <1>5

-----------------------------------------------------------------------------
(* Every step keeps the invariant.                                         *)

\* the rows of forecast_resolutions stay rows
LEMMA RowsTyped ==
  ASSUME NEW basis \in {"PROVISIONAL", "CONFIRMED"}, NEW side \in Sides
  PROVE  Resolved(basis, side) \in Register!Rows /\ Unresolved \in Register!Rows
BY DEF Resolved, Unresolved, Register!Resolved, Register!Unresolved, Register!Rows

LEMMA UpdateLegacySays ==
  ASSUME OutcomesInd, NEW p \in Procs, UpdateLegacy(p)
  PROVE  \E t \in Tickers, side \in Sides :
           /\ t = sync[p].ticker /\ side \in Published[t]
           /\ legacy' = [legacy EXCEPT ![t] = Resolved("CONFIRMED", side)]
<1> DEFINE t == sync[p].ticker
           side == market[t][sync[p].answer]
<1>1. t \in Tickers /\ sync[p].answer \in 1..Len(market[t])
  BY DEF OutcomesInd, HeldWasGiven, InHand, UpdateLegacy
<1>2. market[t] \in Seq(Sides)
  BY <1>1 DEF OutcomesInd, OutcomesTypeOK
<1>3. sync[p].answer \in DOMAIN market[t] /\ side \in Sides
  BY <1>1, <1>2
<1>4. side \in Published[t]
  BY <1>1, <1>3 DEF Published
<1>5. legacy' = [legacy EXCEPT ![t] = Resolved("CONFIRMED", side)]
  BY DEF UpdateLegacy, Confirmed
<1> QED
  BY <1>1, <1>3, <1>4, <1>5

\* steps that leave the record and the market alone
LEMMA SweepMoves ==
  ASSUME OutcomesInd, NEW p \in Procs,
         \/ BeginSync(p) \/ UpdateLegacy(p) \/ BeginGuesses(p) \/ EndSync(p)
         \/ MarketFails(p) \/ SyncDies(p)
         \/ \E t \in Tickers : NoTruth(p, t) \/ AskFails(p, t)
         \/ \E t \in Tickers, side \in Sides : Observe(p, t, side)
  PROVE  Moves(p)
<1> USE DEF OutcomesInd, records
<1>1. CASE BeginSync(p)
  <2>1. DueBatch(MaxMarkets) \in SUBSET Tickers
    BY DEF DueBatch, FirstOf, Due, OutcomesTypeOK
  <2> QED
    BY <1>1, <2>1, TodoMoves DEF BeginSync
<1>2. CASE BeginGuesses(p)
  <2>1. {t \in closed : legacy[t] = Unresolved} \in SUBSET Tickers
    BY DEF OutcomesTypeOK
  <2> QED
    BY <1>2, <2>1, TodoMoves DEF BeginGuesses
<1>3. CASE EndSync(p)
  BY <1>3, RestMoves DEF EndSync
<1>4. CASE SyncDies(p)
  BY <1>4, RestMoves DEF SyncDies
<1>5. CASE UpdateLegacy(p)
  BY <1>5, OnwardMoves DEF UpdateLegacy
<1>6. CASE MarketFails(p)
  BY <1>6, OnwardMoves DEF MarketFails
<1>7. ASSUME NEW t \in Tickers,
             NoTruth(p, t) \/ AskFails(p, t) \/ \E side \in Sides : Observe(p, t, side)
      PROVE  Moves(p)
  <2>1. sync[p].todo \ {t} \in SUBSET Tickers
    BY DEF OutcomesTypeOK, Sweeps
  <2>2. /\ sync[p].at \in {"ask", "guess"}
        /\ sync' = [sync EXCEPT ![p].todo = sync[p].todo \ {t}]
        /\ UNCHANGED <<closed, market, revisions>>
    BY <1>7 DEF NoTruth, AskFails, Observe
  <2> QED
    BY <2>1, <2>2, TodoMoves
<1> QED
  BY <1>1, <1>2, <1>3, <1>4, <1>5, <1>6, <1>7

LEMMA OutcomesInitInd == OutcomesInit => OutcomesInd
<1> SUFFICES ASSUME OutcomesInit PROVE OutcomesInd
  OBVIOUS
<1>1. OutcomesTypeOK
  BY RestingTyped, OutcomesAssumption
  DEF OutcomesInit, OutcomesTypeOK, Unresolved, Register!Unresolved, Register!Rows
<1>2. HeldWasGiven /\ WritesAreFresh
  BY RestingTyped DEF OutcomesInit, HeldWasGiven, WritesAreFresh, InHand
<1>3. RecordedWasGiven /\ NoAnswerTwice
  BY DEF OutcomesInit, RecordedWasGiven, NoAnswerTwice
<1> QED
  BY <1>1, <1>2, <1>3 DEF OutcomesInd

\* what no step of a sweep does
LEMMA CutTyped ==
  ASSUME OutcomesInd, NEW p \in Procs, CutOff(p) \/ UNCHANGED cut
  PROVE  cut' \subseteq Tickers
BY DEF OutcomesInd, OutcomesTypeOK, CutOff, HeldWasGiven, InHand

LEMMA SweepLegacyTyped ==
  ASSUME OutcomesInd, NEW p \in Procs,
         \/ UNCHANGED legacy \/ UpdateLegacy(p)
         \/ \E t \in Tickers, side \in Sides : Observe(p, t, side)
  PROVE  legacy' \in [Tickers -> Register!Rows]
<1>1. CASE UNCHANGED legacy
  BY <1>1 DEF OutcomesInd, OutcomesTypeOK
<1>2. CASE UpdateLegacy(p)
  <2>1. PICK t \in Tickers, side \in Sides :
          legacy' = [legacy EXCEPT ![t] = Resolved("CONFIRMED", side)]
    BY <1>2, UpdateLegacySays
  <2>2. Resolved("CONFIRMED", side) \in Register!Rows
    BY RowsTyped
  <2> QED
    BY <2>1, <2>2 DEF OutcomesInd, OutcomesTypeOK
<1>3. ASSUME NEW t \in Tickers, NEW side \in Sides, Observe(p, t, side)
      PROVE  legacy' \in [Tickers -> Register!Rows]
  BY <1>3, RowsTyped DEF Observe, GuessIfUnresolved, OutcomesInd, OutcomesTypeOK
<1> QED
  BY <1>1, <1>2, <1>3

LEMMA OutcomesStepInd == OutcomesInd /\ [OutcomesNext]_outcomesVars => OutcomesInd'
<1> SUFFICES ASSUME OutcomesInd, [OutcomesNext]_outcomesVars PROVE OutcomesInd'
  OBVIOUS
<1> USE DEF records
<1>1. CASE UNCHANGED outcomesVars
  BY <1>1 DEF OutcomesInd, outcomesVars, OutcomesTypeOK, HeldWasGiven, RecordedWasGiven,
     WritesAreFresh, Fresh, NoAnswerTwice
<1>2. ASSUME NEW t \in Tickers, Close(t) PROVE OutcomesInd'
  <2>1. closed' \subseteq Tickers
    BY <1>2 DEF Close, OutcomesInd, OutcomesTypeOK
  <2> QED
    BY <1>2, <2>1 DEF Close, OutcomesInd, OutcomesTypeOK, HeldWasGiven, RecordedWasGiven,
       WritesAreFresh, Fresh, NoAnswerTwice
<1>3. ASSUME NEW t \in Tickers, NEW side \in Sides, Finalize(t, side) PROVE OutcomesInd'
  BY <1>3, FinalizeKeepsInd DEF Finalize, OutcomesInd, OutcomesTypeOK
<1>4. ASSUME NEW p \in Procs,
             Sweep(p) \/ MarketFails(p) \/ SyncDies(p) \/ \E t \in Tickers : AskFails(p, t)
      PROVE  OutcomesInd'
  <2>1. /\ UNCHANGED <<closed, market>>
        /\ UNCHANGED legacy \/ UpdateLegacy(p)
           \/ \E t \in Tickers, side \in Sides : Observe(p, t, side)
        /\ CutOff(p) \/ UNCHANGED cut
        /\ Fault \/ UNCHANGED faults
    BY <1>4 DEF Sweep, BeginSync, ReadCurrent, WriteRevision, UpdateLegacy, BeginGuesses,
       EndSync, Ask, NoTruth, Observe, AskFails, MarketFails, SyncDies
  <2>2. /\ closed' \subseteq Tickers /\ market' \in [Tickers -> Seq(Sides)]
        /\ legacy' \in [Tickers -> Register!Rows]
        /\ cut' \subseteq Tickers /\ faults' \in 0..MaxFaults
    BY <2>1, SweepLegacyTyped, CutTyped, OutcomesAssumption
    DEF OutcomesInd, OutcomesTypeOK, Fault
  <2>3. ASSUME UNCHANGED revisions, sync' \in [Procs -> Sweeps], HeldWasGiven',
               RecordedWasGiven', WritesAreFresh', NoAnswerTwice'
        PROVE  OutcomesInd'
    BY <2>2, <2>3 DEF OutcomesInd, OutcomesTypeOK
  <2>4. CASE ReadCurrent(p)
    BY <2>3, <2>4, ReadCurrentKeepsInd DEF ReadCurrent
  <2>5. ASSUME NEW t \in Tickers, Ask(p, t) PROVE OutcomesInd'
    BY <2>3, <2>5, AskKeepsInd DEF Ask
  <2>6. CASE WriteRevision(p)
    BY <2>2, <2>6, WriteRevisionKeepsInd DEF OutcomesInd, OutcomesTypeOK
  <2>7. CASE Moves(p)
    BY <2>3, <2>7, MovesKeepInd DEF Moves
  <2> QED
    BY <1>4, <2>4, <2>5, <2>6, <2>7, SweepMoves DEF Sweep
<1> QED
  BY <1>1, <1>2, <1>3, <1>4 DEF OutcomesNext

\* The invariant of every behaviour.
THEOREM OutcomesInvariant == OutcomesSpec => []OutcomesInd
BY OutcomesInitInd, OutcomesStepInd, PTL DEF OutcomesSpec

\* Recorded answers are answers the exchange gave, rows are rows, and a process
\* that holds a market knows which.
THEOREM OutcomesTypes == OutcomesSpec => []OutcomesTypeOK
<1>1. OutcomesInd => OutcomesTypeOK
  BY DEF OutcomesInd
<1> QED
  BY <1>1, OutcomesInvariant, PTL

\* However many processes sweep at once and whatever fails, one answer is never
\* recorded twice running: record_outcome's comparison and its insert are two
\* steps, and the unique index on (ticker, revision) suffices to join them.
THEOREM AnswersAreRecordedOnce == OutcomesSpec => []NoAnswerTwice
<1>1. OutcomesInd => NoAnswerTwice
  BY DEF OutcomesInd
<1> QED
  BY <1>1, OutcomesInvariant, PTL

-----------------------------------------------------------------------------
(* The cockpit's row follows the record.                                   *)

LEMMA OneAnswer ==
  ASSUME NEW answers \in Seq(Sides)
  PROVE  LET given == {answers[i] : i \in DOMAIN answers}
         IN  Cardinality(given) = 1 <=> \E side : given = {side}
<1> DEFINE given == {answers[i] : i \in DOMAIN answers}
<1>1. given \subseteq Sides
  OBVIOUS
<1>2. IsFiniteSet({"YES"}) /\ IsFiniteSet({"NO"}) /\ Sides = {"YES"} \cup {"NO"}
  BY FS_Singleton DEF Sides
<1>3. IsFiniteSet(given)
  BY <1>1, <1>2, FS_Union, FS_Subset
<1> HIDE DEF given
<1>4. Cardinality(given) = 1 <=> \E side : given = {side}
  BY <1>3, FS_Singleton
<1> QED
  BY <1>4 DEF given

\* the conclusion of LegacyFollowsRecord, for one market
Follows(t) == legacy[t].basis = "CONFIRMED" /\ legacy[t].side \in Published[t]
Held(t) == \E p \in Procs : sync[p].at = "legacy" /\ sync[p].ticker = t
Settled(t) == revisions[t] # <<>> /\ t \notin cut /\ Cardinality(Published[t]) = 1
Following == \A t \in Tickers : Settled(t) /\ ~Held(t) => Follows(t)

LEMMA FollowingSays == Following <=> LegacyFollowsRecord
BY DEF Following, Settled, Held, Follows, LegacyFollowsRecord

LEMMA GuessNeverOverwrites ==
  ASSUME OutcomesInd, NEW p \in Procs, NEW u \in Tickers, NEW side \in Sides, Observe(p, u, side),
         NEW t \in Tickers, legacy[t].basis = "CONFIRMED"
  PROVE  legacy'[t] = legacy[t]
<1>1. legacy[t] \in Register!Rows /\ legacy \in [Tickers -> Register!Rows]
  BY DEF OutcomesInd, OutcomesTypeOK
<1>2. legacy[t] # Unresolved
  BY DEF Unresolved, Register!Unresolved
<1> QED
  BY <1>1, <1>2 DEF Observe, GuessIfUnresolved

LEMMA FollowingStep ==
  ASSUME OutcomesInd, OutcomesInd', Following, OutcomesNext
  PROVE  Following'
<1> SUFFICES ASSUME NEW t \in Tickers, Settled(t)', ~Held(t)'
             PROVE  Follows(t)'
  BY DEF Following
<1> USE DEF records
<1> DEFINE Keeps == UNCHANGED revisions /\ Published' = Published /\ cut \subseteq cut'
<1>1. ASSUME Keeps, Follows(t) => Follows(t)', Held(t) => (t \in cut' \/ Follows(t)')
      PROVE  Follows(t)'
  <2>1. Settled(t)
    BY <1>1 DEF Settled
  <2> QED
    BY <1>1, <2>1 DEF Following, Settled
<1>2. ASSUME NEW u \in Tickers, Close(u) PROVE Follows(t)'
  BY <1>1, <1>2 DEF Close, Published, Follows, Held
<1>3. ASSUME NEW u \in Tickers, NEW side \in Sides, Finalize(u, side) PROVE Follows(t)'
  <2>1. UNCHANGED <<revisions, legacy, sync, cut>>
    BY <1>3 DEF Finalize
  <2>2. market[t] \in Seq(Sides) /\ revisions[t] \in Seq(Nat \ {0}) /\ market[t] # <<>>
    <3>1. market[t] \in Seq(Sides) /\ revisions[t] \in Seq(Nat \ {0}) /\ revisions[t] # <<>>
      BY <2>1 DEF OutcomesInd, OutcomesTypeOK, Settled
    <3>2. 1 \in DOMAIN revisions[t]
      BY <3>1, EmptySeq
    <3>3. revisions[t][1] \in 1..Len(market[t])
      BY <3>2 DEF OutcomesInd, RecordedWasGiven
    <3> QED
      BY <3>1, <3>3
  <2>3. Published[t] # {} /\ Published[t] \subseteq Published'[t]
    <3>1. 1 \in DOMAIN market[t]
      BY <2>2, EmptySeq
    <3>2. market[t][1] \in Published[t]
      BY <3>1 DEF Published
    <3>3. market' = [market EXCEPT ![u] = Append(@, side)]
      BY <1>3 DEF Finalize
    <3>4. \A i \in DOMAIN market[t] : i \in DOMAIN market'[t] /\ market'[t][i] = market[t][i]
      BY <2>2, <3>3, AppendProperties DEF OutcomesInd, OutcomesTypeOK
    <3> QED
      BY <3>2, <3>4 DEF Published
  <2>4. Cardinality(Published[t]) = 1
    <3>1. \E s : Published'[t] = {s}
      BY OneAnswer DEF OutcomesInd, OutcomesTypeOK, Settled, Published
    <3>2. \E s : Published[t] = {s}
      BY <2>3, <3>1
    <3> QED
      BY <2>2, <3>2, OneAnswer DEF Published
  <2>5. Follows(t)
    BY <2>1, <2>4 DEF Following, Settled, Held
  <2> QED
    BY <2>1, <2>3, <2>5 DEF Follows
<1>4. ASSUME NEW p \in Procs, ~UNCHANGED revisions, WriteRevision(p) PROVE Follows(t)'
  <2> DEFINE u == sync[p].ticker
  <2>1. /\ revisions' = [revisions EXCEPT ![u] = Append(@, sync[p].answer)]
        /\ sync' = [sync EXCEPT ![p].at = "legacy"]
        /\ UNCHANGED <<market, legacy, cut>>
    BY <1>4 DEF WriteRevision
  <2>2. sync'[p].at = "legacy" /\ sync'[p].ticker = u
    BY <2>1 DEF OutcomesInd, OutcomesTypeOK, Sweeps
  <2>3. t # u
    BY <2>2 DEF Held
  <2>4. revisions'[t] = revisions[t]
    BY <2>1, <2>3 DEF OutcomesInd, OutcomesTypeOK
  <2>5. ~Held(t)
    <3> SUFFICES ASSUME NEW q \in Procs, sync[q].at = "legacy", sync[q].ticker = t
                 PROVE  FALSE
      BY DEF Held
    <3>1. sync'[q] = sync[q]
      BY <2>1, <2>3 DEF OutcomesInd, OutcomesTypeOK
    <3> QED
      BY <3>1 DEF Held
  <2>6. Settled(t)
    BY <2>1, <2>4 DEF Settled, Published
  <2> QED
    BY <2>1, <2>5, <2>6 DEF Following, Follows, Published
<1>5. ASSUME NEW p \in Procs, UpdateLegacy(p) PROVE Follows(t)'
  <2>1. PICK u \in Tickers, side \in Sides :
          /\ u = sync[p].ticker /\ side \in Published[u]
          /\ legacy' = [legacy EXCEPT ![u] = Resolved("CONFIRMED", side)]
    BY <1>5, UpdateLegacySays
  <2>2. Published' = Published /\ Keeps
    BY <1>5 DEF UpdateLegacy, Published
  <2>3. CASE t = u
    <3>1. legacy'[t] = Resolved("CONFIRMED", side)
      BY <2>1, <2>3 DEF OutcomesInd, OutcomesTypeOK
    <3> QED
      BY <2>1, <2>2, <2>3, <3>1 DEF Follows, Resolved, Register!Resolved
  <2>4. CASE t # u
    <3>1. legacy'[t] = legacy[t]
      BY <2>1, <2>4 DEF OutcomesInd, OutcomesTypeOK
    <3>2. \A q \in Procs \ {p} : sync'[q] = sync[q]
      BY <1>5 DEF UpdateLegacy, Onward, OutcomesInd, OutcomesTypeOK
    <3>3. ~Held(t)
      BY <2>1, <2>4, <3>2 DEF Held
    <3> QED
      BY <1>1, <2>2, <3>1, <3>3 DEF Follows
  <2> QED
    BY <2>3, <2>4
<1>6. ASSUME NEW p \in Procs, NEW u \in Tickers, NEW side \in Sides, Observe(p, u, side)
      PROVE  Follows(t)'
  <2>1. Published' = Published /\ Keeps
    BY <1>6 DEF Observe, Published
  <2>2. Follows(t) => Follows(t)'
    BY <1>6, <2>1, GuessNeverOverwrites DEF Follows
  <2>3. ~Held(t)
    <3>1. sync'[p].at = sync[p].at /\ sync'[p].ticker = sync[p].ticker
          /\ \A q \in Procs \ {p} : sync'[q] = sync[q]
      BY <1>6 DEF Observe, OutcomesInd, OutcomesTypeOK, Sweeps
    <3> QED
      BY <3>1 DEF Held
  <2> QED
    BY <1>1, <2>1, <2>2, <2>3
<1>7. ASSUME NEW p \in Procs, UNCHANGED <<market, revisions, legacy>>,
             CutOff(p) \/ (sync[p].at # "legacy" /\ UNCHANGED cut),
             \A q \in Procs \ {p} : sync'[q] = sync[q]
      PROVE  Follows(t)'
  <2>1. Published' = Published /\ Keeps
    BY <1>7 DEF Published, CutOff
  <2>2. Held(t) => t \in cut'
    <3> SUFFICES ASSUME NEW q \in Procs, sync[q].at = "legacy", sync[q].ticker = t
                 PROVE  t \in cut'
      BY DEF Held
    <3>1. q = p
      BY <1>7 DEF Held
    <3> QED
      BY <1>7, <3>1 DEF CutOff
  <2> QED
    BY <1>1, <1>7, <2>1, <2>2 DEF Follows
<1>8. ASSUME NEW p \in Procs, Sweep(p) \/ MarketFails(p) \/ SyncDies(p)
                              \/ \E u \in Tickers : AskFails(p, u)
      PROVE  Follows(t)'
  <2>1. \/ WriteRevision(p) /\ ~UNCHANGED revisions
        \/ UpdateLegacy(p)
        \/ \E u \in Tickers, side \in Sides : Observe(p, u, side)
        \/ /\ UNCHANGED <<market, revisions, legacy>>
           /\ CutOff(p) \/ (sync[p].at # "legacy" /\ UNCHANGED cut)
    BY <1>8 DEF Sweep, BeginSync, ReadCurrent, WriteRevision, BeginGuesses, EndSync, Ask,
       NoTruth, AskFails, MarketFails, SyncDies
  <2>2. \A q \in Procs \ {p} : sync'[q] = sync[q]
    BY <1>8 DEF Sweep, BeginSync, ReadCurrent, WriteRevision, UpdateLegacy, BeginGuesses,
       EndSync, Ask, NoTruth, Observe, AskFails, MarketFails, SyncDies, Onward, OutcomesInd,
       OutcomesTypeOK
  <2> QED
    BY <1>4, <1>5, <1>6, <1>7, <2>1, <2>2
<1> QED
  BY <1>2, <1>3, <1>8 DEF OutcomesNext

\* Once the sweeps have let go of a recorded market whose answer never changed,
\* the cockpit shows what the exchange said, as CONFIRMED, unless the second
\* transaction was cut off from the first; no provisional guess comes between.
THEOREM LegacyFollows == OutcomesSpec => []LegacyFollowsRecord
<1>1. OutcomesInit => Following
  BY DEF OutcomesInit, Following, Settled
<1>2. OutcomesInd /\ OutcomesInd' /\ Following /\ [OutcomesNext]_outcomesVars => Following'
  <2>1. CASE UNCHANGED outcomesVars
    BY <2>1 DEF outcomesVars, records, Following, Settled, Held, Follows, Published
  <2> QED
    BY <2>1, FollowingStep
<1>3. OutcomesSpec => []Following
  BY <1>1, <1>2, OutcomesInvariant, PTL DEF OutcomesSpec
<1> QED
  BY <1>3, FollowingSays, PTL

-----------------------------------------------------------------------------
(* The two writers implement the register.                                 *)

LEMMA RegisterInitially == OutcomesInit => Register!RegisterInit
<1> SUFFICES ASSUME OutcomesInit PROVE Register!RegisterInit
  OBVIOUS
<1>1. \A t \in Tickers : Published[t] = {}
  BY DEF OutcomesInit, Published
<1>2. Published = [t \in Tickers |-> {}]
  BY <1>1 DEF Published
<1> QED
  BY <1>2 DEF OutcomesInit, Register!RegisterInit, Unresolved

\* a finalized answer is published, and nothing else is
LEMMA FinalizePublishes ==
  ASSUME OutcomesInd, NEW t \in Tickers, NEW side \in Sides, Finalize(t, side)
  PROVE  Published' = [Published EXCEPT ![t] = @ \cup {side}]
<1>1. /\ market[t] \in Seq(Sides) /\ market \in [Tickers -> Seq(Sides)]
      /\ market' = [market EXCEPT ![t] = Append(@, side)]
  BY DEF OutcomesInd, OutcomesTypeOK, Finalize
<1>2. {Append(market[t], side)[i] : i \in DOMAIN Append(market[t], side)}
        = {market[t][i] : i \in DOMAIN market[t]} \cup {side}
  <2> DEFINE longer == Append(market[t], side)
  <2>1. /\ Len(market[t]) \in Nat /\ DOMAIN market[t] = 1..Len(market[t])
        /\ DOMAIN longer = 1..(Len(market[t]) + 1)
        /\ longer[Len(market[t]) + 1] = side
        /\ \A i \in 1..Len(market[t]) : longer[i] = market[t][i]
    BY <1>1, AppendProperties
  <2> HIDE DEF longer
  <2>2. \A i \in DOMAIN longer : i \in DOMAIN market[t] \/ i = Len(market[t]) + 1
    BY <2>1
  <2>3. DOMAIN market[t] \subseteq DOMAIN longer /\ Len(market[t]) + 1 \in DOMAIN longer
    BY <2>1
  <2>4. {longer[i] : i \in DOMAIN longer} = {market[t][i] : i \in DOMAIN market[t]} \cup {side}
    BY <2>1, <2>2, <2>3
  <2> QED
    BY <2>4 DEF longer
<1>3. Published'[t] = Published[t] \cup {side}
  BY <1>1, <1>2 DEF Published
<1>4. \A u \in Tickers \ {t} : Published'[u] = Published[u]
  BY <1>1 DEF Published
<1>5. Published' = [u \in Tickers |-> Published'[u]] /\ Published = [u \in Tickers |-> Published[u]]
  BY DEF Published
<1>6. [Published EXCEPT ![t] = @ \cup {side}]
        = [u \in Tickers |-> IF u = t THEN Published[t] \cup {side} ELSE Published[u]]
  BY <1>5
<1>7. Published' = [u \in Tickers |-> IF u = t THEN Published[t] \cup {side} ELSE Published[u]]
  BY <1>3, <1>4, <1>5
<1> QED
  BY <1>6, <1>7

LEMMA RegisterSteps ==
  OutcomesInd /\ [OutcomesNext]_outcomesVars => [Register!RegisterNext]_(Register!registerVars)
<1> SUFFICES ASSUME OutcomesInd, [OutcomesNext]_outcomesVars
             PROVE  [Register!RegisterNext]_(Register!registerVars)
  OBVIOUS
<1> USE DEF records, Register!registerVars
<1>1. CASE UNCHANGED <<market, legacy>>
  BY <1>1 DEF Published
<1>2. ASSUME NEW t \in Tickers, NEW side \in Sides, Finalize(t, side)
      PROVE  Register!RegisterNext
  BY <1>2, FinalizePublishes DEF Finalize, Register!RegisterNext, Register!Publish
<1>3. ASSUME NEW p \in Procs, UpdateLegacy(p) PROVE Register!RegisterNext
  <2>1. PICK t \in Tickers, side \in Sides :
          /\ side \in Published[t]
          /\ legacy' = [legacy EXCEPT ![t] = Resolved("CONFIRMED", side)]
    BY <1>3, UpdateLegacySays
  <2>2. Published' = Published
    BY <1>3 DEF UpdateLegacy, Published
  <2>3. Register!Confirm(t, side)
    BY <2>1, <2>2 DEF Register!Confirm, Resolved
  <2> QED
    BY <2>3 DEF Register!RegisterNext
<1>4. ASSUME NEW p \in Procs, NEW t \in Tickers, NEW side \in Sides, Observe(p, t, side)
      PROVE  [Register!RegisterNext]_(Register!registerVars)
  <2>1. Published' = Published
    BY <1>4 DEF Observe, Published
  <2>2. CASE legacy[t] = Unresolved
    <3>1. legacy' = [legacy EXCEPT ![t] = Resolved("PROVISIONAL", side)]
      BY <1>4, <2>2 DEF Observe, GuessIfUnresolved
    <3>2. Register!Guess(t, side)
      BY <2>1, <2>2, <3>1 DEF Register!Guess, Resolved, Unresolved
    <3> QED
      BY <3>2 DEF Register!RegisterNext
  <2>3. CASE legacy[t] # Unresolved
    <3>1. legacy' = legacy
      BY <1>4, <2>3 DEF Observe, GuessIfUnresolved, OutcomesInd, OutcomesTypeOK
    <3> QED
      BY <2>1, <3>1
  <2> QED
    BY <2>2, <2>3
<1>5. ASSUME NEW p \in Procs, Sweep(p) \/ MarketFails(p) \/ SyncDies(p)
                              \/ \E t \in Tickers : AskFails(p, t)
      PROVE  \/ UNCHANGED <<market, legacy>> \/ UpdateLegacy(p)
             \/ \E t \in Tickers, side \in Sides : Observe(p, t, side)
  BY <1>5 DEF Sweep, BeginSync, ReadCurrent, WriteRevision, BeginGuesses, EndSync, Ask,
     NoTruth, AskFails, MarketFails, SyncDies
<1>6. ASSUME NEW t \in Tickers, Close(t) PROVE UNCHANGED <<market, legacy>>
  BY <1>6 DEF Close
<1> QED
  BY <1>1, <1>2, <1>3, <1>4, <1>5, <1>6 DEF OutcomesNext, outcomesVars

\* The sweeps of any number of processes implement ResolutionRegister: in
\* whatever order the official and the provisional writer come, an official
\* result is never turned back into a guess, and nothing is confirmed that the
\* exchange has not published.
THEOREM OutcomesImplementsRegister == OutcomesSpec => ImplementsRegister
BY RegisterInitially, RegisterSteps, OutcomesInvariant, PTL
DEF OutcomesSpec, ImplementsRegister, Register!RegisterSpec
=============================================================================
