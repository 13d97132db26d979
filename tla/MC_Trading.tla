----------------------------- MODULE MC_Trading -----------------------------
(* Instances of Trading for TLC.                                           *)
EXTENDS Trading, TLC

\* tickers of one kind are interchangeable
Symmetry == Permutations(Tickers \ Ultra)

\* an order that is over, and that no call asks about, does not matter any more
WithoutPast ==
  <<held, [o \in Posted |-> IF order[o].state = "done" /\ call.order # o THEN 0
                           ELSE order[o]],
    elsewhere, book, session, at, todo, deal, db, strays, unrecorded, uncertain,
    crashes>>
=============================================================================
