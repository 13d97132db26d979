------------------------------ MODULE MC_Cycle ------------------------------
(***************************************************************************)
(* Two instances of Trading for TLC in one.  In one focus two tickers are  *)
(* traded in two orders of up to two contracts, with a position change     *)
(* from elsewhere or a crash; in the other the ultra-conviction ticker     *)
(* joins them, in three orders of one contract.                            *)
(***************************************************************************)
EXTENDS Trading, TLC

VARIABLE focus

CycleInit == TradingInit /\ focus \in {"lots", "swaps"}

CycleNext ==
  /\ TradingNext
  /\ focus = "lots"  => /\ todo' \cap Ultra = {} /\ Len(order') <= 2
                        /\ \A t \in Ultra : held'[t] = 0
                        /\ elsewhere' + crashes' <= 1
  /\ focus = "swaps" => /\ elsewhere' = 0 /\ crashes' = 0
                        /\ \A o \in DOMAIN order' : order'[o].size = 1
  /\ UNCHANGED focus

CycleSpec == CycleInit /\ [][CycleNext]_<<tradingVars, focus>>

\* tickers of one kind are interchangeable
Symmetry == Permutations(Tickers \ Ultra)

\* an order that is over, and that no call asks about, does not matter any more
WithoutPast ==
  <<held, [o \in Posted |-> IF order[o].state = "done" /\ call.order # o THEN 0
                           ELSE order[o]],
    elsewhere, book, session, at, todo, deal, db, strays, unrecorded, uncertain,
    crashes, focus>>
=============================================================================
