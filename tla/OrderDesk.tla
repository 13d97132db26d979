----------------------------- MODULE OrderDesk -----------------------------
(***************************************************************************)
(* What a broker session promises whoever sends orders through it: an      *)
(* order trades no more than was asked, an order that is over trades no    *)
(* more at all, and only of orders that are over is one told so.  Lost     *)
(* replies, cancels, listings and retries are the session's own affair.    *)
(***************************************************************************)
EXTENDS Naturals, Sequences

VARIABLES
  orders,   \* the orders there were: their size, what they traded, if they are over
  told      \* those that the last answer said are over

deskVars == <<orders, told>>

OrderDeskInit == orders = <<>> /\ told = {}

Over == {o \in DOMAIN orders : orders[o].over}

\* a new order, of whatever size, makes what was told before old
Place(new) ==
  /\ new.traded <= new.size
  /\ orders' = Append(orders, new)
  /\ told' = {}

Trades(o, traded, over) ==
  /\ ~orders[o].over
  /\ orders[o].traded <= traded /\ traded <= orders[o].size
  /\ orders' = [orders EXCEPT ![o] = [size |-> @.size, traded |-> traded, over |-> over]]
  /\ UNCHANGED told

Tell(some) ==
  /\ some \subseteq Over /\ told' = some
  /\ UNCHANGED orders

OrderDeskNext ==
  \/ \E o \in DOMAIN orders' : Place(orders'[o])
  \/ \E o \in DOMAIN orders, over \in BOOLEAN :
       \E traded \in 0..orders[o].size : Trades(o, traded, over)
  \/ \E some \in SUBSET Over : Tell(some)

OrderDeskSpec == OrderDeskInit /\ [][OrderDeskNext]_deskVars
=============================================================================
