------------------------------ MODULE FIFOBook ------------------------------
(***************************************************************************)
(* What a limit order book promises, without price levels, linked lists or *)
(* pointers: a set of resting orders and at most one incoming order.  The  *)
(* incoming order trades with the resting order of the other side that     *)
(* comes first in price-time priority, as long as their prices cross; what *)
(* is left of it then rests.  An order leaves the book only when it is     *)
(* filled or when its owner withdraws it.                                  *)
(*                                                                         *)
(* OrderBook.tla, the book of the matching engine, implements this module. *)
(***************************************************************************)
EXTENDS Integers, Functions

CONSTANTS
  User,      \* owners of orders
  Price,     \* limit prices
  OrderId,   \* identities of orders
  Word       \* quantities are smaller than Word

Side == {"buy", "sell"}
Other(s) == IF s = "buy" THEN "sell" ELSE "buy"
Qty == 0 .. Word - 1

(***************************************************************************)
(* Crosses: an incoming order of side s with limit p may trade at price q. *)
(* Better: on the resting side s, price p is matched before price q.       *)
(***************************************************************************)
Crosses(s, p, q) == IF s = "buy" THEN q <= p ELSE q >= p
Better(s, p, q)  == IF s = "buy" THEN p > q ELSE p < q

VARIABLES
  resting,   \* id -> [user, side, price, qty, time], the orders in the book
  incoming,  \* NoOrder, or the order being matched
  now        \* the time at which the next order will rest

fvars == <<resting, incoming, now>>

RestingOrder == [user : User, side : Side, price : Price, qty : Qty, time : Nat]
NewOrder     == [id : OrderId, user : User, side : Side, price : Price, qty : Qty]
NoOrder      == <<>>

(***************************************************************************)
(* i is matched before j: a better price, or the same price and earlier.   *)
(***************************************************************************)
Before(i, j) ==
  LET a == resting[i]  b == resting[j] IN
  \/ Better(a.side, a.price, b.price)
  \/ a.price = b.price /\ a.time < b.time

Matchable(i) == /\ resting[i].side = Other(incoming.side)
                /\ Crosses(incoming.side, incoming.price, resting[i].price)

(* i is the resting order the incoming order must trade with next. *)
First(i) == /\ Matchable(i)
            /\ \A j \in DOMAIN resting \ {i} :
                 resting[j].side = resting[i].side => Before(i, j)

Put(f, k, v) == [x \in DOMAIN f \cup {k} |-> IF x = k THEN v ELSE f[x]]
LowerQty(a, b) == IF a < b THEN a ELSE b
Without(i) == Restrict(resting, DOMAIN resting \ {i})
-----------------------------------------------------------------------------
FInit == resting = << >> /\ incoming = NoOrder /\ now = 0

Arrive == /\ incoming = NoOrder
          /\ incoming' \in NewOrder
          /\ incoming'.id \notin DOMAIN resting
          /\ UNCHANGED <<resting, now>>

(* The owner's order i leaves the book and comes back with a new limit. *)
Replace(i) == /\ incoming = NoOrder
              /\ incoming' \in NewOrder
              /\ incoming'.id = i
              /\ incoming'.user = resting[i].user
              /\ incoming'.side = resting[i].side
              /\ incoming'.price # resting[i].price
              /\ resting' = Without(i)
              /\ UNCHANGED now

Fill(i) ==
  /\ incoming # NoOrder
  /\ First(i)
  /\ LET q == LowerQty(incoming.qty, resting[i].qty) IN
     /\ incoming' = [incoming EXCEPT !.qty = @ - q]
     /\ resting' = IF resting[i].qty = q
                   THEN Without(i)
                   ELSE [resting EXCEPT ![i].qty = @ - q]
  /\ UNCHANGED now

Exhausted == /\ incoming # NoOrder
             /\ incoming.qty = 0
             /\ incoming' = NoOrder
             /\ UNCHANGED <<resting, now>>

Rest ==
  /\ incoming # NoOrder
  /\ \A i \in DOMAIN resting : ~Matchable(i)
  /\ resting' = Put(resting, incoming.id,
                  [user |-> incoming.user, side |-> incoming.side,
                   price |-> incoming.price, qty |-> incoming.qty, time |-> now])
  /\ incoming' = NoOrder
  /\ now' = now + 1

(* A new quantity keeps the order's place in the queue. *)
Amend(i, q) == /\ incoming = NoOrder
               /\ resting' = [resting EXCEPT ![i].qty = q]
               /\ UNCHANGED <<incoming, now>>

Withdraw(i) == /\ incoming = NoOrder
               /\ resting' = Without(i)
               /\ UNCHANGED <<incoming, now>>

FNext == \/ Arrive \/ Exhausted \/ Rest
         \/ \E i \in DOMAIN resting :
              \/ Replace(i) \/ Fill(i) \/ Withdraw(i)
              \/ \E q \in Qty : Amend(i, q)

FSpec == FInit /\ [][FNext]_fvars
=============================================================================
