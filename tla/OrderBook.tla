----------------------------- MODULE OrderBook -----------------------------
(***************************************************************************)
(* The order book of one ticker (orderbook.cpp, orderbook.hpp, level.hpp,  *)
(* limit.hpp) and its FIFO matcher (fifomatching.hpp), with the entries of *)
(* OrderBookManager that call it.  Handlers run one at a time here: this   *)
(* is the book behind a mutex that is really held.                         *)
(*                                                                         *)
(* A Limit is named by its order id, a Level by its side and price, and a  *)
(* pointer by what it points to.  A Limit* whose order is no longer in     *)
(* limitorders_ dangles; a Level* dangles when current_level is FALSE.     *)
(* Reading through a dangling pointer is undefined behaviour: it sets      *)
(* `undefined` and the model goes no further, so that every property is    *)
(* about the executions up to that point.                                  *)
(***************************************************************************)
EXTENDS Integers, Sequences, FiniteSets, Functions

CONSTANTS
  User,            \* user ids; a user has one stream connection
  MaxPrice,        \* the largest price (2^64 - 1 in the code)
  Quantity,        \* quantities of new orders
  NewQuantity,     \* quantities orders are modified to
  Word,            \* quantities are kept modulo Word (2^32 in the code)
  FillWord,        \* a fill reports its quantity modulo FillWord (2^16)
  CountWord,       \* a level counts its orders modulo CountWord (2^16)
  MaxOrders,       \* bound: new orders entered
  MaxPlacements    \* bound: orders put in the book, a re-priced one again

ASSUME ConstantAssumption ==
  /\ MaxPrice \in Nat
  /\ Word \in Nat \ {0}
  /\ FillWord \in Nat \ {0}
  /\ CountWord \in Nat \ {0}
  /\ MaxOrders \in Nat
  /\ MaxPlacements \in Nat
  /\ Quantity \cup NewQuantity \subseteq 0 .. Word - 1

Side == {"buy", "sell"}
Other(s) == IF s = "buy" THEN "sell" ELSE "buy"
OrderId == 1 .. MaxOrders
Nil == 0                        \* nullptr
Pointer == {Nil} \cup OrderId   \* a Limit*
End == -1                       \* the past-the-end position of a side
Price == 0 .. MaxPrice
Qty == 0 .. Word - 1

NoOrder == <<>>
Order == [id : OrderId, user : User, side : Side, price : Price,
          qty : Qty, init : Qty]
Limit == [user : User, side : Side, price : Price, qty : Qty,
          next : Pointer, prev : Pointer, current_level : BOOLEAN,
          time : Nat]
Level == [head : Pointer, tail : Pointer]

(* The types of limitorders_ and of the two sides. *)
IsLimits(f) == DOMAIN f \subseteq OrderId /\ f \in [DOMAIN f -> Limit]
IsSide(l) == DOMAIN l \subseteq Price /\ l \in [DOMAIN l -> Level]
IsBook(b) == b = [s \in Side |-> b[s]] /\ \A s \in Side : IsSide(b[s])

(* f with k mapped to v: insertion into a std::map or unordered_map. *)
Put(f, k, v) == [x \in DOMAIN f \cup {k} |-> IF x = k THEN v ELSE f[x]]

VARIABLES
  limitorders,   \* limitorders_: id -> Limit
  book,          \* book["buy"] is bids_, book["sell"] is asks_: price -> Level
  orderid,       \* orderid_generator_, the ids handed out so far
  clock,         \* number of placements so far; a Limit's time is its turn
  pc,            \* where the running handler is, "idle" when none runs
  order,         \* the Order& being added
  book_itr,      \* book_itr of FIFOMatch: a price of the other side, or End
  book_order,    \* book_order of FIFOMatch
  detached,      \* book_lvl is a copy of *book_itr and not the level itself
  fills,         \* match_result.fills_
  sent,          \* what the handler has sent, responses and market data
  undefined      \* a dangling pointer was read

vars == <<limitorders, book, orderid, clock, pc, order, book_itr, book_order,
          detached, fills, sent, undefined>>
matching == <<order, book_itr, book_order, detached>>
-----------------------------------------------------------------------------
(***************************************************************************)
(* Slips: definitions of this module with one mistake each, of the kind an *)
(* edit of the code could make.  No behaviour uses them; PROJECT.json      *)
(* pairs each with the definition it would stand for and a property that   *)
(* must notice.                                                            *)
(***************************************************************************)
CrossesStrictly(s, p, q) == IF s = "buy" THEN q < p ELSE q > p
MatchesSamePrice(o, p) == p = o.price
LowestPrice(prices, s) == IF prices = {} THEN End
                          ELSE CHOOSE p \in prices : \A q \in prices : p <= q
LevelKept(levels, s, p) == levels
LevelCountAfterHead(lims, s, p) ==
  Cardinality({i \in DOMAIN lims : /\ lims[i].side = s /\ lims[i].price = p
                                   /\ lims[i].current_level
                                   /\ lims[i].prev # Nil})
NextNotLinked(lims, i, j) == lims
PrevNotLinked(lims, i, j) == lims
HigherQty(a, b) == IF a < b THEN b ELSE a
FillOfOneBit(i, p, q, full, u, conn) ==
  [id |-> i, price |-> p, qty |-> q % 2, full |-> full,
   user |-> u, connection |-> conn]
OwnSide == order.side
StayOnLevel == pc = "fill" /\ ~undefined /\ book_order = Nil /\ UNCHANGED vars
-----------------------------------------------------------------------------
(***************************************************************************)
(* Sides and levels.                                                       *)
(***************************************************************************)
Better(s, p, q)  == IF s = "buy" THEN p > q ELSE p < q
Crosses(s, p, q) == IF s = "buy" THEN q <= p ELSE q >= p

(* The first of some prices in the order of the side's std::map, or End. *)
IsBest(prices, s, p) == p \in prices /\ \A q \in prices \ {p} : Better(s, p, q)
Best(prices, s) == IF \E p \in prices : IsBest(prices, s, p)
                   THEN CHOOSE p \in prices : IsBest(prices, s, p)
                   ELSE End

MatchesAt(o, p) == p # End /\ Crosses(o.side, o.price, p)

(* The limits linked in the level of side s at price p. *)
InLevel(lims, s, p) ==
  {i \in DOMAIN lims : /\ lims[i].current_level
                       /\ lims[i].side = s
                       /\ lims[i].price = p}

(* getLevelOrderCount: the orders of a level with a quantity, in 16 bits. *)
LevelOrderCount(lims, s, p) ==
  Cardinality({i \in InLevel(lims, s, p) : lims[i].qty # 0}) % CountWord

(* Erasing a Level leaves the current_level of its limits dangling. *)
DropLevel(levels, s, p) ==
  [levels EXCEPT ![s] = Restrict(@, DOMAIN @ \ {p})]
Orphan(lims, s, p) ==
  [i \in DOMAIN lims |->
     IF i \in InLevel(lims, s, p)
     THEN [lims[i] EXCEPT !.current_level = FALSE]
     ELSE lims[i]]

SetHead(levels, s, p, i) == [levels EXCEPT ![s][p].head = i]
SetTail(levels, s, p, i) == [levels EXCEPT ![s][p].tail = i]

(* Writes through a Limit*; Nil is tested for in the code, never written. *)
SetNext(lims, i, j) == IF i = Nil THEN lims ELSE [lims EXCEPT ![i].next = j]
SetPrev(lims, i, j) == IF i = Nil THEN lims ELSE [lims EXCEPT ![i].prev = j]
DropLimit(lims, i)  == Restrict(lims, DOMAIN lims \ {i})

LowerQty(a, b) == IF a < b THEN a ELSE b
-----------------------------------------------------------------------------
(***************************************************************************)
(* What a handler sends: responses to a user's stream connection and       *)
(* market data to the dispatcher.                                          *)
(***************************************************************************)
Reason == {"order_id_already_present", "order_not_found", "wrong_user_id",
           "modify_wrong_side", "modification_trivial"}
Reject(why) == [kind |-> "reject", why |-> why]
ErrorIf(c, why) == IF c THEN <<Reject(why)>> ELSE << >>
Added(o) == [kind |-> "added", id |-> o.id, side |-> o.side,
             price |-> o.price, qty |-> o.qty]
Cancelled(i) == [kind |-> "cancelled", id |-> i]
Modified(i, q) == [kind |-> "modified", id |-> i, qty |-> q]

(* A Fill of match_result; both fills of a match name the resting order's  *)
(* user and carry the incoming order's connection.                         *)
Fill(i, p, q, full, u, conn) ==
  [id |-> i, price |-> p, qty |-> q % FillWord, full |-> full,
   user |-> u, connection |-> conn]

(* communicateMatchResults: each fill is written to its connection, under  *)
(* the incoming order's id, and a copy of it to the market data dispatcher. *)
FillMessages(o) ==
  [k \in 1 .. Len(fills) |->
     [kind |-> "fill", to |-> fills[k].connection, id |-> o.id,
      qty |-> fills[k].qty, full |-> fills[k].full]]
-----------------------------------------------------------------------------
Init == /\ limitorders = << >>
        /\ book = [s \in Side |-> << >>]
        /\ orderid = 0
        /\ clock = 0
        /\ pc = "idle"
        /\ order = NoOrder
        /\ book_itr = End
        /\ book_order = Nil
        /\ detached = FALSE
        /\ fills = << >>
        /\ sent = << >>
        /\ undefined = FALSE

Idle == pc = "idle" /\ ~undefined
At(label) == pc = label /\ ~undefined
-----------------------------------------------------------------------------
(***************************************************************************)
(* cancelOrder after its checks, and the first half of a re-pricing        *)
(* modifyOrder: unlink the limit of order i and erase it.  The last order  *)
(* of a level takes the level with it, by price.                           *)
(***************************************************************************)
RemoveLimit(i) ==
  LET l == limitorders[i]
      rest == DropLimit(SetNext(SetPrev(limitorders, l.next, l.prev),
                                l.prev, l.next), i)
  IN
  \/ /\ l.next # Nil /\ l.prev # Nil
     /\ limitorders' = rest
     /\ UNCHANGED <<book, undefined>>
  \/ /\ l.next # Nil /\ l.prev = Nil
     /\ limitorders' = rest
     /\ book' = IF l.current_level
                THEN SetHead(book, l.side, l.price, l.next) ELSE book
     /\ undefined' = ~l.current_level
  \/ /\ l.next = Nil /\ l.prev # Nil
     /\ limitorders' = rest
     /\ book' = IF l.current_level
                THEN SetTail(book, l.side, l.price, l.prev) ELSE book
     /\ undefined' = ~l.current_level
  \/ /\ l.next = Nil /\ l.prev = Nil
     /\ limitorders' = Orphan(rest, l.side, l.price)
     /\ book' = DropLevel(book, l.side, l.price)
     /\ UNCHANGED undefined

(* A request is refused: one rejection per error found. *)
Refuse(errors) ==
  /\ errors # << >>
  /\ sent' = errors
  /\ pc' = "return"
  /\ UNCHANGED <<limitorders, book, orderid, clock, matching, fills, undefined>>
-----------------------------------------------------------------------------
(***************************************************************************)
(* Requests.  A new order gets the next id of the generator; an id already *)
(* in the book is refused.                                                 *)
(***************************************************************************)
AddOrder(u, s, p, q) ==
  /\ Idle
  /\ orderid < MaxOrders /\ clock < MaxPlacements
  /\ orderid' = orderid + 1
  /\ order' = [id |-> orderid + 1, user |-> u, side |-> s, price |-> p,
               qty |-> q, init |-> q]
  /\ pc' = "add"
  /\ UNCHANGED <<limitorders, book, clock, book_itr, book_order, detached,
                 fills, sent, undefined>>

(* ids are unique here, but the book itself does not assume it. *)
RefuseAdd(i) ==
  /\ Idle
  /\ i \in DOMAIN limitorders
  /\ Refuse(<<Reject("order_id_already_present")>>)

CancelErrors(i, u) ==
  IF i \notin DOMAIN limitorders THEN <<Reject("order_not_found")>>
  ELSE IF limitorders[i].user # u THEN <<Reject("wrong_user_id")>>
  ELSE << >>

RefuseCancel(i, u) == Idle /\ Refuse(CancelErrors(i, u))

CancelOrder(i, u) ==
  /\ Idle
  /\ CancelErrors(i, u) = << >>
  /\ RemoveLimit(i)
  /\ sent' = <<Cancelled(i)>>
  /\ pc' = "return"
  /\ UNCHANGED <<orderid, clock, matching, fills>>

(* A modify of quantity 0 is refused before the book is looked up. *)
ModifyErrors(i, u, s, p, q) ==
  IF q = 0 THEN <<Reject("modification_trivial")>>
  ELSE IF i \notin DOMAIN limitorders THEN <<Reject("order_not_found")>>
  ELSE LET l == limitorders[i] IN
       ErrorIf(l.side # s, "modify_wrong_side")
       \o ErrorIf(l.user # u, "wrong_user_id")
       \o ErrorIf(l.price = p /\ l.qty = q, "modification_trivial")

RefuseModify(i, u, s, p, q) == Idle /\ Refuse(ModifyErrors(i, u, s, p, q))

(* Same price: the order keeps its place and its quantity changes. *)
ModifiedQty(l, q) ==
  IF l.qty < q THEN (l.qty + (q + l.qty)) % Word ELSE l.qty - (l.qty - q)

ModifyQuantity(i, u, s, p, q) ==
  /\ Idle
  /\ ModifyErrors(i, u, s, p, q) = << >>
  /\ p = limitorders[i].price
  /\ limitorders' = [limitorders EXCEPT ![i].qty = ModifiedQty(limitorders[i], q)]
  /\ sent' = <<Modified(i, q)>>
  /\ pc' = "return"
  /\ UNCHANGED <<book, orderid, clock, matching, fills, undefined>>

(* Another price: cancelOrder(modify_order), then addOrder(new_order). *)
ModifyPrice(i, u, s, p, q) ==
  /\ Idle
  /\ clock < MaxPlacements
  /\ ModifyErrors(i, u, s, p, q) = << >>
  /\ p # limitorders[i].price
  /\ RemoveLimit(i)
  /\ order' = [id |-> i, user |-> u, side |-> s, price |-> p,
               qty |-> q, init |-> q]
  /\ sent' = <<Cancelled(i)>>
  /\ pc' = "add"
  /\ UNCHANGED <<orderid, clock, book_itr, book_order, detached, fills>>
-----------------------------------------------------------------------------
(***************************************************************************)
(* addOrder: match if the best level of the other side crosses, then put   *)
(* what is left in the book.                                               *)
(***************************************************************************)
RestingSide == Other(order.side)

StartMatch ==
  LET best == Best(DOMAIN book[RestingSide], RestingSide) IN
  /\ At("add")
  /\ MatchesAt(order, best)
  /\ book_itr' = best
  /\ book_order' = book[RestingSide][best].head
  /\ detached' = FALSE
  /\ pc' = "fill"
  /\ UNCHANGED <<limitorders, book, orderid, clock, order, fills, sent, undefined>>

NothingToMatch ==
  /\ At("add")
  /\ ~MatchesAt(order, Best(DOMAIN book[RestingSide], RestingSide))
  /\ pc' = "place"
  /\ UNCHANGED <<limitorders, book, orderid, clock, matching, fills, sent, undefined>>

(* book_order is the head of the level and its limit has been erased. *)
ReadErasedLimit ==
  /\ At("fill")
  /\ book_order \notin DOMAIN limitorders \cup {Nil}
  /\ undefined' = TRUE
  /\ UNCHANGED <<limitorders, book, orderid, clock, pc, matching, fills, sent>>

MatchedQty == LowerQty(limitorders[book_order].qty, order.qty)

(* addFills: the two fills of a match, after both quantities went down. *)
MatchFills ==
  LET l == limitorders[book_order]  q == MatchedQty IN
  << Fill(book_order, l.price, q, l.qty = q, l.user, order.user),
     Fill(order.id, l.price, q, order.qty = q, l.user, order.user) >>

(* removeOrderFromBook: it writes the head of book_lvl, copy or not. *)
WithoutHead(lims) == DropLimit(SetPrev(lims, lims[book_order].next, Nil), book_order)
HeadRemoved == IF detached THEN book
               ELSE SetHead(book, RestingSide, book_itr, limitorders[book_order].next)

(* The incoming order is not filled yet: the resting one is, and leaves. *)
FillResting ==
  /\ At("fill")
  /\ book_order \in DOMAIN limitorders
  /\ order.qty # MatchedQty
  /\ order' = [order EXCEPT !.qty = @ - MatchedQty]
  /\ fills' = fills \o MatchFills
  /\ limitorders' = WithoutHead(limitorders)
  /\ book' = HeadRemoved
  /\ book_order' = limitorders[book_order].next
  /\ UNCHANGED <<orderid, clock, pc, book_itr, detached, sent, undefined>>

(* The incoming order is filled: the resting one leaves if it is too, and  *)
(* the level if it now counts no order.                                    *)
FillIncoming ==
  LET both  == limitorders[book_order].qty = MatchedQty
      lims  == IF both THEN WithoutHead(limitorders)
               ELSE [limitorders EXCEPT ![book_order].qty = @ - MatchedQty]
      levels == IF both THEN HeadRemoved ELSE book
      empty == LevelOrderCount(lims, RestingSide, book_itr) = 0
  IN
  /\ At("fill")
  /\ book_order \in DOMAIN limitorders
  /\ order.qty = MatchedQty
  /\ order' = [order EXCEPT !.qty = 0]
  /\ fills' = fills \o MatchFills
  /\ limitorders' = IF empty THEN Orphan(lims, RestingSide, book_itr) ELSE lims
  /\ book' = IF empty THEN DropLevel(levels, RestingSide, book_itr) ELSE levels
  /\ book_order' = IF both THEN limitorders[book_order].next ELSE book_order
  /\ pc' = "report"
  /\ UNCHANGED <<orderid, clock, book_itr, detached, sent, undefined>>

(* The level is used up: it is erased and book_lvl, a reference bound to   *)
(* the first level, is assigned a copy of the next one.                    *)
NextLevel ==
  LET worse == {p \in DOMAIN book[RestingSide] : Better(RestingSide, book_itr, p)}
      next  == Best(worse, RestingSide)
  IN
  /\ At("fill")
  /\ book_order = Nil
  /\ limitorders' = Orphan(limitorders, RestingSide, book_itr)
  /\ book' = DropLevel(book, RestingSide, book_itr)
  /\ book_itr' = next
  /\ detached' = TRUE
  /\ IF MatchesAt(order, next)
     THEN book_order' = book[RestingSide][next].head /\ pc' = pc
     ELSE book_order' = book_order /\ pc' = "report"
  /\ UNCHANGED <<orderid, clock, order, fills, sent, undefined>>

CommunicateMatchResults ==
  /\ At("report")
  /\ sent' = sent \o FillMessages(order)
  /\ pc' = IF order.qty = 0 THEN "return" ELSE "place"
  /\ UNCHANGED <<limitorders, book, orderid, clock, matching, fills, undefined>>

(* placeOrderInBook: at the tail of its level, a new one if there is none. *)
PlaceOrder ==
  LET levels == book[order.side]
      first  == order.price \notin DOMAIN levels
      last   == IF first THEN Nil ELSE levels[order.price].tail
      limit  == [user |-> order.user, side |-> order.side, price |-> order.price,
                 qty |-> order.qty, next |-> Nil, prev |-> last,
                 current_level |-> TRUE, time |-> clock]
      level  == [head |-> IF first THEN order.id ELSE levels[order.price].head,
                 tail |-> order.id]
  IN
  /\ At("place")
  /\ limitorders' = Put(SetNext(limitorders, last, order.id), order.id, limit)
  /\ book' = [book EXCEPT ![order.side] = Put(@, order.price, level)]
  /\ clock' = clock + 1
  /\ sent' = Append(sent, Added(order))
  /\ pc' = "return"
  /\ UNCHANGED <<orderid, matching, fills, undefined>>

(* The handler returns and its locals are gone. *)
Return ==
  /\ At("return")
  /\ pc' = "idle"
  /\ order' = NoOrder
  /\ book_itr' = End
  /\ book_order' = Nil
  /\ detached' = FALSE
  /\ fills' = << >>
  /\ sent' = << >>
  /\ UNCHANGED <<limitorders, book, orderid, clock, undefined>>
-----------------------------------------------------------------------------
Handler == \/ StartMatch \/ NothingToMatch \/ ReadErasedLimit
           \/ FillResting \/ FillIncoming \/ NextLevel
           \/ CommunicateMatchResults \/ PlaceOrder \/ Return

Request ==
  \/ \E u \in User, s \in Side, p \in Price, q \in Quantity : AddOrder(u, s, p, q)
  \/ \E i \in OrderId, u \in User :
       \/ RefuseAdd(i) \/ RefuseCancel(i, u) \/ CancelOrder(i, u)
       \/ \E s \in Side, p \in Price, q \in NewQuantity :
            \/ RefuseModify(i, u, s, p, q)
            \/ ModifyQuantity(i, u, s, p, q)
            \/ ModifyPrice(i, u, s, p, q)

Next == Request \/ Handler

Spec == Init /\ [][Next]_vars /\ WF_vars(Handler)
-----------------------------------------------------------------------------
(***************************************************************************)
(* Properties.                                                             *)
(***************************************************************************)
Live == DOMAIN limitorders

FillRecord == [id : OrderId, price : Price, qty : 0 .. FillWord - 1,
               full : BOOLEAN, user : User, connection : User]
Message ==
  [kind : {"reject"}, why : Reason]
  \cup [kind : {"added"}, id : OrderId, side : Side, price : Price, qty : Qty]
  \cup [kind : {"cancelled"}, id : OrderId]
  \cup [kind : {"modified"}, id : OrderId, qty : Qty]
  \cup [kind : {"fill"}, to : User, id : OrderId, qty : 0 .. FillWord - 1,
        full : BOOLEAN]

(* Every variable has its type; pointers to limits may dangle, positions   *)
(* in a side are prices, and a handler's locals are set while it runs.     *)
TypeOK ==
  /\ IsLimits(limitorders)
  /\ IsBook(book)
  /\ orderid \in 0 .. MaxOrders
  /\ clock \in Nat
  /\ pc \in {"idle", "add", "fill", "report", "place", "return"}
  /\ order \in Order \cup {NoOrder}
  /\ pc \in {"add", "fill", "report", "place"} => order \in Order
  /\ book_itr \in Price \cup {End}
  /\ book_order \in Pointer
  /\ detached \in BOOLEAN
  /\ undefined \in BOOLEAN
  /\ fills \in Seq(FillRecord)
  /\ sent \in Seq(Message)

(* i's neighbours in its level are the orders that came just before and    *)
(* just after it, Nil at the ends.                                         *)
Neighbour(i, j, side) ==
  IF side = {} THEN j = Nil
  ELSE /\ j \in side
       /\ \A k \in side \ {j} :
            IF limitorders[j].time < limitorders[i].time
            THEN limitorders[k].time < limitorders[j].time
            ELSE limitorders[k].time > limitorders[j].time

Earlier(i) == {j \in InLevel(limitorders, limitorders[i].side, limitorders[i].price) :
                 limitorders[j].time < limitorders[i].time}
Later(i) == {j \in InLevel(limitorders, limitorders[i].side, limitorders[i].price) :
                 limitorders[j].time > limitorders[i].time}

(***************************************************************************)
(* The doubly linked list of a level holds its orders in order of arrival, *)
(* whatever was added, cancelled at the head, in the middle or at the      *)
(* tail, re-priced or filled: placeLimitInBookLevel, cancelOrder and       *)
(* removeOrderFromBook together.                                           *)
(***************************************************************************)
LevelsLinkedByArrival ==
  \A i \in Live :
    LET l == limitorders[i] IN
    l.current_level =>
      /\ l.price \in DOMAIN book[l.side]
      /\ Neighbour(i, l.prev, Earlier(i))
      /\ Neighbour(i, l.next, Later(i))
      /\ Later(i) = {} => book[l.side][l.price].tail = i
      /\ book[l.side][l.price].head = i => Earlier(i) = {}

(* A level exists exactly while it has orders, except between the removal  *)
(* of its last order and the end of that iteration of FIFOMatch.           *)
NoEmptyLevel ==
  \A s \in Side : \A p \in DOMAIN book[s] :
    \/ InLevel(limitorders, s, p) # {}
    \/ pc = "fill" /\ book_order = Nil /\ s = RestingSide /\ p = book_itr

(* Every order of the book is in the level of its price: no order is lost  *)
(* with an erased level.                                                   *)
NoOrphan == \A i \in Live : limitorders[i].current_level

(* The book is never crossed: FIFOMatch takes every level the incoming     *)
(* order reaches before the rest of it is placed.                          *)
NotCrossed == \A p \in DOMAIN book["buy"], q \in DOMAIN book["sell"] : p < q

(* While FIFOMatch loops, book_itr is the best level of the resting side:  *)
(* the levels it has left are erased and no better one appears.            *)
MatcherAtBest ==
  pc = "fill" => IsBest(DOMAIN book[RestingSide], RestingSide, book_itr)

(* What is left of an order after FIFOMatch, and is put in the book, could *)
(* not be matched: no level of the other side crosses it.                  *)
RestCannotMatch ==
  \/ pc = "place"
  \/ pc = "report" /\ order.qty # 0
  => \A p \in DOMAIN book[RestingSide] : ~Crosses(order.side, order.price, p)

(* The head of a level is its oldest order: what "FIFO limit orderbook"    *)
(* promises and matching relies on.                                        *)
HeadIsOldest ==
  pc = "idle" =>
    \A s \in Side : \A p \in DOMAIN book[s] :
      /\ book[s][p].head \in Live
      /\ Earlier(book[s][p].head) = {}

(* i is matched before j: a better price, or the same price and earlier.   *)
Before(i, j) ==
  LET a == limitorders[i]  b == limitorders[j] IN
  \/ Better(a.side, a.price, b.price)
  \/ a.price = b.price /\ a.time < b.time

(* Whenever orders are matched, the resting one comes before every other   *)
(* order in the levels of its side: best price first, then oldest          *)
(* (FIFOMatch over the levels, orderFullyMatchedInLevel in a level).       *)
PriceTimePriority ==
  [][ Len(fills') > Len(fills) =>
        \A j \in Live \ {book_order} :
          /\ limitorders[j].side = limitorders[book_order].side
          /\ limitorders[j].current_level
          => Before(book_order, j) ]_vars

(* orderbook.cpp:173, "if head and tail, its last order in level, so erase *)
(* level": a cancelled order that takes its level with it was the only     *)
(* order there.                                                            *)
LastOrderTakesLevel ==
  [][ pc = "idle" =>
        \A s \in Side : \A p \in DOMAIN book[s] \ DOMAIN book'[s] :
          InLevel(limitorders, s, p) \cap DOMAIN limitorders' = {} ]_vars

(* The quantities of the fills of the resting orders. *)
Matched == LET Sum[n \in 0 .. Len(fills) \div 2] ==
                 IF n = 0 THEN 0 ELSE Sum[n - 1] + fills[2 * n].qty
           IN Sum[Len(fills) \div 2]

(* An incoming order's quantity is always what was ordered less what its   *)
(* fills report, and the rest of it is what is put in the book.            *)
FillsAccountForOrder ==
  /\ order # NoOrder => order.init = order.qty + Matched
  /\ \A k \in DOMAIN sent :
       sent[k].kind = "added" =>
         /\ sent[k].qty + Matched = order.init
         /\ limitorders[sent[k].id].qty = sent[k].qty

(* README, operation flow 3: "If a client's order request is filled they   *)
(* receive a fill response": the owner of each filled order is sent one    *)
(* that names the order.                                                   *)
OwnerToldOfFill ==
  pc = "return" =>
    \A k \in DOMAIN fills :
      k % 2 = 1 => \E m \in DOMAIN sent :
                     /\ sent[m].kind = "fill"
                     /\ sent[m].to = fills[k].user
                     /\ sent[m].id = fills[k].id

(* A modified order has the quantity that the log line and the market data *)
(* of sendOrderModifiedToDispatcher announce.                              *)
ModifiedAsAnnounced ==
  pc = "return" =>
    \A k \in DOMAIN sent :
      sent[k].kind = "modified" => limitorders[sent[k].id].qty = sent[k].qty

(* A handler returns: the loops of FIFOMatch end, each iteration taking an *)
(* order or a level out of the book.                                       *)
HandlerReturns == (pc # "idle") ~> (pc = "idle" \/ undefined)
-----------------------------------------------------------------------------
(***************************************************************************)
(* The book implements the price-time priority book of FIFOBook.           *)
(***************************************************************************)
Resting == [i \in Live |->
  [user |-> limitorders[i].user, side |-> limitorders[i].side,
   price |-> limitorders[i].price, qty |-> limitorders[i].qty,
   time |-> limitorders[i].time]]

Incoming == IF pc \in {"add", "fill", "report", "place"}
            THEN [id |-> order.id, user |-> order.user, side |-> order.side,
                  price |-> order.price, qty |-> order.qty]
            ELSE NoOrder

FIFO == INSTANCE FIFOBook
          WITH resting <- Resting, incoming <- Incoming, now <- clock

(* Every step of the handlers is a step of FIFOBook or changes nothing it  *)
(* can see: matching in price-time priority, placing only what cannot      *)
(* match, keeping the place of an order whose quantity alone is modified   *)
(* and giving it up when its price is.                                     *)
ImplementsFIFOBook == FIFO!FSpec
=============================================================================
