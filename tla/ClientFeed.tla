----------------------------- MODULE ClientFeed -----------------------------
(***************************************************************************)
(* The terminal client's view of the market (clientfeedhandler.hpp,        *)
(* clientorderbook.hpp and the handlers of client.cpp): orders and         *)
(* aggregate levels rebuilt from datagrams on the io thread, the book the  *)
(* user subscribed to on the input thread, and fill acknowledgements on    *)
(* the thread that reads the order entry stream.                           *)
(*                                                                         *)
(* A datagram may be anything the exchange ever announced, in any order    *)
(* and any number of times: which ones come, and when, is for the          *)
(* composition to say.                                                     *)
(***************************************************************************)
EXTENDS Integers, Sequences, FiniteSets, Functions

CONSTANTS
  OrderId, Ticker, Price,
  Quantity,   \* the quantities that are announced
  Word,       \* quantities are kept modulo Word (2^32), here as signed numbers
  Nothing     \* nullptr

Side == {"buy", "sell"}

(* Quantities are words, and positive where the int32 of the client is to  *)
(* be: the exchange never announces the others unless a user asks it to.   *)
FeedAssumption == Word \in Nat /\ Quantity \subseteq 0 .. Word - 1
SmallQuantities == \A q \in Quantity : 0 < q /\ 2 * q < Word

(* A line the user types: a kind of order, the fields it gives a value to  *)
(* and the letter of the side.                                             *)
Field == {"side", "price", "quantity", "ticker", "orderid"}
Input == [type : {"add", "cancel", "modify"}, fields : SUBSET Field, side : {"B", "S", "?"}]

(* The datagrams: the structs of marketdatatypes.hpp. *)
AddOrderData == [kind : {"added"}, id : OrderId, ticker : Ticker, side : Side,
                 price : Price, qty : Quantity]
ModOrderData == [kind : {"modified"}, id : OrderId, qty : Quantity]
CancelOrderData == [kind : {"cancelled"}, id : OrderId]
FillOrderData == [kind : {"fill"}, id : OrderId, ticker : Ticker, qty : Quantity]
Datagram == AddOrderData \cup ModOrderData \cup CancelOrderData \cup FillOrderData

VARIABLES
  orders,        \* orders_
  tickers,       \* the tickers of orderbooks_, by position
  capacity,      \* orderbooks_.capacity()
  levels,        \* bids_ and asks_ of all books: ticker, side, price -> size
  subscription,  \* subscription_: a book in a buffer of that capacity
  undefined      \* a dangling or null pointer was followed

cvars == <<orders, tickers, capacity, levels, subscription, undefined>>

Put(f, k, v) == [x \in DOMAIN f \cup {k} |-> IF x = k THEN v ELSE f[x]]
Without(f, k) == Restrict(f, DOMAIN f \ {k})
-----------------------------------------------------------------------------
(* Slips: wrong variants of definitions below, used by no behaviour. *)
LeavesEmptyLevel(book, k, shares) ==
  IF k \notin DOMAIN book THEN book ELSE [book EXCEPT ![k] = @ - shares]
ModifiesOrderOnly(m) ==
  /\ m.kind = "modified" /\ m.id \in DOMAIN orders
  /\ orders' = [orders EXCEPT ![m.id].qty = m.qty]
  /\ UNCHANGED <<tickers, capacity, levels>>
KeepsCancelled(m) ==
  /\ m.kind = "cancelled" /\ m.id \in DOMAIN orders
  /\ UNCHANGED <<orders, tickers, capacity, levels>>
-----------------------------------------------------------------------------
FeedInit == /\ orders = << >>
            /\ tickers = << >>
            /\ capacity = 0
            /\ levels = << >>
            /\ subscription = Nothing
            /\ undefined = FALSE

(* A uint32 of the exchange as the int32 of the client. *)
Signed(q) == IF 2 * q >= Word THEN q - Word ELSE q

(* ClientOrderBook. *)
AddToBook(book, k, shares) ==
  Put(book, k, shares + (IF k \in DOMAIN book THEN book[k] ELSE 0))

RemoveFromBook(book, k, shares) ==
  IF k \notin DOMAIN book THEN book
  ELSE IF book[k] - shares <= 0 THEN Without(book, k)
  ELSE [book EXCEPT ![k] = @ - shares]

LevelOf(o) == <<o.ticker, o.side, o.price>>

Known(t) == \E n \in DOMAIN tickers : tickers[n] = t

(* orderbooks_ doubles its buffer when it is full. *)
Grown(n) == IF n <= capacity THEN capacity
            ELSE IF capacity = 0 THEN 1 ELSE 2 * capacity
-----------------------------------------------------------------------------
(***************************************************************************)
(* ClientFeedHandler.                                                      *)
(***************************************************************************)
(* The level grows, and emplace leaves an order with that id as it is. *)
AddOrder(m) ==
  LET o == [ticker |-> m.ticker, side |-> m.side, price |-> m.price, qty |-> Signed(m.qty)] IN
  /\ m.kind = "added"
  /\ tickers' = IF Known(m.ticker) THEN tickers ELSE Append(tickers, m.ticker)
  /\ capacity' = Grown(Len(tickers'))
  /\ levels' = AddToBook(levels, LevelOf(o), o.qty)
  /\ orders' = IF m.id \in DOMAIN orders THEN orders ELSE Put(orders, m.id, o)

CancelOrder(m) ==
  LET o == orders[m.id] IN
  /\ m.kind = "cancelled" /\ m.id \in DOMAIN orders
  /\ levels' = RemoveFromBook(levels, LevelOf(o), o.qty)
  /\ orders' = Without(orders, m.id)
  /\ UNCHANGED <<tickers, capacity>>

ModifyOrder(m) ==
  LET o == orders[m.id]
      q == Signed(m.qty)
  IN
  /\ m.kind = "modified" /\ m.id \in DOMAIN orders
  /\ levels' = IF q > o.qty THEN AddToBook(levels, LevelOf(o), q - o.qty)
                            ELSE RemoveFromBook(levels, LevelOf(o), o.qty - q)
  /\ orders' = [orders EXCEPT ![m.id].qty = q]
  /\ UNCHANGED <<tickers, capacity>>

FillOrder(m) ==
  LET o == orders[m.id]
      left == o.qty - Signed(m.qty)
  IN
  /\ m.kind = "fill" /\ m.id \in DOMAIN orders
  /\ levels' = RemoveFromBook(levels, LevelOf(o), Signed(m.qty))
  /\ orders' = IF left <= 0 THEN Without(orders, m.id)
                            ELSE [orders EXCEPT ![m.id].qty = left]
  /\ UNCHANGED <<tickers, capacity>>

UnknownOrder(m) ==
  /\ m.kind # "added" /\ m.id \notin DOMAIN orders
  /\ UNCHANGED <<orders, tickers, capacity, levels>>

(* The book the pointer was taken from has moved. *)
Dangling == subscription # Nothing /\ subscription.capacity # capacity

(* readMarketData, processMarketData: handle the datagram, then compare    *)
(* the ticker of the subscription, if there is one, to print it.           *)
Receive(m) ==
  /\ \/ AddOrder(m) \/ CancelOrder(m) \/ ModifyOrder(m) \/ FillOrder(m) \/ UnknownOrder(m)
  /\ UNCHANGED subscription
  /\ undefined' = Dangling'
-----------------------------------------------------------------------------
(* The command /subscribe, on the input thread.                            *)
Subscribe(t) ==
  /\ subscription' = IF Known(t) THEN [ticker |-> t, capacity |-> capacity] ELSE Nothing
  /\ UNCHANGED <<orders, tickers, capacity, levels, undefined>>

(* interpretAck of a fill: getOrder gives nullptr for an order that the    *)
(* feed has not announced, and its quantity is printed all the same.       *)
InterpretFill(i) ==
  /\ undefined' = (i \notin DOMAIN orders)
  /\ UNCHANGED <<orders, tickers, capacity, levels, subscription>>

(* getUserInput.  "cancel" is given to constructModifyOrderRequest, and     *)
(* "modify" to constructCancelOrderRequest.                                *)
Wanted(in) == CASE in.type = "add"    -> Field \ {"orderid"}
                [] in.type = "cancel" -> Field
                [] in.type = "modify" -> {"ticker", "orderid"}
LastValue == [add |-> 3, cancel |-> 5, modify |-> 2]

Complete(in) == Wanted(in) \subseteq in.fields /\ (in.type = "modify" \/ in.side # "?")

(* The values are read by position, the last of them past the end. *)
ReadsPast(in) == LastValue[in.type] >= Cardinality(Wanted(in))

CompleteInput == {in \in Input : Complete(in)}

(* What is sent, if anything, is a new order: see the composition. *)
GetUserInput(in) ==
  /\ undefined' = ReadsPast(in)
  /\ UNCHANGED <<orders, tickers, capacity, levels, subscription>>

FeedNext ==
  /\ ~undefined
  /\ \/ \E m \in Datagram : Receive(m)
     \/ \E t \in Ticker : Subscribe(t)
     \/ \E i \in OrderId : InterpretFill(i)
     \/ \E in \in CompleteInput : GetUserInput(in)

FeedSpec == FeedInit /\ [][FeedNext]_cvars
-----------------------------------------------------------------------------
KnownOrder == [ticker : Ticker, side : Side, price : Price, qty : Int]

FeedTypeOK ==
  /\ DOMAIN orders \subseteq OrderId /\ orders \in [DOMAIN orders -> KnownOrder]
  /\ DOMAIN levels \subseteq Ticker \X Side \X Price /\ levels \in [DOMAIN levels -> Int]
  /\ tickers \in Seq(Ticker)
  /\ capacity \in Nat
  /\ subscription \in [ticker : Ticker, capacity : Nat] \cup {Nothing}
  /\ undefined \in BOOLEAN

(* Whatever is lost, repeated or out of order, no level and no order the   *)
(* client holds is empty or negative: removeFromBook and fillOrder erase   *)
(* what comes to 0 or less.                                                *)
NothingNegative ==
  /\ \A k \in DOMAIN levels : levels[k] > 0
  /\ \A i \in DOMAIN orders : orders[i].qty > 0
=============================================================================
