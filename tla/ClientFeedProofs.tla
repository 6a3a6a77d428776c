-------------------------- MODULE ClientFeedProofs --------------------------
(***************************************************************************)
(* Proofs about ClientFeed, for every set of orders, tickers, prices and   *)
(* quantities, and whatever datagrams come in whatever order.              *)
(***************************************************************************)
EXTENDS ClientFeed, TLAPS

LevelKey == Ticker \X Side \X Price
IsOrders(f) == DOMAIN f \subseteq OrderId /\ f \in [DOMAIN f -> KnownOrder]
IsLevels(f) == DOMAIN f \subseteq LevelKey /\ f \in [DOMAIN f -> Int]

Positive(f) == \A k \in DOMAIN f : f[k] > 0

(* A datagram whose quantity, if it has one, is positive for the client. *)
Small(q) == 0 < q /\ 2 * q < Word
SmallData(m) == m.kind # "cancelled" => Small(m.qty)

(* An int32 of the client is an integer, and a small quantity itself. *)
LEMMA SignedInt ==
  ASSUME FeedAssumption, NEW q \in Quantity
  PROVE  Signed(q) \in Int /\ (Small(q) => Signed(q) = q /\ q > 0)
<1>1. Word \in Nat /\ q \in Nat
  BY DEF FeedAssumption
<1> QED BY <1>1 DEF Signed, Small

(* addToBook keeps the levels, and positive ones positive. *)
LEMMA AddToBookLevels ==
  ASSUME NEW book, IsLevels(book), NEW k \in LevelKey, NEW n \in Int
  PROVE  /\ IsLevels(AddToBook(book, k, n))
         /\ Positive(book) /\ n > 0 => Positive(AddToBook(book, k, n))
<1> DEFINE v == n + (IF k \in DOMAIN book THEN book[k] ELSE 0)
           new == Put(book, k, v)
<1>1. book \in [DOMAIN book -> Int] /\ DOMAIN book \subseteq LevelKey
  BY DEF IsLevels
<1>2. v \in Int /\ (Positive(book) /\ n > 0 => v > 0)
  <2>1. CASE k \in DOMAIN book
    BY <1>1, <2>1 DEF Positive
  <2>2. CASE k \notin DOMAIN book
    BY <2>2
  <2> QED BY <2>1, <2>2
<1> HIDE DEF v
<1>3. /\ DOMAIN new = DOMAIN book \cup {k}
      /\ \A x \in DOMAIN new : new[x] = IF x = k THEN v ELSE book[x]
      /\ new \in [DOMAIN book \cup {k} -> Int]
  BY <1>1, <1>2 DEF Put
<1>4. AddToBook(book, k, n) = new
  BY DEF AddToBook, v
<1> HIDE DEF new
<1>5. IsLevels(new)
  BY <1>1, <1>3 DEF IsLevels
<1>6. Positive(book) /\ n > 0 => Positive(new)
  BY <1>2, <1>3 DEF Positive
<1> QED BY <1>4, <1>5, <1>6

(* removeFromBook keeps the levels, and positive ones positive, however    *)
(* much is removed.                                                        *)
LEMMA RemoveFromBookLevels ==
  ASSUME NEW book, IsLevels(book), NEW k, NEW n \in Int
  PROVE  /\ IsLevels(RemoveFromBook(book, k, n))
         /\ Positive(book) => Positive(RemoveFromBook(book, k, n))
<1>1. book \in [DOMAIN book -> Int] /\ DOMAIN book \subseteq LevelKey
  BY DEF IsLevels
<1>2. CASE k \notin DOMAIN book
  BY <1>2 DEF RemoveFromBook
<1>3. CASE k \in DOMAIN book /\ book[k] - n <= 0
  BY <1>1, <1>3 DEF RemoveFromBook, Without, Restrict, IsLevels, Positive
<1>4. CASE k \in DOMAIN book /\ ~(book[k] - n <= 0)
  <2> DEFINE new == [book EXCEPT ![k] = @ - n]
  <2>1. book[k] \in Int /\ book[k] - n > 0
    BY <1>1, <1>4
  <2>2. /\ DOMAIN new = DOMAIN book /\ new \in [DOMAIN book -> Int]
        /\ \A x \in DOMAIN book : new[x] = IF x = k THEN book[k] - n ELSE book[x]
    BY <1>1, <1>4, <2>1
  <2>3. RemoveFromBook(book, k, n) = new
    BY <1>4 DEF RemoveFromBook
  <2> HIDE DEF new
  <2> QED BY <1>1, <2>1, <2>2, <2>3 DEF IsLevels, Positive
<1> QED BY <1>2, <1>3, <1>4

(* Erasing an order keeps the others as they are. *)
LEMMA WithoutOrder ==
  ASSUME NEW f, IsOrders(f), NEW i
  PROVE  /\ IsOrders(Without(f, i)) /\ DOMAIN Without(f, i) = DOMAIN f \ {i}
         /\ \A j \in DOMAIN f \ {i} : Without(f, i)[j] = f[j]
BY DEF IsOrders, Without, Restrict

(* Changing the quantity of one changes no other. *)
LEMMA SetQuantity ==
  ASSUME NEW f, IsOrders(f), NEW i \in DOMAIN f, NEW q \in Int
  PROVE  LET g == [f EXCEPT ![i].qty = q] IN
         /\ IsOrders(g) /\ DOMAIN g = DOMAIN f
         /\ \A j \in DOMAIN f : g[j].qty = IF j = i THEN q ELSE f[j].qty
<1> DEFINE g == [f EXCEPT ![i].qty = q]
<1>1. f \in [DOMAIN f -> KnownOrder] /\ DOMAIN f \subseteq OrderId
  BY DEF IsOrders
<1>2. DOMAIN g = DOMAIN f /\ g \in [DOMAIN f -> KnownOrder]
  BY <1>1 DEF KnownOrder
<1>3. \A j \in DOMAIN f : g[j].qty = IF j = i THEN q ELSE f[j].qty
  BY <1>1 DEF KnownOrder
<1> QED BY <1>1, <1>2, <1>3 DEF IsOrders
-----------------------------------------------------------------------------
(***************************************************************************)
(* The invariant.  Positive sizes are kept only by positive quantities, so *)
(* that half is conditional.                                               *)
(***************************************************************************)
OrdersPositive(f) == \A i \in DOMAIN f : f[i].qty > 0

(* Erasing an order keeps the rest positive. *)
LEMMA WithoutPositive ==
  ASSUME NEW f, IsOrders(f), NEW i
  PROVE  /\ IsOrders(Without(f, i))
         /\ OrdersPositive(f) => OrdersPositive(Without(f, i))
<1> DEFINE g == Without(f, i)
<1>1. /\ IsOrders(g) /\ DOMAIN g = DOMAIN f \ {i}
      /\ \A j \in DOMAIN f \ {i} : g[j] = f[j]
  BY WithoutOrder
<1> HIDE DEF g
<1>2. OrdersPositive(f) => OrdersPositive(g)
  BY <1>1 DEF OrdersPositive
<1> QED BY <1>1, <1>2 DEF g

(* Adding an order of a positive quantity, too. *)
LEMMA PutOrder ==
  ASSUME NEW f, IsOrders(f), NEW i \in OrderId, NEW o \in KnownOrder
  PROVE  /\ IsOrders(Put(f, i, o))
         /\ OrdersPositive(f) /\ o.qty > 0 => OrdersPositive(Put(f, i, o))
<1>1. f \in [DOMAIN f -> KnownOrder] /\ DOMAIN f \subseteq OrderId
  BY DEF IsOrders
<1>2. /\ Put(f, i, o) \in [DOMAIN f \cup {i} -> KnownOrder]
      /\ DOMAIN Put(f, i, o) = DOMAIN f \cup {i}
  BY <1>1 DEF Put
<1>3. \A j \in DOMAIN f \cup {i} : Put(f, i, o)[j] = IF j = i THEN o ELSE f[j]
  BY DEF Put
<1> QED BY <1>1, <1>2, <1>3 DEF IsOrders, OrdersPositive

(* What a datagram changes, of the invariant: orders, levels and tickers. *)
DataOK == /\ IsOrders(orders) /\ IsLevels(levels)
          /\ tickers \in Seq(Ticker) /\ capacity \in Nat

FeedData == /\ DataOK
            /\ subscription \in [ticker : Ticker, capacity : Nat] \cup {Nothing}
            /\ undefined \in BOOLEAN

FeedInv == FeedData /\ (SmallQuantities => NothingNegative)

(* The invariant gives the types and, for small quantities, positive sizes. *)
LEMMA FeedInvImplies ==
  FeedInv => FeedTypeOK /\ (SmallQuantities => NothingNegative)
BY DEF FeedInv, FeedData, FeedTypeOK, DataOK, IsOrders, IsLevels, LevelKey

(* The two halves of NothingNegative. *)
LEMMA PositiveParts == NothingNegative <=> Positive(levels) /\ OrdersPositive(orders)
BY DEF NothingNegative, Positive, OrdersPositive

(* A step that keeps each half positive keeps NothingNegative. *)
LEMMA PositiveStep ==
  ASSUME NEW C, Positive(levels) /\ C => Positive(levels'),
         OrdersPositive(orders) /\ C => OrdersPositive(orders')
  PROVE  NothingNegative /\ C => NothingNegative'
BY DEF NothingNegative, Positive, OrdersPositive

(* An order the client holds has a level key, and an integer quantity. *)
LEMMA OrderParts ==
  ASSUME DataOK, NEW i \in DOMAIN orders
  PROVE  /\ i \in OrderId /\ LevelOf(orders[i]) \in LevelKey /\ orders[i].qty \in Int
         /\ NothingNegative => orders[i].qty > 0
BY DEF DataOK, IsOrders, KnownOrder, LevelOf, LevelKey, NothingNegative

(* addOrder keeps the data, for an id that is new as for one that is known. *)
LEMMA AddOrderOK ==
  ASSUME FeedAssumption, DataOK, NEW m \in Datagram, AddOrder(m)
  PROVE  DataOK' /\ (NothingNegative /\ SmallData(m) => NothingNegative')
<1> DEFINE o == [ticker |-> m.ticker, side |-> m.side, price |-> m.price, qty |-> Signed(m.qty)]
<1>1. m \in AddOrderData
  BY DEF Datagram, AddOrder, AddOrderData, ModOrderData, CancelOrderData, FillOrderData
<1>2. /\ m.id \in OrderId /\ m.ticker \in Ticker /\ m.side \in Side
      /\ m.price \in Price /\ m.qty \in Quantity
  BY <1>1 DEF AddOrderData
<1>3. Signed(m.qty) \in Int /\ (SmallData(m) => Signed(m.qty) > 0)
  BY <1>1, <1>2, SignedInt DEF SmallData, AddOrderData
<1>4. o \in KnownOrder /\ LevelOf(o) \in LevelKey /\ o.qty = Signed(m.qty)
  BY <1>2, <1>3 DEF KnownOrder, LevelOf, LevelKey
<1>5. /\ tickers' = IF Known(m.ticker) THEN tickers ELSE Append(tickers, m.ticker)
      /\ capacity' = Grown(Len(tickers'))
      /\ levels' = AddToBook(levels, LevelOf(o), o.qty)
      /\ orders' = IF m.id \in DOMAIN orders THEN orders ELSE Put(orders, m.id, o)
  BY DEF AddOrder
<1> HIDE DEF o
<1>6. tickers' \in Seq(Ticker)
  <2>1. tickers \in Seq(Ticker)
    BY DEF DataOK
  <2> QED BY <1>2, <1>5, <2>1
<1>7. capacity' \in Nat
  BY <1>5 DEF Grown, DataOK
<1>8. IsLevels(levels') /\ (Positive(levels) /\ SmallData(m) => Positive(levels'))
  BY <1>3, <1>4, <1>5, AddToBookLevels DEF DataOK
<1>9. IsOrders(orders') /\ (OrdersPositive(orders) /\ SmallData(m) => OrdersPositive(orders'))
  <2>1. CASE m.id \in DOMAIN orders
    BY <1>5, <2>1 DEF DataOK
  <2>2. CASE m.id \notin DOMAIN orders
    <3>1. orders' = Put(orders, m.id, o) /\ IsOrders(orders)
      BY <1>5, <2>2 DEF DataOK
    <3> QED BY <1>2, <1>3, <1>4, <3>1, PutOrder DEF DataOK
  <2> QED BY <2>1, <2>2
<1> QED BY <1>6, <1>7, <1>8, <1>9, PositiveStep DEF DataOK

(* cancelOrder keeps the data. *)
LEMMA CancelOrderOK ==
  ASSUME DataOK, NEW m \in Datagram, CancelOrder(m)
  PROVE  DataOK' /\ (NothingNegative => NothingNegative')
<1> DEFINE o == orders[m.id]
<1>1. /\ m.id \in DOMAIN orders
      /\ levels' = RemoveFromBook(levels, LevelOf(o), o.qty)
      /\ orders' = Without(orders, m.id)
      /\ UNCHANGED <<tickers, capacity>>
  BY DEF CancelOrder
<1>2. o.qty \in Int
  BY <1>1, OrderParts
<1> HIDE DEF o
<1>3. IsLevels(levels') /\ (Positive(levels) => Positive(levels'))
  BY <1>1, <1>2, RemoveFromBookLevels DEF DataOK
<1>4. IsOrders(orders') /\ (OrdersPositive(orders) => OrdersPositive(orders'))
  BY <1>1, WithoutPositive DEF DataOK
<1> QED BY <1>1, <1>3, <1>4, PositiveParts, PositiveStep DEF DataOK

(* modifyOrder keeps the data, up and down. *)
LEMMA ModifyOrderOK ==
  ASSUME FeedAssumption, DataOK, NEW m \in Datagram, ModifyOrder(m)
  PROVE  DataOK' /\ (NothingNegative /\ SmallData(m) => NothingNegative')
<1> DEFINE o == orders[m.id]
           q == Signed(m.qty)
<1>1. /\ m.kind = "modified" /\ m.id \in DOMAIN orders
      /\ levels' = IF q > o.qty THEN AddToBook(levels, LevelOf(o), q - o.qty)
                                ELSE RemoveFromBook(levels, LevelOf(o), o.qty - q)
      /\ orders' = [orders EXCEPT ![m.id].qty = q]
      /\ UNCHANGED <<tickers, capacity>>
  BY DEF ModifyOrder
<1>2. m.qty \in Quantity
  BY <1>1 DEF Datagram, AddOrderData, ModOrderData, CancelOrderData, FillOrderData
<1>3. q \in Int /\ (SmallData(m) => q > 0)
  BY <1>1, <1>2, SignedInt DEF SmallData
<1>4. o.qty \in Int /\ LevelOf(o) \in LevelKey
  BY <1>1, OrderParts
<1>5. IsOrders(orders') /\ (OrdersPositive(orders) /\ SmallData(m) => OrdersPositive(orders'))
  <2> HIDE DEF q, o
  <2>1. /\ IsOrders(orders') /\ DOMAIN orders' = DOMAIN orders
        /\ \A j \in DOMAIN orders : orders'[j].qty = IF j = m.id THEN q ELSE orders[j].qty
    BY <1>1, <1>3, SetQuantity DEF DataOK
  <2> QED BY <1>3, <2>1 DEF DataOK, OrdersPositive
<1> HIDE DEF q, o
<1>6. IsLevels(levels') /\ (Positive(levels) /\ SmallData(m) => Positive(levels'))
  <2>1. CASE q > o.qty
    <3>1. q - o.qty \in Int /\ q - o.qty > 0
      BY <1>3, <1>4, <2>1
    <3> QED BY <1>1, <1>4, <2>1, <3>1, AddToBookLevels DEF DataOK
  <2>2. CASE ~(q > o.qty)
    <3>1. o.qty - q \in Int
      BY <1>3, <1>4
    <3> QED BY <1>1, <2>2, <3>1, RemoveFromBookLevels DEF DataOK
  <2> QED BY <2>1, <2>2
<1> QED BY <1>1, <1>5, <1>6, PositiveStep DEF DataOK

(* fillOrder keeps the data, however large the fill. *)
LEMMA FillOrderOK ==
  ASSUME FeedAssumption, DataOK, NEW m \in Datagram, FillOrder(m)
  PROVE  DataOK' /\ (NothingNegative => NothingNegative')
<1> DEFINE o == orders[m.id]
           left == o.qty - Signed(m.qty)
<1>1. /\ m.kind = "fill" /\ m.id \in DOMAIN orders
      /\ levels' = RemoveFromBook(levels, LevelOf(o), Signed(m.qty))
      /\ orders' = IF left <= 0 THEN Without(orders, m.id)
                                ELSE [orders EXCEPT ![m.id].qty = left]
      /\ UNCHANGED <<tickers, capacity>>
  BY DEF FillOrder
<1>2. m.qty \in Quantity
  BY <1>1 DEF Datagram, AddOrderData, ModOrderData, CancelOrderData, FillOrderData
<1>3. Signed(m.qty) \in Int /\ o.qty \in Int
  BY <1>1, <1>2, SignedInt, OrderParts
<1>4. left \in Int
  BY <1>3
<1> HIDE DEF left, o
<1>5. IsLevels(levels') /\ (Positive(levels) => Positive(levels'))
  BY <1>1, <1>3, RemoveFromBookLevels DEF DataOK
<1>6. IsOrders(orders') /\ (OrdersPositive(orders) => OrdersPositive(orders'))
  <2>1. CASE left <= 0
    BY <1>1, <2>1, WithoutPositive DEF DataOK
  <2>2. CASE ~(left <= 0)
    <3>1. left > 0
      BY <1>4, <2>2
    <3>2. /\ IsOrders(orders') /\ DOMAIN orders' = DOMAIN orders
          /\ \A j \in DOMAIN orders : orders'[j].qty = IF j = m.id THEN left ELSE orders[j].qty
      BY <1>1, <1>4, <2>2, SetQuantity DEF DataOK
    <3> QED BY <3>1, <3>2 DEF DataOK, OrdersPositive
  <2> QED BY <2>1, <2>2
<1> QED BY <1>1, <1>5, <1>6, PositiveStep DEF DataOK

(* Init and every step keep the invariant. *)
LEMMA FeedInitOK ==
  ASSUME FeedInit PROVE FeedInv /\ NothingNegative
<1>1. IsOrders(<< >>) /\ IsLevels(<< >>)
  BY DEF IsOrders, IsLevels
<1>2. Positive(<< >>) /\ OrdersPositive(<< >>)
  BY DEF Positive, OrdersPositive
<1>3. DataOK /\ NothingNegative
  BY <1>1, <1>2, PositiveParts DEF FeedInit, DataOK
<1> QED BY <1>3 DEF FeedInit, FeedData, FeedInv

(* A datagram keeps the types, and a small one keeps every size positive. *)
LEMMA ReceiveOK ==
  ASSUME FeedAssumption, FeedData, NEW m \in Datagram, Receive(m)
  PROVE  FeedData' /\ (NothingNegative /\ SmallData(m) => NothingNegative')
<1>1. DataOK
  BY DEF FeedData
<1>2. DataOK' /\ (NothingNegative /\ SmallData(m) => NothingNegative')
  <2>1. CASE UnknownOrder(m)
    <3>1. UNCHANGED <<orders, tickers, capacity, levels>>
      BY <2>1 DEF UnknownOrder
    <3> QED BY <1>1, <3>1 DEF DataOK, NothingNegative
  <2> QED BY <1>1, <2>1, AddOrderOK, CancelOrderOK, ModifyOrderOK, FillOrderOK DEF Receive
<1>3. subscription' = subscription /\ undefined' \in BOOLEAN
  BY DEF Receive, Dangling
<1> QED BY <1>2, <1>3 DEF FeedData

(* So does what the user subscribes to, *)
LEMMA SubscribeOK ==
  ASSUME FeedData, NEW t \in Ticker, Subscribe(t)
  PROVE  FeedData' /\ (NothingNegative => NothingNegative')
<1>1. /\ subscription' \in [ticker : Ticker, capacity : Nat] \cup {Nothing}
      /\ UNCHANGED <<orders, tickers, capacity, levels, undefined>>
  BY DEF Subscribe, FeedData, DataOK
<1> QED BY <1>1 DEF FeedData, DataOK, NothingNegative

(* a fill response and what the user types: they read the orders only. *)
LEMMA ReadersOK ==
  ASSUME FeedData, (\E i : InterpretFill(i)) \/ (\E in : GetUserInput(in))
  PROVE  FeedData' /\ (NothingNegative => NothingNegative')
<1>1. UNCHANGED <<orders, tickers, capacity, levels, subscription>>
  BY DEF InterpretFill, GetUserInput
<1>2. undefined' \in BOOLEAN
  <2>1. ASSUME NEW i, InterpretFill(i) PROVE undefined' \in BOOLEAN
    BY <2>1 DEF InterpretFill
  <2>2. ASSUME NEW in, GetUserInput(in) PROVE undefined' \in BOOLEAN
    BY <2>2 DEF GetUserInput, ReadsPast
  <2> QED BY <2>1, <2>2
<1> QED BY <1>1, <1>2 DEF FeedData, DataOK, NothingNegative

(* Every step keeps the invariant: a datagram, what the user types, a fill. *)
LEMMA FeedStepOK ==
  ASSUME FeedAssumption, FeedInv, [FeedNext]_cvars
  PROVE  FeedInv'
<1>1. FeedData /\ (SmallQuantities => NothingNegative)
  BY DEF FeedInv
<1>2. ASSUME NEW m \in Datagram, Receive(m) PROVE FeedInv'
  <2>1. SmallQuantities => SmallData(m)
    BY DEF SmallQuantities, SmallData, Small, Datagram, AddOrderData, ModOrderData,
           CancelOrderData, FillOrderData
  <2> QED BY <1>1, <1>2, <2>1, ReceiveOK DEF FeedInv
<1>3. ASSUME NEW t \in Ticker, Subscribe(t) PROVE FeedInv'
  BY <1>1, <1>3, SubscribeOK DEF FeedInv
<1>4. CASE (\E i \in OrderId : InterpretFill(i)) \/ (\E in \in CompleteInput : GetUserInput(in))
  BY <1>1, <1>4, ReadersOK DEF FeedInv
<1>5. CASE UNCHANGED cvars
  BY <1>1, <1>5 DEF cvars, FeedInv, FeedData, DataOK, NothingNegative
<1> QED BY <1>2, <1>3, <1>4, <1>5 DEF FeedNext

(* The client's data keep their types, whatever datagrams come. *)
THEOREM FeedTypeCorrect == FeedAssumption => (FeedSpec => []FeedTypeOK)
<1> SUFFICES ASSUME FeedAssumption PROVE FeedSpec => []FeedTypeOK
  OBVIOUS
<1>1. FeedInit => FeedInv
  BY FeedInitOK
<1>2. FeedInv /\ [FeedNext]_cvars => FeedInv'
  BY FeedStepOK
<1>3. FeedInv => FeedTypeOK
  BY FeedInvImplies
<1> QED BY <1>1, <1>2, <1>3, PTL DEF FeedSpec

(* As long as the exchange announces only quantities an int32 can hold,    *)
(* and none of 0, the client never holds an empty or negative level or     *)
(* order: lost, repeated and reordered datagrams included.                 *)
THEOREM FeedNeverNegative ==
  FeedAssumption /\ SmallQuantities => (FeedSpec => []NothingNegative)
<1> SUFFICES ASSUME FeedAssumption, SmallQuantities PROVE FeedSpec => []NothingNegative
  OBVIOUS
<1>1. FeedInit => FeedInv
  BY FeedInitOK
<1>2. FeedInv /\ [FeedNext]_cvars => FeedInv'
  BY FeedStepOK
<1>3. FeedInv => NothingNegative
  BY FeedInvImplies
<1> QED BY <1>1, <1>2, <1>3, PTL DEF FeedSpec
=============================================================================
