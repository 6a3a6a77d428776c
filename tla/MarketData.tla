----------------------------- MODULE MarketData -----------------------------
(***************************************************************************)
(* Market data from end to end: the order book of one ticker announces     *)
(* what it does, the dispatcher's queue and stream carry it to the data    *)
(* platform, the platform sends it by UDP, and a client rebuilds the book. *)
(* The components are OrderBook, DataPlatform and ClientFeed; this module  *)
(* adds the queue between the first two (a FIFO channel: WriteQueue), the  *)
(* network between the last two, and the order entry responses that reach  *)
(* the same client by another way.                                         *)
(*                                                                         *)
(* The feed moves between handlers of the book: a handler only appends to  *)
(* it, so what the feed does during one it could as well do after it.      *)
(*                                                                         *)
(* Each component is taken with its module of proofs, so that what is      *)
(* proved of it can be cited of the instance here.                         *)
(***************************************************************************)
EXTENDS Integers, Sequences, FiniteSets, SequencesExt, FiniteSetsExt

CONSTANTS
  User, MaxPrice, Quantity, NewQuantity, Word, FillWord, CountWord,
  MaxOrders, MaxPlacements,   \* of OrderBook
  Client, None,               \* of DataPlatform
  Me,           \* the client that is followed
  MyUser,       \* its user id on the order entry stream
  Executions,   \* what to consider: a set of faults, and whether the user acts
  Stale,        \* bound: what the client's buffer may hold past the end of a datagram
  MaxBacklog,   \* bound: no request while more messages are under way
  MaxPlacementsFull  \* bound: MaxPlacements where the socket may be full

VARIABLES
  limitorders, book, orderid, clock, pc, order, book_itr, book_order, detached,
  fills, sent, undefined,
  feed,         \* market data queued and on its way to the platform
  faults, market_data, buffer, subscribers, reader, at, tosend, waiting, failed,
  accepting, asking, network, cut, platform_undefined,
  orders, tickers, capacity, levels, subscription, client_undefined,
  active,       \* the client's user sends orders and subscribes to books
  acks,         \* orders of MyUser with a fill response under way
  other,        \* another book has announced its order
  traded,       \* orders that traded while resting, since they were last announced
  misstated,    \* orders announced with another quantity than the book gave them
  repriced      \* some order was re-priced

Book == INSTANCE OrderBookRefinementProofs

(* The book's ticker, one more whose book is not followed, and what zeros  *)
(* are read as.                                                            *)
Ticker == {"this", "other", "none"}
OtherOrder == MaxOrders + 1

Feed == INSTANCE ClientFeedProofs
          WITH OrderId <- Book!OrderId \cup {OtherOrder}, Price <- Book!Price,
               Quantity <- Book!Qty, Nothing <- None, undefined <- client_undefined

(* What the book announces: a fill also says if its order is done. *)
Message == Feed!AddOrderData \cup Feed!ModOrderData \cup Feed!CancelOrderData
           \cup [kind : {"fill"}, id : Book!OrderId, ticker : {"this"}, qty : Book!Qty,
                 full : BOOLEAN]

(* The fields that the platform copies into a datagram. *)
Layout(m) ==
  CASE m.kind = "added"     -> [kind |-> "added", id |-> m.id, ticker |-> m.ticker,
                                side |-> m.side, price |-> m.price, qty |-> m.qty]
    [] m.kind = "modified"  -> [kind |-> "modified", id |-> m.id, qty |-> m.qty]
    [] m.kind = "cancelled" -> [kind |-> "cancelled", id |-> m.id]
    [] m.kind = "fill"      -> [kind |-> "fill", id |-> m.id, ticker |-> m.ticker, qty |-> m.qty]

(* The lengths that the platform gives them. *)
Bytes(d) == CASE d.kind = "added" -> 39 [] d.kind = "modified"  -> 22
              [] d.kind = "fill"  -> 48 [] d.kind = "cancelled" -> 18

(* A client that receives the first n bytes of a datagram reads the fields *)
(* behind them from what its own buffer holds there.                       *)
ReadAs(d, n) ==
  CASE d.kind = "added" /\ n < 39 ->
         {[d EXCEPT !.ticker = s.ticker, !.side = s.side, !.price = s.price, !.qty = s.qty] :
            s \in Stale}
    [] d.kind = "modified" /\ n < 22 -> {[d EXCEPT !.qty = s.qty] : s \in Stale}
    [] d.kind = "fill" /\ n < 38 ->
         {[d EXCEPT !.ticker = s.ticker, !.qty = s.qty] : s \in Stale}
    [] OTHER -> {d}

Platform == INSTANCE DataPlatformProofs
              WITH Datagram <- Feed!Datagram, undefined <- platform_undefined

(* The client is one of the platform's, and its user one of the book's; a  *)
(* fill's 16 bits fit into a quantity.                                     *)
ASSUME MarketDataAssumption ==
  /\ Book!ConstantAssumption
  /\ 2 < Word /\ FillWord <= Word
  /\ Me \in Client /\ MyUser \in User
  /\ None \notin Client \cup Message \cup Feed!Datagram
  /\ Executions \subseteq [faults : SUBSET Platform!Fault, active : BOOLEAN]
  /\ Stale \subseteq [ticker : Ticker, side : Book!Side, price : Book!Price, qty : Book!Qty]

(* Quantities that the counters of the book and the int32 of the client    *)
(* hold: what the theorems about the client's book assume of the users.    *)
QuantitiesFit == /\ Book!NothingWraps
                 /\ \A q \in Quantity \cup NewQuantity : 2 * q < Word /\ q < FillWord

bookvars == <<limitorders, book, orderid, clock, pc, order, book_itr, book_order,
              detached, fills, sent, undefined>>
platformvars == <<faults, market_data, buffer, subscribers, reader, at, tosend, waiting,
                  failed, accepting, asking, network, cut, platform_undefined>>
clientvars == <<orders, tickers, capacity, levels, subscription, client_undefined>>
restvars == <<feed, active, acks, other, traded, misstated, repriced>>
vars == <<bookvars, platformvars, clientvars, restvars>>
-----------------------------------------------------------------------------
Init == /\ \E e \in Executions : faults = e.faults /\ active = e.active
        /\ Book!Init
        /\ Platform!PlatformInit
        /\ Feed!FeedInit
        /\ feed = << >>
        /\ acks = {}
        /\ other = FALSE
        /\ traded = {} /\ misstated = {}
        /\ repriced = FALSE

(***************************************************************************)
(* The book, and its requests but for those of the terminal.               *)
(***************************************************************************)
Backlog == Len(feed) + Len(waiting) + failed[Me] + Len(network[Me])

Request ==
  /\ Backlog <= MaxBacklog
  /\ \/ \E u \in User \ {MyUser}, s \in Book!Side, p \in Book!Price, q \in Quantity :
          Book!AddOrder(u, s, p, q)
     \/ \E i \in Book!OrderId, u \in User \ {MyUser} :
          \/ Book!CancelOrder(i, u)
          \/ \E s \in Book!Side, p \in Book!Price, q \in NewQuantity :
               Book!ModifyQuantity(i, u, s, p, q) \/ Book!ModifyPrice(i, u, s, p, q)
  /\ "full" \in faults /\ pc' = "add" => clock < MaxPlacementsFull
  /\ UNCHANGED <<platformvars, clientvars, restvars>>

Handle == /\ pc # "return"
          /\ Book!Handler
          /\ UNCHANGED <<platformvars, clientvars, restvars>>

(* Market data carry the ticker, and a fill's are a copy of the response;  *)
(* those of a change or a cancel name the order only.                      *)
AsData(m) ==
  CASE m.kind = "added" -> [kind |-> "added", id |-> m.id, ticker |-> "this",
                            side |-> m.side, price |-> m.price, qty |-> m.qty]
    [] m.kind = "fill"  -> [kind |-> "fill", id |-> m.id, ticker |-> "this",
                            qty |-> m.qty, full |-> m.full]
    [] OTHER            -> m

Announced == [k \in DOMAIN sent |-> AsData(sent[k])]

(* What the ghosts record: resting orders that traded, which no message    *)
(* says; modifications with another quantity than was announced; and the   *)
(* orders whose quantity a message says.                                   *)
SentOf(kinds) == {sent[k].id : k \in {j \in DOMAIN sent : sent[j].kind \in kinds}}
Traded == {fills[k].id : k \in {j \in DOMAIN fills : j % 2 = 1}}
Misstated == {i \in SentOf({"modified"}) :
                \A k \in DOMAIN sent : sent[k].qty # limitorders[i].qty}
Restated == SentOf({"added", "modified", "cancelled"})

(* The handler returns; what it sent is under way. *)
Publish ==
  /\ Book!Return
  /\ feed' = feed \o Announced
  /\ acks' = acks \cup {sent[k].id : k \in {j \in DOMAIN sent :
                          sent[j].kind = "fill" /\ sent[j].to = MyUser}}
  /\ traded' = (traded \ Restated) \cup Traded
  /\ misstated' = (misstated \ Restated) \cup Misstated
  /\ repriced' = (repriced \/ (Len(sent) > 1 /\ sent[1].kind = "cancelled"))
  /\ UNCHANGED <<platformvars, clientvars, active, other>>

(* A book of another ticker announces an order. *)
OtherAdds ==
  /\ active /\ ~other /\ Backlog <= MaxBacklog
  /\ other' = TRUE
  /\ feed' = Append(feed, [kind |-> "added", id |-> OtherOrder, ticker |-> "other",
                           side |-> "buy", price |-> 0, qty |-> 1])
  /\ UNCHANGED <<bookvars, platformvars, clientvars, active, acks, traded, misstated, repriced>>
-----------------------------------------------------------------------------
(***************************************************************************)
(* The platform, the network and the client.                               *)
(***************************************************************************)
PlatformReads == /\ feed # << >>
                 /\ Platform!Read(Head(feed))
                 /\ feed' = Tail(feed)
                 /\ UNCHANGED <<bookvars, clientvars, active, acks, other, traded, misstated,
                                repriced>>

PlatformSteps == Platform!PlatformStep /\ UNCHANGED <<bookvars, clientvars, restvars>>

TakenFrom(n) == /\ network' = [network EXCEPT ![Me] = RemoveAt(@, n)]
                /\ UNCHANGED <<faults, market_data, buffer, subscribers, reader, at, tosend,
                               waiting, failed, accepting, asking, cut, platform_undefined>>

Deliver == \E n \in DOMAIN network[Me] :
             /\ n = 1 \/ "swap" \in faults
             /\ Feed!Receive(network[Me][n])
             /\ TakenFrom(n)
             /\ UNCHANGED <<bookvars, restvars>>

Lose == /\ "lose" \in faults
        /\ network[Me] # << >>
        /\ TakenFrom(1)
        /\ UNCHANGED <<bookvars, clientvars, restvars>>

(* What the user types is a new order, or it ends the client. *)
UserTypes ==
  /\ active /\ Backlog <= MaxBacklog
  /\ \E in \in Feed!CompleteInput :
       /\ Feed!GetUserInput(in)
       /\ \/ /\ ~Feed!ReadsPast(in)
             /\ \E p \in Book!Price, q \in Quantity :
                  Book!AddOrder(MyUser, IF in.side = "B" THEN "buy" ELSE "sell", p, q)
          \/ Feed!ReadsPast(in) /\ UNCHANGED bookvars
  /\ UNCHANGED <<platformvars, restvars>>

UserSubscribes == /\ active
                  /\ \E t \in Ticker \ {"none"} : Feed!Subscribe(t)
                  /\ UNCHANGED <<bookvars, platformvars, restvars>>

FillArrives == \E i \in acks : /\ Feed!InterpretFill(i)
                               /\ acks' = acks \ {i}
                               /\ UNCHANGED <<bookvars, platformvars, feed, active, other, traded,
                                               misstated, repriced>>

Next == /\ ~undefined /\ ~platform_undefined /\ ~client_undefined
        /\ \/ Request \/ Handle \/ Publish
           \/ /\ pc = "idle"
              /\ \/ OtherAdds \/ PlatformReads \/ PlatformSteps
                 \/ Deliver \/ Lose \/ UserTypes \/ UserSubscribes \/ FillArrives

Spec == Init /\ [][Next]_vars
-----------------------------------------------------------------------------
(* Every variable has its type: the book, the ghosts and what is queued    *)
(* name orders of the book, and what a client reads, cut or not, is a      *)
(* datagram its handlers take.                                             *)
TypeOK == /\ Platform!PlatformTypeOK
          /\ Feed!FeedTypeOK
          /\ feed \in Seq(Message)
          /\ acks \subseteq Book!OrderId
          /\ {active, other, repriced} \subseteq BOOLEAN
          /\ traded \cup misstated \subseteq Book!OrderId

(* No level of the client's screen and no order it knows is empty or       *)
(* negative, whatever is lost, sent twice or out of order, as long as no   *)
(* datagram is cut: what a cut one is read as may have quantity 0.         *)
NothingNegative == ~cut => Feed!NothingNegative

(* The orders of the client at one level. *)
At(k) == {i \in DOMAIN orders : Feed!LevelOf(orders[i]) = k}
Total(k) == MapThenSumSet(LAMBDA i : orders[i].qty, At(k))

(* The client is sent nothing twice and nothing out of order: no send has  *)
(* to wait, the network does not reorder, and nobody else subscribes while *)
(* the platform is in its loop over the subscribers.                       *)
InOrder == /\ faults \cap {"full", "swap"} = {}
           /\ "late" \in faults => Client = {Me}

(* The client keeps each quantity twice, in an order and in a level, and   *)
(* the two agree: the size of a level on the screen is what its orders add *)
(* up to.  Lost datagrams keep it so, as long as no order is re-priced     *)
(* (its second announcement then meets the first one's order).             *)
LevelsMatchOrders ==
  InOrder /\ (faults \subseteq {"late"} \/ ~repriced) =>
    \A k \in Ticker \X Book!Side \X Book!Price :
      Total(k) = IF k \in DOMAIN levels THEN levels[k] ELSE 0

Drained == /\ pc = "idle" /\ feed = << >> /\ reader = "read"
           /\ waiting = << >> /\ network[Me] = << >>

(* The client's order i against the book's: same side and price, and the   *)
(* same quantity unless it traded while resting, when it is too large.     *)
Agrees(i) ==
  LET o == orders[i]
      l == limitorders[i]
  IN
  /\ o.ticker = "this" /\ o.side = l.side /\ o.price = l.price
  /\ i \notin misstated => o.qty >= l.qty
  /\ i \notin misstated \cup traded => o.qty = l.qty

(* When all market data has arrived the client's book is the exchange's,   *)
(* but for trades of resting orders, which the market data do not give     *)
(* (each fill names the incoming order), and for misstated modifications:  *)
(* an order that rests is known and agrees, one that is known and does not *)
(* rest was traded away.  A client that came late misses orders only.      *)
DifferOnlyByTrades ==
  InOrder /\ faults \subseteq {"late"} /\ Drained =>
    /\ \A i \in DOMAIN orders \cap DOMAIN limitorders : Agrees(i)
    /\ DOMAIN orders \subseteq DOMAIN limitorders \cup traded \cup {OtherOrder}
    /\ faults = {} => DOMAIN limitorders \subseteq DOMAIN orders
=============================================================================
