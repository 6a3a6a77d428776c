-------------------------- MODULE MarketDataProofs --------------------------
(***************************************************************************)
(* Proofs about MarketData: what holds of the client's book, from the      *)
(* order book that announces to the datagrams that reach the client.  The  *)
(* steps of the components are those their own modules of proofs are       *)
(* about, whose lemmas are cited here through the instances.               *)
(***************************************************************************)
EXTENDS MarketData, TLAPS, SequenceTheorems, FiniteSetTheorems

(***************************************************************************)
(* Types.  The book sends no rejection here: refused requests change       *)
(* nothing and announce nothing, so Request leaves them out.               *)
(***************************************************************************)
SentIsData == \A k \in DOMAIN sent : sent[k].kind # "reject"

RestOK == /\ feed \in Seq(Message)
          /\ acks \subseteq Book!OrderId
          /\ active \in BOOLEAN /\ other \in BOOLEAN /\ repriced \in BOOLEAN
          /\ traded \subseteq Book!OrderId /\ misstated \subseteq Book!OrderId

MarketInv == /\ Book!TypeOK /\ SentIsData
             /\ Platform!PlatformInv
             /\ Feed!FeedData
             /\ RestOK

(* What the lemmas of the components assume of their constants. *)
LEMMA Assumptions ==
  /\ Book!ConstantAssumption /\ Feed!FeedAssumption
  /\ Word \in Nat /\ FillWord \in Nat /\ 1 \in Book!Qty /\ 0 .. FillWord - 1 \subseteq Book!Qty
  /\ 0 \in Book!Price /\ MaxOrders \in Nat
BY MarketDataAssumption
DEF Book!ConstantAssumption, Feed!FeedAssumption, Book!Qty, Book!Price

(* Every message has a layout. *)
LEMMA LayoutType ==
  ASSUME NEW m \in Message
  PROVE  Layout(m) \in Feed!Datagram /\ Layout(m).kind = m.kind /\ Layout(m).id = m.id
<1>1. CASE m \in Feed!AddOrderData
  BY <1>1 DEF Layout, Feed!Datagram, Feed!AddOrderData
<1>2. CASE m \in Feed!ModOrderData
  BY <1>2 DEF Layout, Feed!Datagram, Feed!ModOrderData
<1>3. CASE m \in Feed!CancelOrderData
  BY <1>3 DEF Layout, Feed!Datagram, Feed!CancelOrderData
<1>4. CASE m.kind = "fill" /\ m.id \in Book!OrderId /\ m.ticker = "this" /\ m.qty \in Book!Qty
  <2>1. Layout(m) = [kind |-> "fill", id |-> m.id, ticker |-> m.ticker, qty |-> m.qty]
    BY <1>4 DEF Layout
  <2> QED BY <1>4, <2>1 DEF Feed!Datagram, Feed!FillOrderData, Ticker
<1> QED BY <1>1, <1>2, <1>3, <1>4 DEF Message

(* Every datagram has a length. *)
LEMMA LengthType == Platform!Length \subseteq Nat
<1>1. \A d \in Feed!Datagram : d.kind \in {"added", "modified", "cancelled", "fill"}
  BY DEF Feed!Datagram, Feed!AddOrderData, Feed!ModOrderData, Feed!CancelOrderData,
         Feed!FillOrderData
<1>2. \A d \in Feed!Datagram : Bytes(d) \in Nat
  BY <1>1 DEF Bytes
<1> QED BY <1>2 DEF Platform!Length

(* What is left of a datagram is read as a datagram. *)
LEMMA ReadAsType ==
  ASSUME NEW d \in Feed!Datagram, NEW n
  PROVE  ReadAs(d, n) \subseteq Feed!Datagram
<1> SUFFICES ASSUME NEW e \in ReadAs(d, n) PROVE e \in Feed!Datagram
  OBVIOUS
<1> DEFINE S == [ticker : Ticker, side : Book!Side, price : Book!Price, qty : Book!Qty]
<1>1. Stale \subseteq S /\ Book!Side = Feed!Side
  BY MarketDataAssumption DEF Book!Side, Feed!Side
<1>2. CASE d.kind = "added" /\ n < 39
  <2>1. PICK s \in Stale : e = [d EXCEPT !.ticker = s.ticker, !.side = s.side,
                                        !.price = s.price, !.qty = s.qty]
    BY <1>2 DEF ReadAs
  <2>2. d \in Feed!AddOrderData /\ s \in S
    BY <1>1, <1>2
    DEF Feed!Datagram, Feed!ModOrderData, Feed!CancelOrderData, Feed!FillOrderData
  <2> QED BY <1>1, <2>1, <2>2 DEF Feed!Datagram, Feed!AddOrderData
<1>3. CASE d.kind = "modified" /\ n < 22
  <2>1. PICK s \in Stale : e = [d EXCEPT !.qty = s.qty]
    BY <1>3 DEF ReadAs
  <2>2. d \in Feed!ModOrderData /\ s \in S
    BY <1>1, <1>3
    DEF Feed!Datagram, Feed!AddOrderData, Feed!CancelOrderData, Feed!FillOrderData
  <2> QED BY <2>1, <2>2 DEF Feed!Datagram, Feed!ModOrderData
<1>4. CASE d.kind = "fill" /\ n < 38
  <2>1. PICK s \in Stale : e = [d EXCEPT !.ticker = s.ticker, !.qty = s.qty]
    BY <1>4 DEF ReadAs
  <2>2. d \in Feed!FillOrderData /\ s \in S
    BY <1>1, <1>4
    DEF Feed!Datagram, Feed!AddOrderData, Feed!ModOrderData, Feed!CancelOrderData
  <2> QED BY <2>1, <2>2 DEF Feed!Datagram, Feed!FillOrderData
<1>5. CASE /\ ~(d.kind = "added" /\ n < 39)
           /\ ~(d.kind = "modified" /\ n < 22)
           /\ ~(d.kind = "fill" /\ n < 38)
  <2>1. ReadAs(d, n) = {d}
    BY <1>5 DEF ReadAs
  <2> QED BY <2>1
<1> QED BY <1>2, <1>3, <1>4, <1>5

(* So the platform's assumption holds. *)
LEMMA PlatformAssumed == Platform!PlatformAssumption
BY MarketDataAssumption, LayoutType, LengthType, ReadAsType DEF Platform!PlatformAssumption

(* What the book sends is market data of its ticker. *)
LEMMA AsDataType ==
  ASSUME NEW m \in Book!Message, m.kind # "reject"
  PROVE  /\ AsData(m) \in Message /\ m.id \in Book!OrderId
         /\ AsData(m).kind = m.kind /\ AsData(m).id = m.id
         /\ m.kind # "cancelled" => AsData(m).qty = m.qty
<1>1. CASE m.kind = "added"
  <2>1. /\ m.id \in Book!OrderId /\ m.side \in Book!Side /\ m.price \in Book!Price
        /\ m.qty \in Book!Qty
    BY <1>1 DEF Book!Message
  <2>2. AsData(m) = [kind |-> "added", id |-> m.id, ticker |-> "this",
                     side |-> m.side, price |-> m.price, qty |-> m.qty]
    BY <1>1 DEF AsData
  <2> QED BY <1>1, <2>1, <2>2 DEF Message, Feed!AddOrderData, Ticker, Book!Side, Feed!Side
<1>2. CASE m.kind = "fill"
  <2>1. m.id \in Book!OrderId /\ m.qty \in 0 .. FillWord - 1 /\ m.full \in BOOLEAN
    BY <1>2 DEF Book!Message
  <2>2. AsData(m) = [kind |-> "fill", id |-> m.id, ticker |-> "this",
                     qty |-> m.qty, full |-> m.full]
    BY <1>2 DEF AsData
  <2>3. m.qty \in Book!Qty
    BY <2>1, Assumptions
  <2> QED BY <1>2, <2>1, <2>2, <2>3 DEF Message
<1>3. CASE m.kind = "modified"
  <2>1. m \in [kind : {"modified"}, id : Book!OrderId, qty : Book!Qty] /\ AsData(m) = m
    BY <1>3 DEF Book!Message, AsData
  <2> QED BY <2>1 DEF Message, Feed!ModOrderData
<1>4. CASE m.kind = "cancelled"
  <2>1. m \in [kind : {"cancelled"}, id : Book!OrderId] /\ AsData(m) = m
    BY <1>4 DEF Book!Message, AsData
  <2> QED BY <1>4, <2>1 DEF Message, Feed!CancelOrderData
<1> QED BY <1>1, <1>2, <1>3, <1>4 DEF Book!Message

(* What a handler announces is a sequence of messages. *)
LEMMA AnnouncedType ==
  ASSUME Book!TypeOK, SentIsData
  PROVE  /\ Announced \in Seq(Message) /\ DOMAIN Announced = DOMAIN sent
         /\ Len(Announced) = Len(sent)
         /\ \A k \in DOMAIN sent : /\ sent[k].id \in Book!OrderId
                                   /\ sent[k] \in Book!Message /\ sent[k].kind # "reject"
<1>1. sent \in Seq(Book!Message)
  BY DEF Book!TypeOK
<1>2. /\ DOMAIN sent = 1 .. Len(sent) /\ Len(sent) \in Nat
      /\ \A k \in DOMAIN sent : sent[k] \in Book!Message /\ sent[k].kind # "reject"
  BY <1>1, LenProperties DEF SentIsData
<1>3. \A k \in DOMAIN sent : AsData(sent[k]) \in Message /\ sent[k].id \in Book!OrderId
  BY <1>2, AsDataType
<1>4. Announced \in [1 .. Len(sent) -> Message]
  BY <1>2, <1>3 DEF Announced
<1>5. Announced \in Seq(Message) /\ Len(Announced) = Len(sent)
  BY <1>2, <1>4
<1> QED BY <1>2, <1>3, <1>5 DEF Announced
-----------------------------------------------------------------------------
(***************************************************************************)
(* Requests and handlers are steps of the book.                            *)
(***************************************************************************)
LEMMA RequestIsBooks ==
  ASSUME Request
  PROVE  Book!Request /\ UNCHANGED <<platformvars, clientvars, restvars>>
<1>1. \/ \E u \in User, s \in Book!Side, p \in Book!Price, q \in Quantity :
           Book!AddOrder(u, s, p, q)
      \/ \E i \in Book!OrderId, u \in User :
           \/ Book!CancelOrder(i, u)
           \/ \E s \in Book!Side, p \in Book!Price, q \in NewQuantity :
                Book!ModifyQuantity(i, u, s, p, q) \/ Book!ModifyPrice(i, u, s, p, q)
  BY DEF Request
<1> QED BY <1>1 DEF Request, Book!Request

(* What the user types is a new order or none. *)
LEMMA UserIsBooks ==
  ASSUME UserTypes
  PROVE  /\ \/ \E s \in Book!Side, p \in Book!Price, q \in Quantity :
                 Book!AddOrder(MyUser, s, p, q)
            \/ UNCHANGED bookvars
         /\ Book!Request \/ UNCHANGED bookvars
         /\ \E in \in Feed!CompleteInput : Feed!GetUserInput(in)
         /\ UNCHANGED <<platformvars, restvars>>
<1>1. PICK in \in Feed!CompleteInput :
        /\ Feed!GetUserInput(in)
        /\ \/ /\ ~Feed!ReadsPast(in)
              /\ \E p \in Book!Price, q \in Quantity :
                   Book!AddOrder(MyUser, IF in.side = "B" THEN "buy" ELSE "sell", p, q)
           \/ Feed!ReadsPast(in) /\ UNCHANGED bookvars
  BY DEF UserTypes
<1>2. (IF in.side = "B" THEN "buy" ELSE "sell") \in Book!Side
  BY DEF Book!Side
<1>3. \/ \E s \in Book!Side, p \in Book!Price, q \in Quantity : Book!AddOrder(MyUser, s, p, q)
      \/ UNCHANGED bookvars
  BY <1>1, <1>2
<1>4. Book!Request \/ UNCHANGED bookvars
  BY <1>3, MarketDataAssumption DEF Book!Request
<1> QED BY <1>1, <1>3, <1>4 DEF UserTypes

(* A step of the book keeps its types. *)
LEMMA BookKeepsTypes ==
  ASSUME Book!TypeOK, Book!Request \/ Book!Handler \/ UNCHANGED bookvars
  PROVE  Book!TypeOK'
<1>1. CASE Book!Request
  BY <1>1, Assumptions, Book!TypeRequest DEF Book!ConstantAssumption
<1>2. CASE Book!Handler
  BY <1>2, Assumptions, Book!TypeHandler DEF Book!ConstantAssumption
<1>3. CASE UNCHANGED bookvars
  BY <1>3 DEF bookvars, Book!TypeOK
<1> QED BY <1>1, <1>2, <1>3

(* The messages of a handler, one by one. *)
LEMMA NewMessages ==
  ASSUME Book!TypeOK, Request \/ UserTypes \/ Handle
  PROVE  \/ sent' = sent
         \/ \E i \in Book!OrderId : sent' = <<Book!Cancelled(i)>>
         \/ \E i \in Book!OrderId, q \in NewQuantity : sent' = <<Book!Modified(i, q)>>
         \/ Book!PlaceOrder
         \/ Book!CommunicateMatchResults
<1>1. CASE Request
  BY <1>1 DEF Request, Book!AddOrder, Book!CancelOrder, Book!ModifyQuantity, Book!ModifyPrice
<1>2. CASE UserTypes
  BY <1>2, UserIsBooks DEF Book!AddOrder, bookvars
<1>3. CASE Handle
  BY <1>3 DEF Handle, Book!Handler, Book!StartMatch, Book!NothingToMatch, Book!ReadErasedLimit,
     Book!FillResting, Book!FillIncoming, Book!NextLevel, Book!Return, Book!At
<1> QED BY <1>1, <1>2, <1>3

(* communicateMatchResults sends a message per fill. *)
LEMMA FillsAppended ==
  ASSUME Book!TypeOK, Book!CommunicateMatchResults
  PROVE  /\ Len(sent) \in Nat /\ Len(fills) \in Nat
         /\ DOMAIN sent = 1 .. Len(sent) /\ DOMAIN sent' = 1 .. Len(sent) + Len(fills)
         /\ Len(sent') = Len(sent) + Len(fills)
         /\ \A k \in 1 .. Len(sent) : sent'[k] = sent[k]
         /\ \A k \in 1 .. Len(fills) :
              sent'[Len(sent) + k] =
                [kind |-> "fill", to |-> fills[k].connection, id |-> order.id,
                 qty |-> fills[k].qty, full |-> fills[k].full]
         /\ \A k \in DOMAIN sent' : k > Len(sent) =>
              \E j \in 1 .. Len(fills) : k = Len(sent) + j
<1>1. sent \in Seq(Book!Message) /\ fills \in Seq(Book!FillRecord) /\ sent' \in Seq(Book!Message)
  BY BookKeepsTypes DEF Book!Handler, Book!TypeOK
<1> DEFINE msg(k) == [kind |-> "fill", to |-> fills[k].connection, id |-> order.id,
                      qty |-> fills[k].qty, full |-> fills[k].full]
           new == Book!FillMessages(order)
<1>2. new = [k \in 1 .. Len(fills) |-> msg(k)] /\ sent' = sent \o new
  BY DEF Book!FillMessages, Book!CommunicateMatchResults
<1>3. Len(sent) \in Nat /\ Len(fills) \in Nat /\ DOMAIN sent = 1 .. Len(sent)
  BY <1>1, LenProperties
<1> DEFINE S == Book!Message \cup {msg(k) : k \in 1 .. Len(fills)}
<1>4. new \in Seq(S) /\ Len(new) = Len(fills) /\ \A k \in 1 .. Len(fills) : new[k] = msg(k)
  <2>1. new \in [1 .. Len(fills) -> S]
    BY <1>2
  <2> HIDE DEF S, new
  <2>2. new \in Seq(S) /\ Len(new) = Len(fills)
    BY <1>3, <2>1
  <2> QED BY <1>2, <2>2
<1>5. sent \in Seq(S)
  BY <1>1, SeqMonotonic
<1> HIDE DEF S, new, msg
<1>6. /\ Len(sent \o new) = Len(sent) + Len(fills)
      /\ \A i \in 1 .. Len(sent) + Len(fills) :
           (sent \o new)[i] = IF i <= Len(sent) THEN sent[i] ELSE new[i - Len(sent)]
  <2>1. /\ Len(sent \o new) = Len(sent) + Len(new)
        /\ \A i \in 1 .. Len(sent) + Len(new) :
             (sent \o new)[i] = IF i <= Len(sent) THEN sent[i] ELSE new[i - Len(sent)]
    BY <1>4, <1>5, ConcatProperties
  <2> QED BY <1>4, <2>1
<1>7. Len(sent') = Len(sent) + Len(fills) /\ DOMAIN sent' = 1 .. Len(sent) + Len(fills)
  BY <1>1, <1>2, <1>6, LenProperties
<1>8. \A k \in 1 .. Len(sent) : sent'[k] = sent[k]
  BY <1>2, <1>3, <1>6
<1>9. \A k \in 1 .. Len(fills) : sent'[Len(sent) + k] = msg(k)
  BY <1>2, <1>3, <1>4, <1>6
<1>10. \A k \in DOMAIN sent' : k > Len(sent) => \E j \in 1 .. Len(fills) : k = Len(sent) + j
  <2> SUFFICES ASSUME NEW k \in DOMAIN sent', k > Len(sent)
               PROVE  \E j \in 1 .. Len(fills) : k = Len(sent) + j
    OBVIOUS
  <2>1. k - Len(sent) \in 1 .. Len(fills) /\ k = Len(sent) + (k - Len(sent))
    BY <1>3, <1>7
  <2> QED BY <2>1
<1> QED BY <1>3, <1>7, <1>8, <1>9, <1>10 DEF msg

(* placeOrderInBook sends the order. *)
LEMMA AddAppended ==
  ASSUME Book!TypeOK, Book!PlaceOrder
  PROVE  /\ Len(sent) \in Nat /\ DOMAIN sent = 1 .. Len(sent)
         /\ Len(sent') = Len(sent) + 1 /\ DOMAIN sent' = 1 .. Len(sent) + 1
         /\ \A k \in 1 .. Len(sent) : sent'[k] = sent[k]
         /\ sent'[Len(sent) + 1] = Book!Added(order)
<1>1. sent \in Seq(Book!Message) /\ sent' \in Seq(Book!Message)
  BY BookKeepsTypes DEF Book!Handler, Book!TypeOK
<1>2. sent' = Append(sent, Book!Added(order))
  BY DEF Book!PlaceOrder
<1> QED BY <1>1, <1>2, LenProperties

(* No rejection is sent. *)
LEMMA SentStaysData ==
  ASSUME Book!TypeOK, SentIsData, Request \/ UserTypes \/ Handle
  PROVE  SentIsData'
<1>1. CASE sent' = sent
  BY <1>1 DEF SentIsData
<1>2. ASSUME NEW i \in Book!OrderId, sent' = <<Book!Cancelled(i)>> PROVE SentIsData'
  BY <1>2 DEF Book!Cancelled, SentIsData
<1>3. ASSUME NEW i \in Book!OrderId, NEW q, sent' = <<Book!Modified(i, q)>> PROVE SentIsData'
  BY <1>3 DEF Book!Modified, SentIsData
<1>4. CASE Book!PlaceOrder
  <2>1. Book!Added(order).kind = "added"
    BY DEF Book!Added
  <2> QED BY <1>4, <2>1, AddAppended DEF SentIsData
<1>5. CASE Book!CommunicateMatchResults
  <2> SUFFICES ASSUME NEW k \in DOMAIN sent' PROVE sent'[k].kind # "reject"
    BY DEF SentIsData
  <2>1. CASE k > Len(sent)
    <3>1. PICK j \in 1 .. Len(fills) : k = Len(sent) + j
      BY <1>5, <2>1, FillsAppended
    <3>2. sent'[Len(sent) + j] =
            [kind |-> "fill", to |-> fills[j].connection, id |-> order.id,
             qty |-> fills[j].qty, full |-> fills[j].full]
      BY <1>5, FillsAppended
    <3> QED BY <3>1, <3>2
  <2>2. CASE ~(k > Len(sent))
    <3>1. k \in 1 .. Len(sent) /\ k \in DOMAIN sent /\ sent'[k] = sent[k]
      BY <1>5, <2>2, FillsAppended
    <3> QED BY <3>1 DEF SentIsData
  <2> QED BY <2>1, <2>2
<1> QED BY <1>1, <1>2, <1>3, <1>4, <1>5, NewMessages
-----------------------------------------------------------------------------
(***************************************************************************)
(* The components that a step leaves alone keep their part.                *)
(***************************************************************************)
LEMMA PlatformAlone ==
  ASSUME Platform!PlatformInv, UNCHANGED platformvars
  PROVE  Platform!PlatformInv'
BY DEF platformvars, Platform!PlatformInv, Platform!PlatformTypeOK, Platform!Loop,
       Platform!Filled, Platform!Whole

(* The client, *)
LEMMA ClientAlone ==
  ASSUME UNCHANGED clientvars
  PROVE  /\ Feed!FeedData => Feed!FeedData'
         /\ Feed!NothingNegative => Feed!NothingNegative'
BY DEF clientvars, Feed!FeedData, Feed!DataOK, Feed!IsOrders, Feed!IsLevels, Feed!NothingNegative

(* the book. *)
LEMMA BookAlone ==
  ASSUME Book!TypeOK, SentIsData, UNCHANGED bookvars
  PROVE  Book!TypeOK' /\ SentIsData'
BY DEF bookvars, Book!TypeOK, SentIsData

(* Taking an element out of a sequence. *)
LEMMA RemoveAtSeq ==
  ASSUME NEW S, NEW s \in Seq(S), NEW n \in 1 .. Len(s)
  PROVE  /\ RemoveAt(s, n) \in Seq(S) /\ Len(RemoveAt(s, n)) = Len(s) - 1
         /\ \A j \in 1 .. Len(s) - 1 : RemoveAt(s, n)[j] = IF j < n THEN s[j] ELSE s[j + 1]
<1>1. Len(s) \in Nat /\ \A j \in 1 .. Len(s) : s[j] \in S
  BY LenProperties, ElementOfSeq
<1> DEFINE a == SubSeq(s, 1, n - 1)
           b == SubSeq(s, n + 1, Len(s))
<1>2. /\ a \in Seq(S) /\ Len(a) = n - 1
      /\ \A j \in 1 .. n - 1 : a[j] = s[j]
  <2>1. \A j \in 1 .. n - 1 : s[j] \in S
    BY <1>1
  <2>2. n - 1 \in Int /\ 1 \in Int
    BY <1>1
  <2>3. /\ a \in Seq(S) /\ Len(a) = IF 1 <= n - 1 THEN n - 1 - 1 + 1 ELSE 0
        /\ \A j \in 1 .. n - 1 - 1 + 1 : a[j] = s[1 + j - 1]
    BY <2>1, <2>2, SubSeqProperties
  <2> HIDE DEF a
  <2> QED BY <1>1, <2>3
<1>3. /\ b \in Seq(S) /\ Len(b) = Len(s) - n
      /\ \A j \in 1 .. Len(s) - n : b[j] = s[n + j]
  <2>1. \A j \in n + 1 .. Len(s) : s[j] \in S
    BY <1>1
  <2>2. n + 1 \in Int /\ Len(s) \in Int
    BY <1>1
  <2>3. /\ b \in Seq(S) /\ Len(b) = IF n + 1 <= Len(s) THEN Len(s) - (n + 1) + 1 ELSE 0
        /\ \A j \in 1 .. Len(s) - (n + 1) + 1 : b[j] = s[n + 1 + j - 1]
    BY <2>1, <2>2, SubSeqProperties
  <2> HIDE DEF b
  <2> QED BY <1>1, <2>3
<1>4. RemoveAt(s, n) = a \o b
  BY DEF RemoveAt
<1> HIDE DEF a, b
<1>5. /\ a \o b \in Seq(S) /\ Len(a \o b) = Len(a) + Len(b)
      /\ \A i \in 1 .. Len(a) + Len(b) : (a \o b)[i] = IF i <= Len(a) THEN a[i] ELSE b[i - Len(a)]
  BY <1>2, <1>3, ConcatProperties
<1>6. Len(a) + Len(b) = Len(s) - 1
  BY <1>1, <1>2, <1>3
<1>7. \A j \in 1 .. Len(s) - 1 : (a \o b)[j] = IF j < n THEN s[j] ELSE s[j + 1]
  <2> SUFFICES ASSUME NEW j \in 1 .. Len(s) - 1
               PROVE  (a \o b)[j] = IF j < n THEN s[j] ELSE s[j + 1]
    OBVIOUS
  <2>1. CASE j < n
    BY <1>1, <1>2, <1>5, <1>6, <2>1
  <2>2. CASE ~(j < n)
    <3>1. j - (n - 1) \in 1 .. Len(s) - n /\ n + (j - (n - 1)) = j + 1
      BY <1>1, <2>2
    <3>2. (a \o b)[j] = b[j - (n - 1)]
      BY <1>1, <1>2, <1>5, <1>6, <2>2
    <3> QED BY <1>3, <2>2, <3>1, <3>2
  <2> QED BY <2>1, <2>2
<1> QED BY <1>4, <1>5, <1>6, <1>7

(* A datagram is taken from the network. *)
LEMMA TakenOK ==
  ASSUME Platform!PlatformInv, NEW n \in DOMAIN network[Me], TakenFrom(n)
  PROVE  /\ Platform!PlatformInv' /\ network[Me][n] \in Feed!Datagram
         /\ network[Me] \in Seq(Feed!Datagram) /\ network'[Me] = RemoveAt(network[Me], n)
         /\ n \in 1 .. Len(network[Me])
         /\ \A c \in Client : c # Me => network'[c] = network[c]
<1>1. network \in [Client -> Seq(Feed!Datagram)] /\ Me \in Client
  BY MarketDataAssumption DEF Platform!PlatformInv, Platform!Loop
<1>2. network[Me] \in Seq(Feed!Datagram) /\ n \in 1 .. Len(network[Me])
  BY <1>1, LenProperties
<1>3. network[Me][n] \in Feed!Datagram /\ RemoveAt(network[Me], n) \in Seq(Feed!Datagram)
  BY <1>2, ElementOfSeq, RemoveAtSeq
<1>4. /\ network' \in [Client -> Seq(Feed!Datagram)] /\ network'[Me] = RemoveAt(network[Me], n)
      /\ \A c \in Client : c # Me => network'[c] = network[c]
  BY <1>1, <1>3 DEF TakenFrom
<1>5. Platform!PlatformInv'
  BY <1>4 DEF TakenFrom, Platform!PlatformInv, Platform!PlatformTypeOK, Platform!Loop,
              Platform!Filled, Platform!Whole
<1> QED BY <1>2, <1>3, <1>4, <1>5

(* What a handler did is recorded under ids of orders. *)
LEMMA PublishOK ==
  ASSUME MarketInv, Publish
  PROVE  MarketInv'
<1>1. Book!TypeOK /\ SentIsData /\ RestOK
  BY DEF MarketInv
<1>2. Book!TypeOK' /\ SentIsData'
  <2>1. Book!Return
    BY DEF Publish
  <2>2. sent' = << >>
    BY <2>1 DEF Book!Return
  <2> QED BY <1>1, <2>1, <2>2, BookKeepsTypes DEF Book!Handler, SentIsData
<1>3. Platform!PlatformInv'
  BY PlatformAlone DEF MarketInv, Publish
<1>4. Feed!FeedData'
  BY ClientAlone DEF MarketInv, Publish
<1>5. feed' \in Seq(Message)
  <2>1. feed \in Seq(Message) /\ Announced \in Seq(Message) /\ feed' = feed \o Announced
    BY <1>1, AnnouncedType DEF RestOK, Publish
  <2> QED BY <2>1, ConcatProperties
<1>6. \A k \in DOMAIN sent : sent[k].id \in Book!OrderId
  BY <1>1, AnnouncedType
<1>7. \A k \in DOMAIN fills : fills[k].id \in Book!OrderId
  <2>1. fills \in Seq(Book!FillRecord)
    BY <1>1 DEF Book!TypeOK
  <2>2. \A k \in DOMAIN fills : fills[k] \in Book!FillRecord
    BY <2>1, LenProperties
  <2> QED BY <2>2 DEF Book!FillRecord
<1>8. acks' \subseteq Book!OrderId
  BY <1>1, <1>6 DEF Publish, RestOK
<1>9. traded' \subseteq Book!OrderId /\ misstated' \subseteq Book!OrderId
  BY <1>1, <1>6, <1>7 DEF Publish, RestOK, Traded, Misstated, SentOf
<1>10. active' \in BOOLEAN /\ other' \in BOOLEAN /\ repriced' \in BOOLEAN
  BY <1>1 DEF Publish, RestOK
<1> QED BY <1>2, <1>3, <1>4, <1>5, <1>8, <1>9, <1>10 DEF MarketInv, RestOK

(* A book of another ticker announces its order. *)
LEMMA OtherOrderType ==
  [kind |-> "added", id |-> OtherOrder, ticker |-> "other", side |-> "buy",
   price |-> 0, qty |-> 1] \in Message
BY Assumptions DEF Message, Feed!AddOrderData, Ticker, Feed!Side

(* The first state. *)
LEMMA MarketInitOK == Init => MarketInv
<1> SUFFICES ASSUME Init PROVE MarketInv
  OBVIOUS
<1>1. Book!TypeOK
  BY Assumptions, Book!TypeInit DEF Init, Book!ConstantAssumption
<1>2. SentIsData
  BY DEF Init, Book!Init, SentIsData
<1>3. Platform!PlatformInv
  BY Platform!PlatformInitOK DEF Init
<1>4. Feed!FeedData
  BY Feed!FeedInitOK DEF Init, Feed!FeedInv
<1>5. active \in BOOLEAN
  BY MarketDataAssumption DEF Init
<1>6. RestOK
  <2>1. /\ feed = << >> /\ acks = {} /\ other = FALSE
        /\ traded = {} /\ misstated = {} /\ repriced = FALSE
    BY DEF Init
  <2>2. feed \in Seq(Message)
    BY <2>1, EmptySeq
  <2> QED BY <1>5, <2>1, <2>2 DEF RestOK
<1> QED BY <1>1, <1>2, <1>3, <1>4, <1>6 DEF MarketInv

(* The steps of the platform and the network, *)
LEMMA TransportOK ==
  ASSUME MarketInv, OtherAdds \/ PlatformReads \/ PlatformSteps \/ Lose
  PROVE  MarketInv'
<1>1. Book!TypeOK /\ SentIsData /\ RestOK /\ Platform!PlatformInv /\ Feed!FeedData
  BY DEF MarketInv
<1>2. UNCHANGED <<bookvars, clientvars, active, acks, traded, misstated, repriced>>
  BY DEF OtherAdds, PlatformReads, PlatformSteps, Lose, restvars
<1>3. Book!TypeOK' /\ SentIsData' /\ Feed!FeedData'
  BY <1>1, <1>2, BookAlone, ClientAlone
<1>4. feed' \in Seq(Message) /\ other' \in BOOLEAN /\ Platform!PlatformInv'
  <2>1. CASE OtherAdds
    <3>1. feed \in Seq(Message) /\ UNCHANGED platformvars /\ other' = TRUE
      BY <1>1, <2>1 DEF OtherAdds, RestOK
    <3>2. feed' \in Seq(Message)
      BY <2>1, <3>1, OtherOrderType DEF OtherAdds
    <3> QED BY <1>1, <3>1, <3>2, PlatformAlone
  <2>2. CASE PlatformReads
    <3>1. feed \in Seq(Message) /\ feed # << >> /\ feed' = Tail(feed) /\ other' = other
      BY <1>1, <2>2 DEF PlatformReads, RestOK
    <3>2. Head(feed) \in Message /\ Tail(feed) \in Seq(Message)
      BY <3>1, HeadTailProperties
    <3> QED BY <1>1, <2>2, <3>1, <3>2, Platform!ReadOK DEF PlatformReads, RestOK
  <2>3. CASE PlatformSteps
    <3>1. Platform!PlatformInv'
      BY <1>1, <2>3, PlatformAssumed, Platform!PlatformStepOK DEF PlatformSteps
    <3> QED BY <1>1, <2>3, <3>1 DEF PlatformSteps, restvars, RestOK
  <2>4. CASE Lose
    <3>1. network \in [Client -> Seq(Feed!Datagram)] /\ network[Me] # << >> /\ Me \in Client
      BY <1>1, <2>4, MarketDataAssumption DEF Lose, Platform!PlatformInv, Platform!Loop
    <3>2. network[Me] \in Seq(Feed!Datagram) /\ 1 \in DOMAIN network[Me]
      BY <3>1, LenProperties, EmptySeq
    <3> QED BY <1>1, <2>4, <3>2, TakenOK DEF Lose, restvars, RestOK
  <2> QED BY <2>1, <2>2, <2>3, <2>4
<1> QED BY <1>1, <1>2, <1>3, <1>4 DEF MarketInv, RestOK

(* and those of the client. *)
LEMMA ClientOK ==
  ASSUME MarketInv, Deliver \/ UserTypes \/ UserSubscribes \/ FillArrives
  PROVE  MarketInv'
<1>1. Book!TypeOK /\ SentIsData /\ RestOK /\ Platform!PlatformInv /\ Feed!FeedData
  BY DEF MarketInv
<1>2. UNCHANGED <<feed, active, other, traded, misstated, repriced>> /\ acks' \subseteq acks
  BY DEF Deliver, UserTypes, UserSubscribes, FillArrives, restvars
<1>3. RestOK'
  BY <1>1, <1>2 DEF RestOK
<1>4. Book!TypeOK' /\ SentIsData'
  <2>1. CASE UserTypes
    BY <1>1, <2>1, UserIsBooks, BookKeepsTypes, SentStaysData
  <2>2. CASE ~UserTypes
    BY <1>1, <2>2, BookAlone DEF Deliver, UserSubscribes, FillArrives
  <2> QED BY <2>1, <2>2
<1>5. Feed!FeedData' /\ Platform!PlatformInv'
  <2>1. CASE Deliver
    <3>1. PICK n \in DOMAIN network[Me] : Feed!Receive(network[Me][n]) /\ TakenFrom(n)
      BY <2>1 DEF Deliver
    <3>2. network[Me][n] \in Feed!Datagram /\ Platform!PlatformInv'
      BY <1>1, <3>1, TakenOK
    <3> QED BY <1>1, <3>1, <3>2, Assumptions, Feed!ReceiveOK
  <2>2. CASE UserTypes
    BY <1>1, <2>2, UserIsBooks, PlatformAlone, Feed!ReadersOK
  <2>3. CASE UserSubscribes
    BY <1>1, <2>3, PlatformAlone, Feed!SubscribeOK DEF UserSubscribes
  <2>4. CASE FillArrives
    BY <1>1, <2>4, PlatformAlone, Feed!ReadersOK DEF FillArrives
  <2> QED BY <2>1, <2>2, <2>3, <2>4
<1> QED BY <1>3, <1>4, <1>5 DEF MarketInv

(* Every step keeps the types. *)
LEMMA MarketStepOK == MarketInv /\ [Next]_vars => MarketInv'
<1> SUFFICES ASSUME MarketInv, [Next]_vars PROVE MarketInv'
  OBVIOUS
<1>1. Book!TypeOK /\ SentIsData /\ RestOK /\ Platform!PlatformInv /\ Feed!FeedData
  BY DEF MarketInv
<1>2. CASE Request \/ Handle
  <2>1. UNCHANGED platformvars /\ UNCHANGED clientvars /\ UNCHANGED restvars
    BY <1>2 DEF Request, Handle
  <2>2. Book!TypeOK' /\ SentIsData'
    BY <1>1, <1>2, RequestIsBooks, BookKeepsTypes, SentStaysData DEF Handle
  <2>3. RestOK'
    BY <1>1, <2>1 DEF restvars, RestOK
  <2> QED BY <1>1, <2>1, <2>2, <2>3, PlatformAlone, ClientAlone DEF MarketInv
<1>3. CASE UNCHANGED vars
  <2>1. /\ UNCHANGED bookvars /\ UNCHANGED platformvars /\ UNCHANGED clientvars
        /\ UNCHANGED restvars
    BY <1>3 DEF vars
  <2>2. RestOK'
    BY <1>1, <2>1 DEF restvars, RestOK
  <2> QED BY <1>1, <2>1, <2>2, BookAlone, PlatformAlone, ClientAlone DEF MarketInv
<1> QED BY <1>2, <1>3, PublishOK, TransportOK, ClientOK DEF Next

(* Every variable of the composition has its type, with any number of      *)
(* clients and orders and any faults: what the book queues are messages    *)
(* about its own orders, what clients read, however it was cut, are        *)
(* datagrams, and the client knows no order that was never given an id.    *)
THEOREM MarketTypeCorrect == Spec => []TypeOK
<1>1. MarketInv => TypeOK
  <2> SUFFICES ASSUME MarketInv PROVE TypeOK
    OBVIOUS
  <2>1. Platform!PlatformTypeOK
    BY DEF MarketInv, Platform!PlatformInv
  <2>2. Feed!FeedTypeOK
    BY DEF MarketInv, Feed!FeedData, Feed!FeedTypeOK, Feed!DataOK, Feed!IsOrders, Feed!IsLevels,
           Feed!LevelKey
  <2> QED BY <2>1, <2>2 DEF MarketInv, RestOK, TypeOK
<1> QED BY <1>1, MarketInitOK, MarketStepOK, PTL DEF Spec
-----------------------------------------------------------------------------
(***************************************************************************)
(* Quantities.  When the quantities of the requests fit, so does every     *)
(* quantity that the book announces: a positive one, the same in the 16    *)
(* bits of a fill and in the int32 of the client.                          *)
(***************************************************************************)
Modest(q) == q \in Nat /\ 0 < q /\ 2 * q < Word /\ q < FillWord

OrderModest == /\ pc \in {"add", "fill", "place"} => Modest(order.qty)
               /\ pc = "report" => order.qty = 0 \/ Modest(order.qty)
FillsModest == \A k \in DOMAIN fills : Modest(fills[k].qty)
SentModest == \A k \in DOMAIN sent : sent[k].kind # "cancelled" => Modest(sent[k].qty)

SolidBook == Book!BookInv /\ Book!ListInv /\ Book!SolidInv
ModestBook == OrderModest /\ FillsModest /\ SentModest

(* Part of a modest quantity is modest. *)
LEMMA ModestPart ==
  ASSUME NEW q, Modest(q), NEW r \in Nat, 0 < r, r <= q
  PROVE  Modest(r) /\ r % FillWord = r
<1>1. Modest(r)
  BY Assumptions DEF Modest
<1>2. FillWord \in Nat \ {0} /\ r < FillWord
  BY <1>1, Assumptions DEF Book!ConstantAssumption, Modest
<1>3. r % FillWord = r
  BY <1>2
<1> QED BY <1>1, <1>3

(* Quantities of requests are modest. *)
LEMMA RequestModest ==
  ASSUME QuantitiesFit, NEW q, q \in Quantity \/ (q \in NewQuantity /\ q # 0)
  PROVE  Modest(q)
<1>1. q \in Nat /\ q # 0
  BY Assumptions DEF QuantitiesFit, Book!NothingWraps, Book!ConstantAssumption
<1> QED BY <1>1 DEF QuantitiesFit, Modest

(* A step of the book keeps its invariants. *)
LEMMA SolidKept ==
  ASSUME QuantitiesFit, SolidBook, Book!Request \/ Book!Handler \/ UNCHANGED bookvars
  PROVE  SolidBook'
<1>1. [Book!Next]_(Book!vars)
  BY DEF Book!Next, Book!vars, bookvars
<1> QED BY <1>1, Assumptions, Book!SolidStep
        DEF SolidBook, QuantitiesFit, Book!ConstantAssumption

(* An accepted modification is not to quantity 0. *)
LEMMA ModifyNotZero ==
  ASSUME NEW i, NEW u, NEW s, NEW p, NEW q, Book!ModifyErrors(i, u, s, p, q) = << >>
  PROVE  q # 0 /\ i \in DOMAIN limitorders
<1>1. ASSUME NEW why PROVE <<Book!Reject(why)>> # << >>
  OBVIOUS
<1> QED BY <1>1 DEF Book!ModifyErrors

(* The two fills of a match, of the same quantity. *)
LEMMA MatchAppended ==
  ASSUME Book!TypeOK, Book!FillResting \/ Book!FillIncoming
  PROVE  /\ Len(fills) \in Nat /\ DOMAIN fills = 1 .. Len(fills)
         /\ Len(fills') = Len(fills) + 2 /\ DOMAIN fills' = 1 .. Len(fills) + 2
         /\ \A k \in 1 .. Len(fills) : fills'[k] = fills[k]
         /\ fills'[Len(fills) + 1].id = book_order /\ fills'[Len(fills) + 2].id = order.id
         /\ fills'[Len(fills) + 1].qty = Book!MatchedQty % FillWord
         /\ fills'[Len(fills) + 2].qty = Book!MatchedQty % FillWord
<1>1. /\ pc = "fill" /\ book_order \in Book!Live /\ fills' = fills \o Book!MatchFills
      /\ fills \in Seq(Book!FillRecord)
  BY DEF Book!FillResting, Book!FillIncoming, Book!At, Book!Live, Book!TypeOK
<1>2. fills' \in Seq(Book!FillRecord)
  BY BookKeepsTypes DEF Book!Handler, Book!TypeOK
<1> DEFINE l == limitorders[book_order]
           r == Book!Fill(book_order, l.price, Book!MatchedQty, l.qty = Book!MatchedQty,
                          l.user, order.user)
           o == Book!Fill(order.id, l.price, Book!MatchedQty, order.qty = Book!MatchedQty,
                          l.user, order.user)
<1>3. /\ r.id = book_order /\ r.qty = Book!MatchedQty % FillWord
      /\ o.id = order.id /\ o.qty = Book!MatchedQty % FillWord
  BY DEF Book!Fill
<1>4. Book!MatchFills = <<r, o>>
  BY DEF Book!MatchFills
<1> HIDE DEF r, o
<1> DEFINE S == Book!FillRecord \cup {r, o}
<1>5. /\ <<r, o>> \in Seq(S) /\ Len(<<r, o>>) = 2
      /\ <<r, o>>[1] = r /\ <<r, o>>[2] = o
  OBVIOUS
<1>6. fills \in Seq(S)
  BY <1>1, SeqMonotonic
<1> HIDE DEF S
<1>7. /\ Len(fills \o <<r, o>>) = Len(fills) + Len(<<r, o>>)
      /\ \A k \in 1 .. Len(fills) + Len(<<r, o>>) :
           (fills \o <<r, o>>)[k] = IF k <= Len(fills) THEN fills[k] ELSE <<r, o>>[k - Len(fills)]
  BY <1>5, <1>6, ConcatProperties
<1>8. Len(fills) \in Nat /\ DOMAIN fills = 1 .. Len(fills) /\ DOMAIN fills' = 1 .. Len(fills')
  BY <1>1, <1>2, LenProperties
<1>9. /\ Len(fills') = Len(fills) + 2
      /\ \A k \in 1 .. Len(fills) : fills'[k] = fills[k]
      /\ fills'[Len(fills) + 1] = r /\ fills'[Len(fills) + 2] = o
  BY <1>1, <1>4, <1>5, <1>7, <1>8
<1> QED BY <1>3, <1>8, <1>9

(* A match takes a modest quantity and leaves one, or nothing. *)
LEMMA MatchModest ==
  ASSUME SolidBook, ModestBook, Book!FillResting \/ Book!FillIncoming
  PROVE  /\ Modest(Book!MatchedQty) /\ Book!MatchedQty % FillWord = Book!MatchedQty
         /\ Book!MatchedQty <= order.qty
         /\ order.qty # Book!MatchedQty => Modest(order.qty - Book!MatchedQty)
<1>1. /\ pc = "fill" /\ book_order \in DOMAIN limitorders /\ Book!TypeOK
      /\ limitorders[book_order].qty # 0 /\ Modest(order.qty)
  BY DEF Book!FillResting, Book!FillIncoming, Book!At, SolidBook, Book!BookInv, Book!SolidInv,
         Book!Live, ModestBook, OrderModest
<1>2. /\ limitorders[book_order] \in Book!Limit /\ Book!MatchedQty \in Book!Qty
      /\ Book!MatchedQty <= order.qty
  BY <1>1, Assumptions, Book!MatchedQtyType DEF Book!Live, Book!ConstantAssumption
<1>3. /\ limitorders[book_order].qty \in Nat /\ order.qty \in Nat /\ Book!MatchedQty \in Nat
      /\ order.qty > 0
  BY <1>1, <1>2, Assumptions DEF Book!Limit, Book!Qty, Modest
<1>4. Book!MatchedQty > 0
  BY <1>1, <1>3 DEF Book!MatchedQty, Book!LowerQty
<1>5. Modest(Book!MatchedQty) /\ Book!MatchedQty % FillWord = Book!MatchedQty
  BY <1>1, <1>2, <1>3, <1>4, ModestPart
<1>6. ASSUME order.qty # Book!MatchedQty PROVE Modest(order.qty - Book!MatchedQty)
  <2> DEFINE r == order.qty - Book!MatchedQty
  <2>1. r \in Nat /\ 0 < r /\ r <= order.qty
    BY <1>2, <1>3, <1>6
  <2> HIDE DEF r
  <2>2. Modest(r)
    BY <1>1, <2>1, ModestPart
  <2> QED BY <2>2 DEF r
<1> QED BY <1>2, <1>5, <1>6

(* Steps that add no message, and no fill. *)
LEMMA SameModest ==
  /\ FillsModest /\ (fills' = fills \/ fills' = << >>) => FillsModest'
  /\ SentModest /\ (sent' = sent \/ sent' = << >>) => SentModest'
BY DEF FillsModest, SentModest

(* Whatever the book does next, its quantities stay modest. *)
LEMMA RequestStaysModest ==
  ASSUME QuantitiesFit, SolidBook, ModestBook, Request \/ UserTypes
  PROVE  ModestBook'
<1>1. FillsModest /\ SentModest
  BY DEF ModestBook
<1>2. ASSUME NEW u, NEW s, NEW p, NEW q \in Quantity, Book!AddOrder(u, s, p, q)
      PROVE  ModestBook'
  <2>1. order'.qty = q /\ pc' = "add" /\ UNCHANGED <<fills, sent>>
    BY <1>2 DEF Book!AddOrder
  <2>2. Modest(q)
    BY RequestModest
  <2> QED BY <1>1, <2>1, <2>2, SameModest DEF ModestBook, OrderModest
<1>3. ASSUME NEW i, NEW u, Book!CancelOrder(i, u)
      PROVE  ModestBook'
  <2>1. sent' = <<Book!Cancelled(i)>> /\ pc' = "return" /\ UNCHANGED fills
    BY <1>3 DEF Book!CancelOrder
  <2>2. SentModest'
    BY <2>1 DEF SentModest, Book!Cancelled
  <2> QED BY <1>1, <2>1, <2>2, SameModest DEF ModestBook, OrderModest
<1>4. ASSUME NEW i, NEW u, NEW s, NEW p, NEW q \in NewQuantity, Book!ModifyQuantity(i, u, s, p, q)
      PROVE  ModestBook'
  <2>1. /\ Book!ModifyErrors(i, u, s, p, q) = << >> /\ sent' = <<Book!Modified(i, q)>>
        /\ pc' = "return" /\ UNCHANGED fills
    BY <1>4 DEF Book!ModifyQuantity
  <2>2. Modest(q)
    BY <2>1, ModifyNotZero, RequestModest
  <2>3. SentModest'
    BY <2>1, <2>2 DEF SentModest, Book!Modified
  <2> QED BY <1>1, <2>1, <2>3, SameModest DEF ModestBook, OrderModest
<1>5. ASSUME NEW i, NEW u, NEW s, NEW p, NEW q \in NewQuantity, Book!ModifyPrice(i, u, s, p, q)
      PROVE  ModestBook'
  <2>1. /\ Book!ModifyErrors(i, u, s, p, q) = << >> /\ sent' = <<Book!Cancelled(i)>>
        /\ order'.qty = q /\ pc' = "add" /\ UNCHANGED fills
    BY <1>5 DEF Book!ModifyPrice
  <2>2. Modest(q)
    BY <2>1, ModifyNotZero, RequestModest
  <2>3. SentModest'
    BY <2>1 DEF SentModest, Book!Cancelled
  <2> QED BY <1>1, <2>1, <2>2, <2>3, SameModest DEF ModestBook, OrderModest
<1>6. CASE UNCHANGED bookvars
  BY <1>6 DEF bookvars, ModestBook, OrderModest, FillsModest, SentModest
<1>7. CASE Request
  BY <1>2, <1>3, <1>4, <1>5, <1>7 DEF Request
<1>8. CASE UserTypes
  BY <1>2, <1>6, <1>8, UserIsBooks
<1> QED BY <1>7, <1>8

(* So do the steps of the handler. *)
LEMMA HandlerStaysModest ==
  ASSUME SolidBook, ModestBook, Book!Handler
  PROVE  ModestBook'
<1>1. OrderModest /\ FillsModest /\ SentModest /\ Book!TypeOK
  BY DEF ModestBook, SolidBook, Book!BookInv
<1>2. CASE Book!StartMatch \/ Book!NothingToMatch \/ Book!ReadErasedLimit \/ Book!NextLevel
  <2>1. /\ pc \in {"add", "fill"} /\ order' = order /\ UNCHANGED <<fills, sent>>
        /\ pc' \in {"fill", "place", "report"}
    BY <1>2 DEF Book!StartMatch, Book!NothingToMatch, Book!ReadErasedLimit, Book!NextLevel,
       Book!At, Book!matching
  <2>2. Modest(order.qty)
    BY <1>1, <2>1 DEF OrderModest
  <2> QED BY <1>1, <2>1, <2>2, SameModest DEF ModestBook, OrderModest
<1>3. CASE Book!FillResting \/ Book!FillIncoming
  <2>1. /\ Modest(Book!MatchedQty) /\ Book!MatchedQty % FillWord = Book!MatchedQty
        /\ order.qty # Book!MatchedQty => Modest(order.qty - Book!MatchedQty)
    BY <1>3, MatchModest
  <2>2. FillsModest'
    <3> SUFFICES ASSUME NEW k \in DOMAIN fills' PROVE Modest(fills'[k].qty)
      BY DEF FillsModest
    <3>1. k \in 1 .. Len(fills) \/ k = Len(fills) + 1 \/ k = Len(fills) + 2
      BY <1>1, <1>3, MatchAppended
    <3>2. CASE k \in 1 .. Len(fills)
      <4>1. k \in DOMAIN fills /\ fills'[k] = fills[k]
        BY <1>1, <1>3, <3>2, MatchAppended
      <4> QED BY <1>1, <4>1 DEF FillsModest
    <3>3. CASE k = Len(fills) + 1 \/ k = Len(fills) + 2
      BY <1>1, <1>3, <2>1, <3>3, MatchAppended
    <3> QED BY <3>1, <3>2, <3>3
  <2>3. OrderModest'
    <3>1. order \in Book!Order
      BY <1>1, <1>3 DEF Book!FillResting, Book!FillIncoming, Book!At, Book!TypeOK
    <3>2. CASE Book!FillResting
      <4>1. order'.qty = order.qty - Book!MatchedQty /\ order.qty # Book!MatchedQty /\ pc' = "fill"
        BY <3>1, <3>2 DEF Book!FillResting, Book!At, Book!Order
      <4> QED BY <2>1, <4>1 DEF OrderModest
    <3>3. CASE Book!FillIncoming
      <4>1. order'.qty = 0 /\ pc' = "report"
        BY <3>1, <3>3 DEF Book!FillIncoming, Book!Order
      <4> QED BY <4>1 DEF OrderModest
    <3> QED BY <1>3, <3>2, <3>3
  <2>4. SentModest'
    BY <1>1, <1>3, SameModest DEF Book!FillResting, Book!FillIncoming
  <2> QED BY <2>2, <2>3, <2>4 DEF ModestBook
<1>4. CASE Book!CommunicateMatchResults
  <2>1. /\ pc = "report" /\ order' = order /\ fills' = fills
        /\ pc' = IF order.qty = 0 THEN "return" ELSE "place"
    BY <1>4 DEF Book!CommunicateMatchResults, Book!At, Book!matching
  <2>2. OrderModest'
    BY <1>1, <2>1 DEF OrderModest
  <2>3. SentModest'
    <3> SUFFICES ASSUME NEW k \in DOMAIN sent', sent'[k].kind # "cancelled"
                 PROVE  Modest(sent'[k].qty)
      BY DEF SentModest
    <3>1. CASE k > Len(sent)
      <4>1. PICK j \in 1 .. Len(fills) : k = Len(sent) + j
        BY <1>1, <1>4, <3>1, FillsAppended
      <4>2. sent'[Len(sent) + j] =
              [kind |-> "fill", to |-> fills[j].connection, id |-> order.id,
               qty |-> fills[j].qty, full |-> fills[j].full]
        BY <1>1, <1>4, FillsAppended
      <4>3. j \in DOMAIN fills
        BY <1>1, LenProperties DEF Book!TypeOK
      <4> QED BY <1>1, <4>1, <4>2, <4>3 DEF FillsModest
    <3>2. CASE ~(k > Len(sent))
      <4>1. k \in DOMAIN sent /\ sent'[k] = sent[k]
        BY <1>1, <1>4, <3>2, FillsAppended
      <4> QED BY <1>1, <4>1 DEF SentModest
    <3> QED BY <3>1, <3>2
  <2> QED BY <1>1, <2>1, <2>2, <2>3, SameModest DEF ModestBook
<1>5. CASE Book!PlaceOrder
  <2>1. pc = "place" /\ pc' = "return" /\ fills' = fills
    BY <1>5 DEF Book!PlaceOrder, Book!At
  <2>2. Modest(order.qty)
    BY <1>1, <2>1 DEF OrderModest
  <2>3. SentModest'
    <3> SUFFICES ASSUME NEW k \in DOMAIN sent', sent'[k].kind # "cancelled"
                 PROVE  Modest(sent'[k].qty)
      BY DEF SentModest
    <3>1. CASE k = Len(sent) + 1
      <4>1. sent'[k] = Book!Added(order)
        BY <1>1, <1>5, <3>1, AddAppended
      <4> QED BY <2>2, <4>1 DEF Book!Added
    <3>2. CASE k # Len(sent) + 1
      <4>1. k \in DOMAIN sent /\ sent'[k] = sent[k]
        BY <1>1, <1>5, <3>2, AddAppended
      <4> QED BY <1>1, <4>1 DEF SentModest
    <3> QED BY <3>1, <3>2
  <2> QED BY <1>1, <2>1, <2>3, SameModest DEF ModestBook, OrderModest
<1>6. CASE Book!Return
  <2>1. pc' = "idle" /\ fills' = << >> /\ sent' = << >>
    BY <1>6 DEF Book!Return
  <2> QED BY <1>1, <2>1, SameModest DEF ModestBook, OrderModest
<1> QED BY <1>2, <1>3, <1>4, <1>5, <1>6 DEF Book!Handler
-----------------------------------------------------------------------------
(***************************************************************************)
(* So every quantity under way is small, and the client's book is never    *)
(* empty or negative anywhere, until a datagram is cut.                    *)
(***************************************************************************)
SmallDatagram == {m \in Feed!Datagram : Feed!SmallData(m)}
SmallFeed == \A k \in DOMAIN feed : Feed!SmallData(feed[k])

SmallInv == /\ SolidBook /\ ModestBook
            /\ SmallFeed /\ Platform!Carries(SmallDatagram)
            /\ NothingNegative

(* A datagram that was cut stays so. *)
LEMMA StaysCut ==
  ASSUME Platform!PlatformStep, cut PROVE cut'
BY DEF Platform!PlatformStep, Platform!SerialiseMarketData, Platform!NextMessage,
       Platform!Transmit, Platform!AcceptFails, Platform!Accept, Platform!SendNow,
       Platform!SendLater, Platform!SendFailed, Platform!Put

(* Where no send waits, nothing is cut. *)
LEMMA NothingCut ==
  ASSUME MarketInv, SmallInv, InOrder
  PROVE  ~cut /\ Feed!NothingNegative
BY DEF MarketInv, SmallInv, NothingNegative, InOrder, Platform!PlatformInv, Platform!Whole

(* The platform copies the quantity. *)
LEMMA LayoutSmall ==
  ASSUME NEW m \in Message, Feed!SmallData(m)
  PROVE  Layout(m) \in SmallDatagram
<1>1. Layout(m) \in Feed!Datagram /\ Layout(m).kind = m.kind
  BY LayoutType
<1>2. m.kind = "cancelled" \/ Layout(m).qty = m.qty
  <2>1. m.kind \in {"added", "modified", "cancelled", "fill"}
    BY DEF Message, Feed!AddOrderData, Feed!ModOrderData, Feed!CancelOrderData
  <2> QED BY <2>1 DEF Layout
<1> QED BY <1>1, <1>2 DEF SmallDatagram, Feed!SmallData

(* What a handler sent is small as market data. *)
LEMMA AnnouncedSmall ==
  ASSUME Book!TypeOK, SentIsData, SentModest
  PROVE  \A k \in DOMAIN Announced : Feed!SmallData(Announced[k])
<1> SUFFICES ASSUME NEW k \in DOMAIN Announced PROVE Feed!SmallData(Announced[k])
  OBVIOUS
<1>1. /\ k \in DOMAIN sent /\ sent[k] \in Book!Message /\ sent[k].kind # "reject"
      /\ Announced[k] = AsData(sent[k])
  BY AnnouncedType DEF Announced
<1>2. /\ AsData(sent[k]).kind = sent[k].kind
      /\ sent[k].kind # "cancelled" => AsData(sent[k]).qty = sent[k].qty
  BY <1>1, AsDataType
<1>3. sent[k].kind # "cancelled" => Modest(sent[k].qty)
  BY <1>1 DEF SentModest
<1> QED BY <1>1, <1>2, <1>3 DEF Feed!SmallData, Feed!Small, Modest

(* The feed grows by small messages. *)
LEMMA FeedGrows ==
  ASSUME feed \in Seq(Message), NEW new \in Seq(Message), feed' = feed \o new, SmallFeed,
         \A k \in DOMAIN new : Feed!SmallData(new[k])
  PROVE  SmallFeed'
<1>1. /\ Len(feed') = Len(feed) + Len(new)
      /\ \A i \in 1 .. Len(feed) + Len(new) :
           feed'[i] = IF i <= Len(feed) THEN feed[i] ELSE new[i - Len(feed)]
      /\ feed' \in Seq(Message)
  BY ConcatProperties
<1>2. /\ Len(feed) \in Nat /\ Len(new) \in Nat /\ DOMAIN feed = 1 .. Len(feed)
      /\ DOMAIN new = 1 .. Len(new) /\ DOMAIN feed' = 1 .. Len(feed')
  BY <1>1, LenProperties
<1> SUFFICES ASSUME NEW i \in DOMAIN feed' PROVE Feed!SmallData(feed'[i])
  BY DEF SmallFeed
<1>3. CASE i <= Len(feed)
  <2>1. i \in DOMAIN feed /\ feed'[i] = feed[i]
    BY <1>1, <1>2, <1>3
  <2> QED BY <2>1 DEF SmallFeed
<1>4. CASE ~(i <= Len(feed))
  <2>1. i - Len(feed) \in DOMAIN new /\ feed'[i] = new[i - Len(feed)]
    BY <1>1, <1>2, <1>4
  <2> QED BY <2>1
<1> QED BY <1>3, <1>4

(* What the platform carries does not change with the platform. *)
LEMMA CarriesAlone ==
  ASSUME NEW D, Platform!Carries(D), UNCHANGED platformvars
  PROVE  Platform!Carries(D)'
BY DEF platformvars, Platform!Carries

(* Nor by taking datagrams off the network. *)
LEMMA CarriesTaken ==
  ASSUME NEW D, Platform!PlatformInv, Platform!Carries(D), NEW n \in DOMAIN network[Me],
         TakenFrom(n)
  PROVE  Platform!Carries(D)' /\ (cut \/ network[Me][n] \in D)
<1> SUFFICES ASSUME ~cut PROVE Platform!Carries(D)' /\ network[Me][n] \in D
  BY DEF TakenFrom, Platform!Carries
<1>1. /\ network[Me] \in Seq(D) /\ n \in 1 .. Len(network[Me])
      /\ network'[Me] = RemoveAt(network[Me], n)
      /\ \A c \in Client : c # Me => network'[c] = network[c]
  BY TakenOK, MarketDataAssumption DEF Platform!Carries
<1>2. network'[Me] \in Seq(D) /\ network[Me][n] \in D
  BY <1>1, RemoveAtSeq, ElementOfSeq
<1> QED BY <1>1, <1>2 DEF TakenFrom, Platform!Carries

(* The first state. *)
LEMMA SmallInitOK ==
  ASSUME QuantitiesFit, Init
  PROVE  SmallInv
<1>1. SolidBook
  <2>1. Book!Init
    BY DEF Init
  <2> QED BY <2>1, Assumptions, Book!SolidInit, Book!BookInvInit
          DEF SolidBook, QuantitiesFit, Book!ConstantAssumption
<1>2. ModestBook
  BY DEF Init, Book!Init, ModestBook, OrderModest, FillsModest, SentModest
<1>3. SmallFeed
  BY DEF Init, SmallFeed
<1>4. Platform!Carries(SmallDatagram)
  <2>1. /\ reader = "read" /\ waiting = << >> /\ network = [c \in Client |-> << >>]
    BY DEF Init, Platform!PlatformInit
  <2> QED BY <2>1, EmptySeq DEF Platform!Carries
<1>5. NothingNegative
  BY Feed!FeedInitOK DEF Init, NothingNegative
<1> QED BY <1>1, <1>2, <1>3, <1>4, <1>5 DEF SmallInv

(* The steps of the book, *)
LEMMA SmallBook ==
  ASSUME QuantitiesFit, MarketInv, SmallInv, Request \/ Handle \/ Publish
  PROVE  SmallInv'
<1>1. /\ SolidBook /\ ModestBook /\ SmallFeed /\ NothingNegative
      /\ Platform!Carries(SmallDatagram) /\ Book!TypeOK /\ SentIsData /\ RestOK
  BY DEF SmallInv, MarketInv
<1>2. /\ Book!Request \/ Book!Handler
      /\ UNCHANGED platformvars /\ UNCHANGED clientvars
  BY RequestIsBooks DEF Handle, Publish, Book!Handler
<1>3. SolidBook' /\ ModestBook'
  BY <1>1, <1>2, SolidKept, RequestStaysModest, HandlerStaysModest
     DEF Handle, Publish, Book!Handler
<1>4. SmallFeed'
  <2>1. CASE Publish
    <3>1. feed' = feed \o Announced /\ feed \in Seq(Message) /\ Announced \in Seq(Message)
      BY <1>1, <2>1, AnnouncedType DEF Publish, RestOK
    <3>2. \A k \in DOMAIN Announced : Feed!SmallData(Announced[k])
      BY <1>1, AnnouncedSmall DEF ModestBook
    <3> HIDE DEF Announced
    <3> QED BY <1>1, <3>1, <3>2, FeedGrows
  <2>2. CASE Request \/ Handle
    BY <1>1, <2>2 DEF Request, Handle, restvars, SmallFeed
  <2> QED BY <2>1, <2>2
<1>5. NothingNegative'
  BY <1>1, <1>2, ClientAlone DEF NothingNegative, platformvars
<1> QED BY <1>1, <1>2, <1>3, <1>4, <1>5, CarriesAlone DEF SmallInv

(* of the platform and the network, *)
LEMMA SmallTransport ==
  ASSUME QuantitiesFit, MarketInv, SmallInv, OtherAdds \/ PlatformReads \/ PlatformSteps \/ Lose
  PROVE  SmallInv'
<1>1. /\ SolidBook /\ ModestBook /\ SmallFeed /\ NothingNegative
      /\ Platform!Carries(SmallDatagram) /\ RestOK /\ Platform!PlatformInv
  BY DEF SmallInv, MarketInv
<1>2. UNCHANGED bookvars /\ UNCHANGED clientvars
  BY DEF OtherAdds, PlatformReads, PlatformSteps, Lose
<1>3. SolidBook' /\ NothingNegative'
  <2>1. cut => cut'
    BY StaysCut DEF OtherAdds, PlatformReads, PlatformSteps, Lose, TakenFrom, platformvars,
                    Platform!Read
  <2> QED BY <1>1, <1>2, <2>1, SolidKept, ClientAlone DEF NothingNegative
<1>4. ModestBook'
  BY <1>1, <1>2 DEF bookvars, ModestBook, OrderModest, FillsModest, SentModest
<1>5. SmallFeed' /\ Platform!Carries(SmallDatagram)'
  <2>1. CASE OtherAdds
    <3> DEFINE m == [kind |-> "added", id |-> OtherOrder, ticker |-> "other",
                     side |-> "buy", price |-> 0, qty |-> 1]
    <3>1. m \in Message /\ m.qty = 1 /\ feed' = Append(feed, m) /\ UNCHANGED platformvars
      BY <2>1, OtherOrderType DEF OtherAdds
    <3>2. Feed!SmallData(m)
      BY MarketDataAssumption DEF Feed!SmallData, Feed!Small
    <3> HIDE DEF m
    <3>3. feed \in Seq(Message) /\ <<m>> \in Seq(Message)
      BY <1>1, <3>1 DEF RestOK
    <3>4. feed' = feed \o <<m>> /\ \A k \in DOMAIN <<m>> : <<m>>[k] = m
      BY <3>1, <3>3, AppendIsConcat
    <3> DEFINE new == <<m>>
    <3>5. /\ new \in Seq(Message) /\ feed' = feed \o new
          /\ \A k \in DOMAIN new : Feed!SmallData(new[k])
      BY <3>2, <3>3, <3>4
    <3> HIDE DEF new
    <3>6. SmallFeed'
      BY <1>1, <3>3, <3>5, FeedGrows
    <3> QED BY <1>1, <3>1, <3>6, CarriesAlone
  <2>2. CASE PlatformReads
    <3>1. /\ feed \in Seq(Message) /\ feed # << >> /\ feed' = Tail(feed)
          /\ Platform!Read(Head(feed))
      BY <1>1, <2>2 DEF PlatformReads, RestOK
    <3>2. /\ Head(feed) \in Message /\ Head(feed) = feed[1] /\ 1 \in DOMAIN feed
          /\ Len(feed) \in Nat /\ DOMAIN feed = 1 .. Len(feed)
          /\ Tail(feed) \in Seq(Message) /\ Len(Tail(feed)) = Len(feed) - 1
          /\ \A i \in 1 .. Len(feed) - 1 : Tail(feed)[i] = feed[i + 1]
      BY <3>1, HeadTailProperties, LenProperties, EmptySeq
    <3>3. SmallFeed'
      <4>1. DOMAIN Tail(feed) = 1 .. Len(feed) - 1
        BY <3>2, LenProperties
      <4>2. \A i \in 1 .. Len(feed) - 1 : i + 1 \in DOMAIN feed
        BY <3>2
      <4> QED BY <1>1, <3>1, <3>2, <4>1, <4>2 DEF SmallFeed
    <3>4. Layout(Head(feed)) \in SmallDatagram
      BY <1>1, <3>2, LayoutSmall DEF SmallFeed
    <3>5. Platform!Carries(SmallDatagram)'
      BY <1>1, <3>1, <3>4 DEF Platform!Read, Platform!rvars, Platform!Carries
    <3> QED BY <3>3, <3>5
  <2>3. CASE PlatformSteps
    <3>1. feed' = feed /\ Platform!PlatformStep
      BY <2>3 DEF PlatformSteps, restvars
    <3>2. Platform!Carries(SmallDatagram)'
      BY <1>1, <3>1, Platform!CarriesStep
    <3> QED BY <1>1, <3>1, <3>2 DEF SmallFeed
  <2>4. CASE Lose
    <3>1. network \in [Client -> Seq(Feed!Datagram)] /\ network[Me] # << >> /\ Me \in Client
      BY <1>1, <2>4, MarketDataAssumption DEF Lose, Platform!PlatformInv, Platform!Loop
    <3>2. network[Me] \in Seq(Feed!Datagram) /\ 1 \in DOMAIN network[Me]
      BY <3>1, LenProperties, EmptySeq
    <3>3. feed' = feed /\ Platform!Carries(SmallDatagram)'
      BY <1>1, <2>4, <3>2, CarriesTaken DEF Lose, restvars
    <3> QED BY <1>1, <3>3 DEF SmallFeed
  <2> QED BY <2>1, <2>2, <2>3, <2>4
<1> QED BY <1>3, <1>4, <1>5 DEF SmallInv

(* and of the client. *)
LEMMA SmallClient ==
  ASSUME QuantitiesFit, MarketInv, SmallInv,
         Deliver \/ UserTypes \/ UserSubscribes \/ FillArrives
  PROVE  SmallInv'
<1>1. /\ SolidBook /\ ModestBook /\ SmallFeed /\ NothingNegative
      /\ Platform!Carries(SmallDatagram) /\ Platform!PlatformInv /\ Feed!FeedData
  BY DEF SmallInv, MarketInv
<1>2. feed' = feed
  BY DEF Deliver, UserTypes, UserSubscribes, FillArrives, restvars
<1>3. SolidBook' /\ ModestBook'
  <2>1. CASE UserTypes
    BY <1>1, <2>1, UserIsBooks, SolidKept, RequestStaysModest
  <2>2. CASE ~UserTypes
    <3>1. UNCHANGED bookvars
      BY <2>2 DEF Deliver, UserSubscribes, FillArrives
    <3>2. ModestBook'
      BY <1>1, <3>1 DEF bookvars, ModestBook, OrderModest, FillsModest, SentModest
    <3> QED BY <1>1, <3>1, <3>2, SolidKept
  <2> QED BY <2>1, <2>2
<1>4. NothingNegative' /\ Platform!Carries(SmallDatagram)'
  <2>1. CASE Deliver
    <3>1. PICK n \in DOMAIN network[Me] : Feed!Receive(network[Me][n]) /\ TakenFrom(n)
      BY <2>1 DEF Deliver
    <3>2. /\ Platform!Carries(SmallDatagram)' /\ cut' = cut
          /\ cut \/ network[Me][n] \in SmallDatagram
      BY <1>1, <3>1, CarriesTaken DEF TakenFrom
    <3>3. ASSUME ~cut PROVE Feed!NothingNegative'
      <4>1. network[Me][n] \in Feed!Datagram /\ Feed!SmallData(network[Me][n])
        BY <3>2, <3>3 DEF SmallDatagram
      <4> QED BY <1>1, <3>1, <3>3, <4>1, Assumptions, Feed!ReceiveOK DEF NothingNegative
    <3> QED BY <3>2, <3>3 DEF NothingNegative
  <2>2. CASE UserTypes
    BY <1>1, <2>2, UserIsBooks, CarriesAlone, Feed!ReadersOK DEF NothingNegative, platformvars
  <2>3. CASE UserSubscribes
    BY <1>1, <2>3, CarriesAlone, Feed!SubscribeOK
       DEF UserSubscribes, NothingNegative, platformvars
  <2>4. CASE FillArrives
    BY <1>1, <2>4, CarriesAlone, Feed!ReadersOK DEF FillArrives, NothingNegative, platformvars
  <2> QED BY <2>1, <2>2, <2>3, <2>4
<1> QED BY <1>1, <1>2, <1>3, <1>4 DEF SmallInv, SmallFeed

(* Every step keeps quantities small. *)
LEMMA SmallStepOK ==
  ASSUME QuantitiesFit, MarketInv, SmallInv, [Next]_vars
  PROVE  SmallInv'
<1>1. CASE UNCHANGED vars
  <2>1. /\ UNCHANGED bookvars /\ UNCHANGED platformvars /\ UNCHANGED clientvars
        /\ feed' = feed
    BY <1>1 DEF vars, restvars
  <2>2. SolidBook' /\ ModestBook'
    BY <2>1, SolidKept
       DEF SmallInv, bookvars, ModestBook, OrderModest, FillsModest, SentModest
  <2>3. NothingNegative'
    BY <2>1, ClientAlone DEF SmallInv, NothingNegative, platformvars
  <2> QED BY <2>1, <2>2, <2>3, CarriesAlone DEF SmallInv, SmallFeed
<1> QED BY <1>1, SmallBook, SmallTransport, SmallClient DEF Next

(* No level and no order of the client is empty or negative, with any      *)
(* number of clients, orders and faults, as long as no datagram is cut:    *)
(* datagrams may be lost, out of order, or sent again from a buffer that   *)
(* the next message has overwritten.                                       *)
THEOREM MarketNeverNegative == QuantitiesFit => (Spec => []NothingNegative)
<1> SUFFICES ASSUME QuantitiesFit PROVE Spec => []NothingNegative
  OBVIOUS
<1>1. Init => MarketInv /\ SmallInv
  BY MarketInitOK, SmallInitOK
<1>2. MarketInv /\ SmallInv /\ [Next]_vars => (MarketInv /\ SmallInv)'
  BY MarketStepOK, SmallStepOK
<1>3. SmallInv => NothingNegative
  BY DEF SmallInv
<1> QED BY <1>1, <1>2, <1>3, PTL DEF Spec
-----------------------------------------------------------------------------
(***************************************************************************)
(* Sums over sets, as the community modules define them.                   *)
(***************************************************************************)
(* The sum of the quantities that f gives to the elements of S. *)
SumOf(f, S) == MapThenSumSet(LAMBDA i : f[i].qty, S)

(* It is a recursion over subsets that takes out a first element; g is     *)
(* what it gives for every subset of S.                                    *)
First(s) == CHOOSE x \in s : TRUE
IsSums(g, f, S) ==
  g = [s \in SUBSET S |-> IF s = {} THEN 0 ELSE f[First(s)].qty + g[s \ {First(s)}]]

(* MapThenSumSet is this recursion. *)
LEMMA SumOfDef ==
  ASSUME NEW f, NEW S
  PROVE  SumOf(f, S) = (CHOOSE g : IsSums(g, f, S))[S]
BY DEF SumOf, MapThenSumSet, MapThenFoldSet, IsSums, First

(* A set that is not empty has a first element, and one less without it.   *)
LEMMA FirstIn ==
  ASSUME NEW s, IsFiniteSet(s), s # {}
  PROVE  /\ First(s) \in s /\ IsFiniteSet(s \ {First(s)})
         /\ Cardinality(s) \in Nat \ {0}
         /\ Cardinality(s \ {First(s)}) = Cardinality(s) - 1
<1>1. First(s) \in s
  BY DEF First
<1>2. Cardinality(s) \in Nat /\ Cardinality(s) # 0
  BY FS_CardinalityType, FS_EmptySet
<1> QED BY <1>1, <1>2, FS_RemoveElement

(* The recursion that adds up over subsets is defined, *)
LEMMA SumsExist ==
  ASSUME NEW f, NEW U, IsFiniteSet(U)
  PROVE  \E g : IsSums(g, f, U)
<1> DEFINE Sum(g, s) == IF s = {} THEN 0 ELSE f[First(s)].qty + g[s \ {First(s)}]
           UpTo(g, n) == \A s \in SUBSET U : Cardinality(s) <= n => g[s] = Sum(g, s)
           T == {n \in Nat : ~\E g : UpTo(g, n)}
<1>1. \A s \in SUBSET U : /\ IsFiniteSet(s) /\ Cardinality(s) \in Nat
                          /\ Cardinality(s) <= Cardinality(U)
                          /\ Cardinality(s) = 0 => s = {}
                          /\ s # {} => /\ First(s) \in s /\ s \ {First(s)} \in SUBSET U
                                       /\ Cardinality(s) # 0
                                       /\ Cardinality(s \ {First(s)}) = Cardinality(s) - 1
  BY FS_Subset, FS_CardinalityType, FS_EmptySet, FirstIn
<1>2. 0 \notin T
  <2> DEFINE z == [s \in SUBSET U |-> 0]
  <2>1. \A s \in SUBSET U : z[s] = 0
    OBVIOUS
  <2> HIDE DEF z
  <2>2. \A s \in SUBSET U : Cardinality(s) <= 0 => s = {}
    <3> SUFFICES ASSUME NEW s \in SUBSET U, Cardinality(s) <= 0 PROVE s = {}
      OBVIOUS
    <3>1. Cardinality(s) \in Nat /\ (Cardinality(s) = 0 => s = {})
      BY <1>1
    <3> QED BY <3>1
  <2>3. UpTo(z, 0)
    BY <2>1, <2>2
  <2> QED BY <2>3
<1>3. ASSUME NEW n \in Nat, n # 0, NEW g, UpTo(g, n - 1)
      PROVE  \E h : UpTo(h, n)
  <2> DEFINE h == [s \in SUBSET U |-> IF Cardinality(s) <= n - 1 THEN g[s] ELSE Sum(g, s)]
  <2>1. \A s \in SUBSET U : h[s] = IF Cardinality(s) <= n - 1 THEN g[s] ELSE Sum(g, s)
    OBVIOUS
  <2> HIDE DEF h
  <2>2. ASSUME NEW s \in SUBSET U, Cardinality(s) <= n
        PROVE  h[s] = Sum(h, s)
    <3>1. h[s] = Sum(g, s)
      BY <1>3, <2>1
    <3>2. s # {} => h[s \ {First(s)}] = g[s \ {First(s)}]
      <4> SUFFICES ASSUME s # {} PROVE h[s \ {First(s)}] = g[s \ {First(s)}]
        OBVIOUS
      <4>1. /\ s \ {First(s)} \in SUBSET U /\ Cardinality(s) \in Nat
            /\ Cardinality(s \ {First(s)}) = Cardinality(s) - 1
        BY <1>1
      <4>2. Cardinality(s \ {First(s)}) <= n - 1
        BY <1>3, <2>2, <4>1
      <4> QED BY <2>1, <4>1, <4>2
    <3> QED BY <3>1, <3>2
  <2> QED BY <2>2
<1>4. \A n \in T : n - 1 \in T \/ n = 0
  <2> SUFFICES ASSUME NEW n \in T, n # 0 PROVE n - 1 \in T
    OBVIOUS
  <2>1. n \in Nat /\ n - 1 \in Nat
    OBVIOUS
  <2> HIDE DEF UpTo
  <2> QED BY <1>3, <2>1
<1>5. T \subseteq Nat
  OBVIOUS
<1>6. T = {}
  <2> HIDE DEF T
  <2> QED BY <1>2, <1>4, <1>5, Book!FirstFailure, Assumptions DEF Book!ConstantAssumption
<1>7. Cardinality(U) \in Nat
  BY FS_CardinalityType
<1>8. PICK g : UpTo(g, Cardinality(U))
  <2> HIDE DEF UpTo
  <2> QED BY <1>6, <1>7
<1> DEFINE h == [s \in SUBSET U |-> g[s]]
<1>9. \A s \in SUBSET U : h[s] = Sum(h, s)
  BY <1>1, <1>8
<1>10. h = [s \in SUBSET U |-> h[s]]
  OBVIOUS
<1> HIDE DEF h
<1>11. IsSums(h, f, U)
  BY <1>9, <1>10 DEF IsSums
<1> QED BY <1>11

(* and it has one value, whatever the set it is restricted to. *)
LEMMA SumsAgree ==
  ASSUME NEW f, NEW U, IsFiniteSet(U), NEW g, IsSums(g, f, U),
         NEW S \in SUBSET U, NEW h, IsSums(h, f, S)
  PROVE  h[S] = g[S]
<1> DEFINE T == {n \in Nat : \E s \in SUBSET S : Cardinality(s) = n /\ h[s] # g[s]}
<1>1. /\ \A s \in SUBSET U : g[s] = IF s = {} THEN 0 ELSE f[First(s)].qty + g[s \ {First(s)}]
      /\ \A s \in SUBSET S : h[s] = IF s = {} THEN 0 ELSE f[First(s)].qty + h[s \ {First(s)}]
  BY DEF IsSums
<1>2. \A s \in SUBSET S : /\ s \in SUBSET U /\ Cardinality(s) \in Nat
                          /\ Cardinality(s) = 0 => s = {}
                          /\ s # {} => /\ s \ {First(s)} \in SUBSET S
                                       /\ Cardinality(s \ {First(s)}) = Cardinality(s) - 1
  BY FS_Subset, FS_CardinalityType, FS_EmptySet, FirstIn
<1>3. 0 \notin T
  BY <1>1, <1>2
<1>4. ASSUME NEW n \in T, n # 0 PROVE n - 1 \in T
  <2>1. PICK s \in SUBSET S : Cardinality(s) = n /\ h[s] # g[s]
    OBVIOUS
  <2>2. s # {}
    BY <1>1, <1>2, <2>1
  <2>3. h[s \ {First(s)}] # g[s \ {First(s)}]
    BY <1>1, <1>2, <2>1, <2>2
  <2>4. s \ {First(s)} \in SUBSET S /\ Cardinality(s \ {First(s)}) = n - 1 /\ n - 1 \in Nat
    BY <1>2, <2>1, <2>2, <1>4
  <2> QED BY <2>3, <2>4
<1>5. T \subseteq Nat
  OBVIOUS
<1>6. T = {}
  <2> HIDE DEF T
  <2> QED BY <1>3, <1>4, <1>5, Book!FirstFailure, Assumptions DEF Book!ConstantAssumption
<1> QED BY <1>2, <1>6

(* So the sum is that of any such g. *)
LEMMA SumOfIs ==
  ASSUME NEW f, NEW U, IsFiniteSet(U), NEW g, IsSums(g, f, U), NEW S \in SUBSET U
  PROVE  SumOf(f, S) = g[S]
<1> DEFINE h == CHOOSE h : IsSums(h, f, S)
<1>1. IsFiniteSet(S)
  BY FS_Subset
<1>2. IsSums(h, f, S)
  BY <1>1, SumsExist
<1>3. SumOf(f, S) = h[S]
  BY SumOfDef
<1> HIDE DEF h
<1> QED BY <1>2, <1>3, SumsAgree

(* What is in no set adds up to 0, *)
LEMMA SumOfNone ==
  ASSUME NEW f PROVE SumOf(f, {}) = 0
<1>1. IsFiniteSet({}) /\ {} \in SUBSET {}
  BY FS_EmptySet
<1>2. PICK g : IsSums(g, f, {})
  BY <1>1, SumsExist
<1>3. g[{}] = 0
  BY <1>1, <1>2 DEF IsSums
<1> QED BY <1>1, <1>2, <1>3, SumOfIs

(* and an element more adds its quantity. *)
LEMMA SumOfMore ==
  ASSUME NEW f, NEW U, IsFiniteSet(U), \A i \in U : f[i].qty \in Int
  PROVE  /\ SumOf(f, U) \in Int
         /\ \A x \in U : SumOf(f, U) = f[x].qty + SumOf(f, U \ {x})
<1>1. PICK g : IsSums(g, f, U)
  BY SumsExist
<1>2. \A s \in SUBSET U : g[s] = IF s = {} THEN 0 ELSE f[First(s)].qty + g[s \ {First(s)}]
  BY <1>1 DEF IsSums
<1>3. \A s \in SUBSET U : /\ Cardinality(s) \in Nat /\ IsFiniteSet(s)
                          /\ Cardinality(s) = 0 => s = {}
                          /\ s # {} => /\ First(s) \in s /\ s \ {First(s)} \in SUBSET U
                                       /\ Cardinality(s \ {First(s)}) = Cardinality(s) - 1
  BY FS_Subset, FS_CardinalityType, FS_EmptySet, FirstIn
<1>4. \A s \in SUBSET U : g[s] \in Int
  <2> DEFINE T == {n \in Nat : \E s \in SUBSET U : Cardinality(s) = n /\ g[s] \notin Int}
  <2>0. g[{}] = 0 /\ 0 \in Int
    <3>1. {} \in SUBSET U
      OBVIOUS
    <3>2. g[{}] = IF {} = {} THEN 0 ELSE f[First({})].qty + g[{} \ {First({})}]
      BY <1>2, <3>1, Zenon
    <3> QED BY <3>2
  <2>1. 0 \notin T
    BY <2>0, <1>3
  <2>2. ASSUME NEW n \in T, n # 0 PROVE n - 1 \in T
    <3>1. PICK s \in SUBSET U : Cardinality(s) = n /\ g[s] \notin Int
      OBVIOUS
    <3>2. s # {}
      BY <2>0, <3>1
    <3>3. f[First(s)].qty \in Int /\ g[s] = f[First(s)].qty + g[s \ {First(s)}]
      BY <1>2, <1>3, <3>2
    <3>4. g[s \ {First(s)}] \notin Int
      BY <3>1, <3>3
    <3>5. s \ {First(s)} \in SUBSET U /\ Cardinality(s \ {First(s)}) = n - 1 /\ n - 1 \in Nat
      BY <1>3, <3>1, <3>2, <2>2
    <3> QED BY <3>4, <3>5
  <2>3. T \subseteq Nat
    OBVIOUS
  <2>4. T = {}
    <3> HIDE DEF T
    <3> QED BY <2>1, <2>2, <2>3, Book!FirstFailure, Assumptions DEF Book!ConstantAssumption
  <2> QED BY <1>3, <2>4
<1>5. \A s \in SUBSET U : \A x \in s : g[s] = f[x].qty + g[s \ {x}]
  <2> DEFINE T == {n \in Nat : \E s \in SUBSET U : \E x \in s :
                                 Cardinality(s) = n /\ g[s] # f[x].qty + g[s \ {x}]}
  <2>1. 0 \notin T
    BY <1>2, <1>3
  <2>2. ASSUME NEW n \in T, n # 0 PROVE n - 1 \in T
    <3>0. PICK s \in SUBSET U : Cardinality(s) = n /\ \E x \in s : g[s] # f[x].qty + g[s \ {x}]
      OBVIOUS
    <3>1. PICK x \in s : Cardinality(s) = n /\ g[s] # f[x].qty + g[s \ {x}]
      BY <3>0
    <3> DEFINE y == First(s)
               t == s \ {y}
    <3>2. /\ y \in s /\ t \in SUBSET U /\ Cardinality(t) = n - 1 /\ n - 1 \in Nat
          /\ g[s] = f[y].qty + g[t]
      BY <1>2, <1>3, <3>1, <2>2
    <3>3. x # y /\ x \in t
      BY <3>1, <3>2
    <3>4. /\ s \ {x} \in SUBSET U /\ y \in s \ {x} /\ t \ {x} = (s \ {x}) \ {y}
          /\ t \ {x} \in SUBSET U
      BY <3>2, <3>3
    <3> HIDE DEF y, t
    <3>7. CASE g[t] = f[x].qty + g[t \ {x}] /\ g[s \ {x}] # f[y].qty + g[(s \ {x}) \ {y}]
      <4>1. Cardinality(s \ {x}) = n - 1
        BY <1>3, <3>1, FS_RemoveElement
      <4> QED BY <3>2, <3>4, <3>7, <4>1
    <3>8. CASE g[t] = f[x].qty + g[t \ {x}] /\ g[s \ {x}] = f[y].qty + g[(s \ {x}) \ {y}]
      <4>1. f[x].qty \in Int /\ f[y].qty \in Int /\ g[t \ {x}] \in Int
        BY <1>4, <3>2, <3>4
      <4>2. g[s \ {x}] = f[y].qty + g[t \ {x}]
        BY <3>4, <3>8
      <4>3. g[s] = f[y].qty + (f[x].qty + g[t \ {x}])
        BY <3>2, <3>8
      <4>4. g[s] = f[x].qty + g[s \ {x}]
        BY <4>1, <4>2, <4>3
      <4> QED BY <3>1, <4>4
    <3>9. t \in SUBSET U /\ x \in t /\ s \ {x} \in SUBSET U /\ y \in s \ {x}
      BY <3>2, <3>3, <3>4
    <3>10. CASE g[t] # f[x].qty + g[t \ {x}]
      BY <3>2, <3>9, <3>10
    <3> QED BY <3>7, <3>8, <3>10
  <2>3. T \subseteq Nat
    OBVIOUS
  <2>4. T = {}
    <3> HIDE DEF T
    <3> QED BY <2>1, <2>2, <2>3, Book!FirstFailure, Assumptions DEF Book!ConstantAssumption
  <2> SUFFICES ASSUME NEW s \in SUBSET U, NEW x \in s PROVE g[s] = f[x].qty + g[s \ {x}]
    OBVIOUS
  <2>5. Cardinality(s) \in Nat /\ Cardinality(s) \notin T
    BY <1>3, <2>4
  <2> QED BY <2>5
<1>6. SumOf(f, U) = g[U] /\ \A x \in U : SumOf(f, U \ {x}) = g[U \ {x}]
  BY <1>1, SumOfIs
<1> QED BY <1>4, <1>5, <1>6

(* It depends on nothing else. *)
LEMMA SumOfSame ==
  ASSUME NEW f, NEW h, NEW S, IsFiniteSet(S), \A i \in S : f[i].qty = h[i].qty
  PROVE  SumOf(f, S) = SumOf(h, S)
<1>1. PICK g : IsSums(g, f, S)
  BY SumsExist
<1>2. \A s \in SUBSET S : s # {} => First(s) \in S
  BY DEF First
<1>3. IsSums(g, h, S)
  BY <1>1, <1>2 DEF IsSums
<1> QED BY <1>1, <1>3, SumOfIs

(* A sum of positive quantities. *)
LEMMA SumOfPositive ==
  ASSUME NEW f, NEW U, IsFiniteSet(U), \A i \in U : f[i].qty \in Int /\ f[i].qty > 0
  PROVE  SumOf(f, U) \in Int /\ SumOf(f, U) >= 0 /\ (U # {} => SumOf(f, U) > 0)
<1>1. \A s \in SUBSET U : /\ IsFiniteSet(s) /\ Cardinality(s) \in Nat
                          /\ s # {} => /\ First(s) \in s /\ s \ {First(s)} \in SUBSET U
                                       /\ Cardinality(s) # 0
                                       /\ Cardinality(s \ {First(s)}) = Cardinality(s) - 1
  BY FS_Subset, FS_CardinalityType, FirstIn
<1>2. \A s \in SUBSET U : SumOf(f, s) \in Int
  BY <1>1, SumOfMore
<1>3. ASSUME NEW s \in SUBSET U, s # {}
      PROVE  /\ f[First(s)].qty \in Int /\ f[First(s)].qty > 0
             /\ SumOf(f, s) = f[First(s)].qty + SumOf(f, s \ {First(s)})
  <2>1. First(s) \in s /\ IsFiniteSet(s) /\ \A i \in s : f[i].qty \in Int
    BY <1>1, <1>3
  <2> QED BY <2>1, SumOfMore
<1> DEFINE T == {n \in Nat : \E s \in SUBSET U : Cardinality(s) = n /\ s # {} /\ ~(SumOf(f, s) > 0)}
<1>4. 0 \notin T
  BY <1>1
<1>5. ASSUME NEW n \in T, n # 0 PROVE n - 1 \in T
  <2>1. PICK s \in SUBSET U : Cardinality(s) = n /\ s # {} /\ ~(SumOf(f, s) > 0)
    OBVIOUS
  <2> DEFINE r == s \ {First(s)}
  <2>2. r \in SUBSET U /\ Cardinality(r) = n - 1 /\ n - 1 \in Nat /\ SumOf(f, r) \in Int
    BY <1>1, <1>2, <1>5, <2>1
  <2>3. SumOf(f, s) = f[First(s)].qty + SumOf(f, r) /\ f[First(s)].qty \in Int
        /\ f[First(s)].qty > 0
    BY <1>3, <2>1
  <2> HIDE DEF r
  <2>4. ~(SumOf(f, r) >= 0)
    BY <2>1, <2>2, <2>3
  <2>5. r # {}
    BY <2>4, SumOfNone
  <2> QED BY <2>2, <2>4, <2>5
<1>6. T \subseteq Nat
  OBVIOUS
<1>7. T = {}
  <2> HIDE DEF T
  <2> QED BY <1>4, <1>5, <1>6, Book!FirstFailure, Assumptions DEF Book!ConstantAssumption
<1>8. U # {} => SumOf(f, U) > 0
  <2>1. U \in SUBSET U /\ Cardinality(U) \in Nat /\ Cardinality(U) \notin T
    BY <1>1, <1>7
  <2> QED BY <2>1
<1> QED BY <1>2, <1>8, SumOfNone
-----------------------------------------------------------------------------
(***************************************************************************)
(* Levels and orders of the client.  A step that changes one order changes *)
(* the total of its level, and the level, by the same.                     *)
(***************************************************************************)
AtLevel(f, k) == {i \in DOMAIN f : Feed!LevelOf(f[i]) = k}
Part(f, i, k) == IF i \in AtLevel(f, k) THEN f[i].qty ELSE 0
Size(b, k) == IF k \in DOMAIN b THEN b[k] ELSE 0

TotalsMatch == \A k \in Feed!LevelKey : SumOf(orders, AtLevel(orders, k)) = Size(levels, k)

(* Totals are sums of finitely many quantities. *)
LEMMA TotalParts ==
  ASSUME NEW f, Feed!IsOrders(f), NEW k, NEW i
  PROVE  /\ SumOf(f, AtLevel(f, k)) \in Int /\ Part(f, i, k) \in Int
         /\ SumOf(f, AtLevel(f, k) \ {i}) \in Int
         /\ SumOf(f, AtLevel(f, k)) = Part(f, i, k) + SumOf(f, AtLevel(f, k) \ {i})
         /\ Feed!OrdersPositive(f) => SumOf(f, AtLevel(f, k) \ {i}) >= 0
         /\ IsFiniteSet(AtLevel(f, k) \ {i})
<1> DEFINE U == AtLevel(f, k)
<1>1. IsFiniteSet(1 .. MaxOrders + 1) /\ U \in SUBSET (1 .. MaxOrders + 1)
  <2>1. MaxOrders \in Nat /\ 1 \in Int /\ MaxOrders + 1 \in Int
    BY Assumptions
  <2>2. IsFiniteSet(1 .. MaxOrders + 1)
    BY <2>1, FS_Interval
  <2>3. DOMAIN f \subseteq Book!OrderId \cup {OtherOrder}
    BY DEF Feed!IsOrders
  <2>4. Book!OrderId \cup {OtherOrder} \subseteq 1 .. MaxOrders + 1
    BY <2>1 DEF Book!OrderId, OtherOrder
  <2> QED BY <2>2, <2>3, <2>4 DEF AtLevel
<1>2. IsFiniteSet(U) /\ IsFiniteSet(U \ {i})
  <2> HIDE DEF U
  <2>1. IsFiniteSet(U)
    BY <1>1, FS_Subset
  <2> QED BY <2>1, FS_RemoveElement
<1>3. \A j \in U : f[j].qty \in Int /\ (Feed!OrdersPositive(f) => f[j].qty > 0)
  BY DEF AtLevel, Feed!IsOrders, Feed!KnownOrder, Feed!OrdersPositive
<1> HIDE DEF U
<1>4. /\ SumOf(f, U) \in Int /\ SumOf(f, U \ {i}) \in Int
      /\ i \in U => SumOf(f, U) = f[i].qty + SumOf(f, U \ {i})
  BY <1>2, <1>3, SumOfMore
<1>5. Feed!OrdersPositive(f) => SumOf(f, U \ {i}) >= 0
  BY <1>2, <1>3, SumOfPositive
<1>6. Part(f, i, k) = IF i \in U THEN f[i].qty ELSE 0
  BY DEF Part, U
<1>7. Part(f, i, k) \in Int /\ SumOf(f, U) = Part(f, i, k) + SumOf(f, U \ {i})
  <2>1. CASE i \in U
    BY <1>3, <1>4, <1>6, <2>1
  <2>2. CASE i \notin U
    <3>1. U \ {i} = U
      BY <2>2
    <3> QED BY <1>4, <1>6, <2>2, <3>1
  <2> QED BY <2>1, <2>2
<1> QED BY <1>2, <1>4, <1>5, <1>7 DEF U

(* What an order adds to the total of its level is all that changes.       *)
LEMMA TotalChanges ==
  ASSUME NEW f, Feed!IsOrders(f), NEW g, Feed!IsOrders(g), NEW i,
         DOMAIN f \ {i} = DOMAIN g \ {i}, \A j \in DOMAIN f \ {i} : g[j] = f[j], NEW k
  PROVE  SumOf(g, AtLevel(g, k)) = SumOf(f, AtLevel(f, k)) - Part(f, i, k) + Part(g, i, k)
<1>1. AtLevel(f, k) \ {i} = AtLevel(g, k) \ {i}
  BY DEF AtLevel
<1>2. \A j \in AtLevel(f, k) \ {i} : f[j].qty = g[j].qty
  BY DEF AtLevel
<1>3. SumOf(f, AtLevel(f, k) \ {i}) = SumOf(g, AtLevel(g, k) \ {i})
  <2>1. IsFiniteSet(AtLevel(f, k) \ {i})
    BY TotalParts
  <2>2. SumOf(f, AtLevel(f, k) \ {i}) = SumOf(g, AtLevel(f, k) \ {i})
    BY <1>2, <2>1, SumOfSame
  <2> QED BY <1>1, <2>2
<1>4. /\ SumOf(f, AtLevel(f, k)) \in Int /\ Part(f, i, k) \in Int
      /\ SumOf(f, AtLevel(f, k) \ {i}) \in Int
      /\ SumOf(f, AtLevel(f, k)) = Part(f, i, k) + SumOf(f, AtLevel(f, k) \ {i})
  BY TotalParts
<1>5. /\ Part(g, i, k) \in Int
      /\ SumOf(g, AtLevel(g, k)) = Part(g, i, k) + SumOf(g, AtLevel(g, k) \ {i})
  BY TotalParts
<1> QED BY <1>3, <1>4, <1>5

(* addToBook: the level grows by what is added. *)
LEMMA AddToBookSize ==
  ASSUME NEW b, Feed!IsLevels(b), NEW key, NEW n \in Int, NEW k
  PROVE  Size(Feed!AddToBook(b, key, n), k) = Size(b, k) + (IF k = key THEN n ELSE 0)
<1>1. \A x \in DOMAIN b : b[x] \in Int
  BY DEF Feed!IsLevels
<1> DEFINE g == Feed!AddToBook(b, key, n)
<1>2. /\ DOMAIN g = DOMAIN b \cup {key}
      /\ \A x \in DOMAIN g : g[x] = IF x = key THEN n + Size(b, key) ELSE b[x]
  BY DEF Feed!AddToBook, Feed!Put, Size
<1> HIDE DEF g
<1>3. Size(b, k) \in Int
  BY <1>1 DEF Size
<1>4. CASE k = key
  BY <1>2, <1>3, <1>4 DEF Size, g
<1>5. CASE k # key
  <2>1. Size(g, k) = Size(b, k)
    BY <1>2, <1>5 DEF Size
  <2> QED BY <1>3, <1>5, <2>1 DEF g
<1> QED BY <1>4, <1>5

(* removeFromBook: it shrinks by what is removed, if that much is there.   *)
LEMMA RemoveFromBookSize ==
  ASSUME NEW b, Feed!IsLevels(b), NEW key, NEW n \in Nat, n <= Size(b, key), NEW k
  PROVE  Size(Feed!RemoveFromBook(b, key, n), k) = Size(b, k) - (IF k = key THEN n ELSE 0)
<1>1. \A x \in DOMAIN b : b[x] \in Int
  BY DEF Feed!IsLevels
<1>2. Size(b, k) \in Int /\ Size(b, key) \in Int
  BY <1>1 DEF Size
<1> DEFINE g == Feed!RemoveFromBook(b, key, n)
<1>3. CASE key \notin DOMAIN b
  <2>1. g = b /\ n = 0
    BY <1>3 DEF Feed!RemoveFromBook, Size
  <2> QED BY <1>2, <2>1
<1>4. CASE key \in DOMAIN b /\ b[key] - n <= 0
  <2>1. DOMAIN g = DOMAIN b \ {key} /\ \A x \in DOMAIN g : g[x] = b[x]
    BY <1>4 DEF Feed!RemoveFromBook, Feed!Without, Feed!Restrict
  <2>2. b[key] = n
    BY <1>1, <1>4 DEF Size
  <2> HIDE DEF g
  <2>3. Size(g, k) = Size(b, k) - (IF k = key THEN n ELSE 0)
    BY <1>2, <1>4, <2>1, <2>2 DEF Size
  <2> QED BY <2>3 DEF g
<1>5. CASE key \in DOMAIN b /\ ~(b[key] - n <= 0)
  <2>1. g = [b EXCEPT ![key] = @ - n]
    BY <1>5 DEF Feed!RemoveFromBook
  <2>2. DOMAIN g = DOMAIN b /\ \A x \in DOMAIN b : g[x] = IF x = key THEN b[key] - n ELSE b[x]
    BY <1>5, <2>1 DEF Feed!IsLevels
  <2> HIDE DEF g
  <2>3. Size(g, k) = Size(b, k) - (IF k = key THEN n ELSE 0)
    BY <1>2, <1>5, <2>2 DEF Size
  <2> QED BY <2>3 DEF g
<1> QED BY <1>3, <1>4, <1>5

(* A level holds at least each of its orders. *)
LEMMA SizeCovers ==
  ASSUME Feed!FeedData, Feed!NothingNegative, TotalsMatch, NEW i \in DOMAIN orders
  PROVE  LET k == Feed!LevelOf(orders[i]) IN
         /\ k \in Feed!LevelKey /\ orders[i].qty \in Int
         /\ 0 < orders[i].qty /\ orders[i].qty <= Size(levels, k)
<1> DEFINE k == Feed!LevelOf(orders[i])
<1>1. Feed!IsOrders(orders) /\ Feed!OrdersPositive(orders)
  BY DEF Feed!FeedData, Feed!DataOK, Feed!NothingNegative, Feed!OrdersPositive
<1>2. k \in Feed!LevelKey /\ orders[i].qty \in Int /\ orders[i].qty > 0
  BY Feed!OrderParts DEF Feed!FeedData
<1>3. Part(orders, i, k) = orders[i].qty
  BY DEF Part, AtLevel
<1> HIDE DEF k
<1>4. /\ SumOf(orders, AtLevel(orders, k) \ {i}) \in Int
      /\ SumOf(orders, AtLevel(orders, k) \ {i}) >= 0
      /\ SumOf(orders, AtLevel(orders, k)) =
           Part(orders, i, k) + SumOf(orders, AtLevel(orders, k) \ {i})
  BY <1>1, TotalParts
<1>5. SumOf(orders, AtLevel(orders, k)) = Size(levels, k)
  BY <1>2 DEF TotalsMatch
<1>6. orders[i].qty <= Size(levels, k)
  BY <1>2, <1>3, <1>4, <1>5
<1> QED BY <1>2, <1>6 DEF k

(* When orders and levels change by the same, the totals still match. *)
LEMMA TotalsStep ==
  ASSUME Feed!FeedData, Feed!FeedData', TotalsMatch, NEW i,
         DOMAIN orders \ {i} = DOMAIN orders' \ {i},
         \A j \in DOMAIN orders \ {i} : orders'[j] = orders[j],
         \A k \in Feed!LevelKey :
           Size(levels', k) = Size(levels, k) - Part(orders, i, k) + Part(orders', i, k)
  PROVE  TotalsMatch'
<1>1. Feed!IsOrders(orders) /\ Feed!IsOrders(orders')
  BY DEF Feed!FeedData, Feed!DataOK, Feed!IsOrders
<1> SUFFICES ASSUME NEW k \in Feed!LevelKey
             PROVE  SumOf(orders', AtLevel(orders', k)) = Size(levels', k)
  BY DEF TotalsMatch
<1>2. SumOf(orders', AtLevel(orders', k)) =
        SumOf(orders, AtLevel(orders, k)) - Part(orders, i, k) + Part(orders', i, k)
  BY <1>1, TotalChanges
<1> QED BY <1>2 DEF TotalsMatch

(* A small datagram keeps them so, unless it adds an order that is known   *)
(* or fills one: neither comes to a client that is sent all things in      *)
(* order.                                                                  *)
LEMMA ReceiveKeepsTotals ==
  ASSUME Feed!FeedData, Feed!NothingNegative, TotalsMatch,
         NEW m \in Feed!Datagram, Feed!SmallData(m), Feed!Receive(m),
         m.kind \in {"added", "fill"} => m.id \notin DOMAIN orders
  PROVE  TotalsMatch'
<1>1. Feed!FeedData' /\ Feed!NothingNegative'
  BY Assumptions, Feed!ReceiveOK
<1>2. /\ Feed!IsOrders(orders) /\ Feed!IsLevels(levels)
      /\ Feed!IsOrders(orders')
  BY <1>1 DEF Feed!FeedData, Feed!DataOK, Feed!IsOrders, Feed!IsLevels
<1>3. CASE Feed!UnknownOrder(m)
  BY <1>3 DEF Feed!UnknownOrder, TotalsMatch, AtLevel
<1>4. CASE Feed!AddOrder(m)
  <2> DEFINE o == [ticker |-> m.ticker, side |-> m.side, price |-> m.price,
                   qty |-> Feed!Signed(m.qty)]
             i == m.id
             key == Feed!LevelOf(o)
  <2>1. /\ m.kind = "added" /\ i \notin DOMAIN orders
        /\ levels' = Feed!AddToBook(levels, key, o.qty) /\ orders' = Feed!Put(orders, i, o)
    BY <1>4 DEF Feed!AddOrder
  <2>2. m.qty \in Book!Qty
    BY <2>1 DEF Feed!Datagram, Feed!AddOrderData, Feed!ModOrderData, Feed!CancelOrderData,
                Feed!FillOrderData
  <2>3. o.qty \in Int
    BY <2>2, Assumptions, Feed!SignedInt
  <2> HIDE DEF o
  <2>4. /\ DOMAIN orders' = DOMAIN orders \cup {i} /\ orders'[i] = o
        /\ \A j \in DOMAIN orders : orders'[j] = orders[j]
    BY <2>1 DEF Feed!Put
  <2> HIDE DEF i
  <2>5. ASSUME NEW k \in Feed!LevelKey
        PROVE  Size(levels', k) = Size(levels, k) - Part(orders, i, k) + Part(orders', i, k)
    <3>1. Part(orders, i, k) = 0 /\ Part(orders', i, k) = IF k = key THEN o.qty ELSE 0
      BY <2>1, <2>4 DEF Part, AtLevel
    <3>2. Size(levels', k) = Size(levels, k) + (IF k = key THEN o.qty ELSE 0)
      <4> HIDE DEF key
      <4> QED BY <1>2, <2>1, <2>3, AddToBookSize
    <3>3. Size(levels, k) \in Int
      BY <1>2 DEF Size, Feed!IsLevels
    <3> QED BY <2>3, <3>1, <3>2, <3>3
  <2> HIDE DEF key
  <2> QED BY <1>1, <2>1, <2>4, <2>5, TotalsStep
<1>5. CASE Feed!CancelOrder(m)
  <2> DEFINE i == m.id
             key == Feed!LevelOf(orders[i])
             n == orders[i].qty
  <2>1. /\ i \in DOMAIN orders
        /\ levels' = Feed!RemoveFromBook(levels, key, n) /\ orders' = Feed!Without(orders, i)
    BY <1>5 DEF Feed!CancelOrder
  <2>2. n \in Nat /\ n <= Size(levels, key)
    BY <2>1, SizeCovers
  <2>3. /\ DOMAIN orders' = DOMAIN orders \ {i}
        /\ \A j \in DOMAIN orders \ {i} : orders'[j] = orders[j]
    BY <1>2, <2>1, Feed!WithoutOrder
  <2> HIDE DEF i
  <2>4. ASSUME NEW k \in Feed!LevelKey
        PROVE  Size(levels', k) = Size(levels, k) - Part(orders, i, k) + Part(orders', i, k)
    <3>1. Part(orders', i, k) = 0 /\ Part(orders, i, k) = IF k = key THEN n ELSE 0
      BY <2>1, <2>3 DEF Part, AtLevel
    <3> HIDE DEF key, n
    <3>2. Size(levels', k) = Size(levels, k) - (IF k = key THEN n ELSE 0)
      BY <1>2, <2>1, <2>2, RemoveFromBookSize
    <3>3. Size(levels, k) \in Int
      BY <1>2 DEF Size, Feed!IsLevels
    <3> QED BY <2>2, <3>1, <3>2, <3>3
  <2> QED BY <1>1, <2>3, <2>4, TotalsStep
<1>6. CASE Feed!ModifyOrder(m)
  <2> DEFINE i == m.id
             key == Feed!LevelOf(orders[i])
             n == orders[i].qty
             q == Feed!Signed(m.qty)
  <2>1. /\ m.kind = "modified" /\ i \in DOMAIN orders
        /\ levels' = IF q > n THEN Feed!AddToBook(levels, key, q - n)
                              ELSE Feed!RemoveFromBook(levels, key, n - q)
        /\ orders' = [orders EXCEPT ![i].qty = q]
    BY <1>6 DEF Feed!ModifyOrder
  <2>2. m.qty \in Book!Qty
    BY <2>1 DEF Feed!Datagram, Feed!AddOrderData, Feed!ModOrderData, Feed!CancelOrderData,
                Feed!FillOrderData
  <2>3. q \in Int /\ q > 0
    BY <2>1, <2>2, Assumptions, Feed!SignedInt DEF Feed!SmallData
  <2>4. n \in Int /\ n > 0 /\ n <= Size(levels, key)
    BY <2>1, SizeCovers
  <2>5. Size(levels, key) \in Int
    BY <1>2 DEF Size, Feed!IsLevels
  <2> HIDE DEF q, i
  <2>6. /\ DOMAIN orders' = DOMAIN orders
        /\ \A j \in DOMAIN orders \ {i} : orders'[j] = orders[j]
        /\ orders'[i].qty = q /\ Feed!LevelOf(orders'[i]) = key
    BY <1>2, <2>1 DEF Feed!IsOrders, Feed!KnownOrder, Feed!LevelOf
  <2>7. ASSUME NEW k \in Feed!LevelKey
        PROVE  Size(levels', k) = Size(levels, k) - Part(orders, i, k) + Part(orders', i, k)
    <3>1. /\ Part(orders', i, k) = IF k = key THEN q ELSE 0
          /\ Part(orders, i, k) = IF k = key THEN n ELSE 0
      BY <2>1, <2>6 DEF Part, AtLevel
    <3> HIDE DEF key, n
    <3>2. Size(levels, k) \in Int
      BY <1>2 DEF Size, Feed!IsLevels
    <3>3. CASE q > n
      <4>1. q - n \in Int
        BY <2>3, <2>4
      <4>2. Size(levels', k) = Size(levels, k) + (IF k = key THEN q - n ELSE 0)
        BY <1>2, <2>1, <3>3, <4>1, AddToBookSize
      <4> QED BY <2>3, <2>4, <3>1, <3>2, <4>2
    <3>4. CASE ~(q > n)
      <4>1. n - q \in Nat /\ n - q <= Size(levels, key)
        BY <2>3, <2>4, <2>5, <3>4
      <4>2. Size(levels', k) = Size(levels, k) - (IF k = key THEN n - q ELSE 0)
        BY <1>2, <2>1, <3>4, <4>1, RemoveFromBookSize
      <4> QED BY <2>3, <2>4, <3>1, <3>2, <4>2
    <3> QED BY <3>3, <3>4
  <2> QED BY <1>1, <2>6, <2>7, TotalsStep
<1>7. ~Feed!FillOrder(m)
  BY DEF Feed!FillOrder
<1> QED BY <1>3, <1>4, <1>5, <1>6, <1>7 DEF Feed!Receive
-----------------------------------------------------------------------------
(***************************************************************************)
(* Sequences with an element less.                                         *)
(***************************************************************************)
(* t is s without its n-th element. *)
Dropped(s, t, n) == /\ n \in 1 .. Len(s) /\ Len(t) = Len(s) - 1
                    /\ \A j \in 1 .. Len(s) - 1 : t[j] = s[IF j < n THEN j ELSE j + 1]

(* Two sequences one after the other, element by element. *)
LEMMA ConcatAt ==
  ASSUME NEW S, NEW a \in Seq(S), NEW b \in Seq(S)
  PROVE  /\ a \o b \in Seq(S) /\ Len(a) \in Nat /\ Len(b) \in Nat
         /\ Len(a \o b) = Len(a) + Len(b) /\ DOMAIN (a \o b) = 1 .. Len(a) + Len(b)
         /\ \A j \in 1 .. Len(a) : (a \o b)[j] = a[j]
         /\ \A j \in 1 .. Len(b) : (a \o b)[Len(a) + j] = b[j]
         /\ \A j \in 1 .. Len(a) + Len(b) :
              j \notin 1 .. Len(a) => j - Len(a) \in 1 .. Len(b) /\ (a \o b)[j] = b[j - Len(a)]
<1>1. /\ a \o b \in Seq(S) /\ Len(a \o b) = Len(a) + Len(b)
      /\ \A j \in 1 .. Len(a) + Len(b) : (a \o b)[j] = IF j <= Len(a) THEN a[j] ELSE b[j - Len(a)]
      /\ Len(a) \in Nat /\ Len(b) \in Nat
  BY ConcatProperties, LenProperties
<1>2. DOMAIN (a \o b) = 1 .. Len(a) + Len(b)
  BY <1>1, LenProperties
<1>3. \A j \in 1 .. Len(b) : (a \o b)[Len(a) + j] = b[j]
  <2> SUFFICES ASSUME NEW j \in 1 .. Len(b) PROVE (a \o b)[Len(a) + j] = b[j]
    OBVIOUS
  <2>1. /\ Len(a) + j \in 1 .. Len(a) + Len(b) /\ ~(Len(a) + j <= Len(a))
        /\ Len(a) + j - Len(a) = j
    BY <1>1
  <2> QED BY <1>1, <2>1
<1> QED BY <1>1, <1>2, <1>3

(* The element between two sequences is dropped, *)
LEMMA DropMiddle ==
  ASSUME NEW S, NEW a \in Seq(S), NEW x \in S, NEW b \in Seq(S)
  PROVE  /\ Dropped(a \o (<<x>> \o b), a \o (<< >> \o b), Len(a) + 1)
         /\ (a \o (<<x>> \o b))[Len(a) + 1] = x
<1> DEFINE y == <<x>>
           c == y \o b
           s == a \o c
           t == a \o b
<1>1. y \in Seq(S) /\ Len(y) = 1 /\ y[1] = x /\ << >> \o b = b
  BY ConcatEmptySeq
<1> HIDE DEF y
<1>2. /\ c \in Seq(S) /\ Len(b) \in Nat /\ Len(c) = 1 + Len(b) /\ c[1] = x
      /\ \A j \in 1 .. Len(b) : c[1 + j] = b[j]
  <2>1. /\ c \in Seq(S) /\ Len(b) \in Nat /\ Len(c) = Len(y) + Len(b)
        /\ \A j \in 1 .. Len(y) : c[j] = y[j]
        /\ \A j \in 1 .. Len(b) : c[Len(y) + j] = b[j]
    BY <1>1, ConcatAt
  <2> HIDE DEF c
  <2> QED BY <1>1, <2>1
<1> HIDE DEF c
<1>3. /\ s \in Seq(S) /\ Len(a) \in Nat /\ Len(s) = Len(a) + (1 + Len(b))
      /\ \A j \in 1 .. Len(a) : s[j] = a[j]
      /\ \A j \in 1 .. 1 + Len(b) : s[Len(a) + j] = c[j]
  <2>1. /\ s \in Seq(S) /\ Len(a) \in Nat /\ Len(s) = Len(a) + Len(c)
        /\ \A j \in 1 .. Len(a) : s[j] = a[j]
        /\ \A j \in 1 .. Len(c) : s[Len(a) + j] = c[j]
    <3>1. c \in Seq(S)
      BY <1>2
    <3> QED BY <3>1, ConcatAt
  <2> HIDE DEF s
  <2> QED BY <1>2, <2>1
<1>4. /\ t \in Seq(S) /\ Len(t) = Len(a) + Len(b)
      /\ \A j \in 1 .. Len(a) : t[j] = a[j]
      /\ \A j \in 1 .. Len(b) : t[Len(a) + j] = b[j]
  BY ConcatAt
<1> HIDE DEF s, t
<1>5. s[Len(a) + 1] = x
  BY <1>2, <1>3
<1>6. ASSUME NEW j \in 1 .. Len(s) - 1
      PROVE  t[j] = s[IF j < Len(a) + 1 THEN j ELSE j + 1]
  <2>1. CASE j < Len(a) + 1
    <3>1. j \in 1 .. Len(a)
      BY <1>3, <2>1
    <3> QED BY <1>3, <1>4, <2>1, <3>1
  <2>2. CASE ~(j < Len(a) + 1)
    <3> DEFINE i == j - Len(a)
    <3>1. i \in 1 .. Len(b) /\ 1 + i \in 1 .. 1 + Len(b) /\ j = Len(a) + i
          /\ j + 1 = Len(a) + (1 + i)
      BY <1>2, <1>3, <2>2
    <3> HIDE DEF i
    <3>2. t[j] = b[i]
      BY <1>4, <3>1
    <3>3. s[j + 1] = c[1 + i] /\ c[1 + i] = b[i]
      BY <1>2, <1>3, <3>1
    <3> QED BY <2>2, <3>2, <3>3
  <2> QED BY <2>1, <2>2
<1>7. Dropped(s, t, Len(a) + 1)
  BY <1>2, <1>3, <1>4, <1>6 DEF Dropped
<1> QED BY <1>1, <1>5, <1>7 DEF s, t, c, y

(* or the first one. *)
LEMMA DropFirst ==
  ASSUME NEW S, NEW a \in Seq(S), NEW r \in Seq(S), Dropped(a, r, 1), NEW b \in Seq(S)
  PROVE  Dropped(a \o b, r \o b, 1) /\ (a \o b)[1] = a[1]
<1> DEFINE s == a \o b
           t == r \o b
<1>1. /\ s \in Seq(S) /\ Len(a) \in Nat /\ Len(b) \in Nat /\ Len(s) = Len(a) + Len(b)
      /\ \A j \in 1 .. Len(a) : s[j] = a[j]
      /\ \A j \in 1 .. Len(b) : s[Len(a) + j] = b[j]
  BY ConcatAt
<1>2. /\ t \in Seq(S) /\ Len(r) \in Nat /\ Len(t) = Len(r) + Len(b)
      /\ \A j \in 1 .. Len(r) : t[j] = r[j]
      /\ \A j \in 1 .. Len(b) : t[Len(r) + j] = b[j]
  BY ConcatAt
<1>3. /\ 1 \in 1 .. Len(a) /\ Len(r) = Len(a) - 1
      /\ \A j \in 1 .. Len(a) - 1 : r[j] = a[j + 1]
  BY <1>1 DEF Dropped
<1> HIDE DEF s, t
<1>4. ASSUME NEW j \in 1 .. Len(s) - 1
      PROVE  t[j] = s[j + 1]
  <2>1. CASE j <= Len(r)
    BY <1>1, <1>2, <1>3, <2>1
  <2>2. CASE ~(j <= Len(r))
    <3> DEFINE i == j - Len(r)
    <3>1. i \in 1 .. Len(b) /\ j = Len(r) + i /\ j + 1 = Len(a) + i
      BY <1>1, <1>2, <1>3, <2>2
    <3> HIDE DEF i
    <3> QED BY <1>1, <1>2, <3>1
  <2> QED BY <2>1, <2>2
<1>5. Dropped(s, t, 1) /\ s[1] = a[1]
  BY <1>1, <1>2, <1>3, <1>4 DEF Dropped
<1> QED BY <1>5 DEF s, t
-----------------------------------------------------------------------------
(***************************************************************************)
(* What is still to come to the client, and what it knows.  At a = 0 stand *)
(* the orders that it knows already.                                       *)
(***************************************************************************)
Announces(s, K, a, i) == IF a = 0 THEN i \in K ELSE s[a].kind = "added" /\ s[a].id = i
Ends(s, c, i) == s[c].kind = "cancelled" /\ s[c].id = i
Ended(s, a, b, i) == \E c \in a + 1 .. b - 1 : Ends(s, c, i)

(* Between two announcements of an order, and before a fill of it, comes   *)
(* its cancellation: L says whether that can happen at all.                *)
Separated(s, K, L) ==
  \A b \in DOMAIN s : \A a \in 0 .. b - 1 :
    s[b].kind \in {"added", "fill"} /\ Announces(s, K, a, s[b].id)
    => L /\ Ended(s, a, b, s[b].id)

(* Something lost keeps that, when there is nothing to be separated; *)
LEMMA SeparatedDrop ==
  ASSUME NEW S, NEW s \in Seq(S), NEW t \in Seq(S), NEW n, Dropped(s, t, n), NEW K,
         Separated(s, K, FALSE)
  PROVE  Separated(t, K, FALSE)
<1>1. /\ Len(s) \in Nat /\ DOMAIN s = 1 .. Len(s) /\ DOMAIN t = 1 .. Len(s) - 1
      /\ n \in 1 .. Len(s)
      /\ \A j \in 1 .. Len(s) - 1 : t[j] = s[IF j < n THEN j ELSE j + 1]
  BY LenProperties DEF Dropped
<1> SUFFICES ASSUME NEW b \in DOMAIN t, NEW a \in 0 .. b - 1,
                    t[b].kind \in {"added", "fill"}, Announces(t, K, a, t[b].id)
             PROVE  FALSE
  BY DEF Separated
<1> DEFINE g(j) == IF j = 0 THEN 0 ELSE IF j < n THEN j ELSE j + 1
<1>2. /\ g(b) \in DOMAIN s /\ g(a) \in 0 .. g(b) - 1 /\ t[b] = s[g(b)]
      /\ a # 0 => g(a) # 0 /\ t[a] = s[g(a)]
      /\ g(0) = 0
  BY <1>1
<1> HIDE DEF g
<1>3. Announces(s, K, g(a), s[g(b)].id)
  BY <1>2 DEF Announces
<1> QED BY <1>2, <1>3 DEF Separated

(* so does the delivery of the first element, which may announce an order  *)
(* or end one.                                                             *)
LEMMA SeparatedDeliver ==
  ASSUME NEW S, NEW s \in Seq(S), NEW t \in Seq(S), Dropped(s, t, 1), NEW K, NEW K1, NEW L,
         Separated(s, K, L),
         \A i \in K1 : i \in K \/ (s[1].kind = "added" /\ s[1].id = i),
         s[1].kind = "cancelled" => s[1].id \notin K1
  PROVE  Separated(t, K1, L)
<1>1. /\ Len(s) \in Nat /\ DOMAIN s = 1 .. Len(s) /\ DOMAIN t = 1 .. Len(s) - 1
      /\ \A j \in 1 .. Len(s) - 1 : t[j] = s[j + 1]
  BY LenProperties DEF Dropped
<1> SUFFICES ASSUME NEW b \in DOMAIN t, NEW a \in 0 .. b - 1,
                    t[b].kind \in {"added", "fill"}, Announces(t, K1, a, t[b].id)
             PROVE  L /\ Ended(t, a, b, t[b].id)
  BY DEF Separated
<1> DEFINE i == t[b].id
<1>2. b + 1 \in DOMAIN s /\ t[b] = s[b + 1] /\ i = s[b + 1].id
  BY <1>1
<1>3. ASSUME NEW x \in 0 .. b, Announces(s, K, x, i)
      PROVE  L /\ \E c \in x + 1 .. b : Ends(s, c, i)
  <2>1. L /\ Ended(s, x, b + 1, i)
    BY <1>2, <1>3 DEF Separated
  <2> QED BY <1>1, <2>1 DEF Ended
<1>4. ASSUME NEW c \in 2 .. b, Ends(s, c, i)
      PROVE  c - 1 \in 1 .. b - 1 /\ Ends(t, c - 1, i)
  BY <1>1, <1>4 DEF Ends
<1> HIDE DEF i
<1>5. CASE a # 0
  <2>1. a + 1 \in 0 .. b /\ Announces(s, K, a + 1, i)
    BY <1>1, <1>2, <1>5 DEF Announces, i
  <2>2. PICK c \in a + 2 .. b : L /\ Ends(s, c, i)
    BY <1>3, <2>1
  <2>3. c \in 2 .. b /\ c - 1 \in a + 1 .. b - 1
    BY <2>2
  <2> QED BY <1>4, <2>2, <2>3 DEF Ended, i
<1>6. CASE a = 0
  <2>1. i \in K1
    BY <1>6 DEF Announces, i
  <2>2. CASE s[1].kind = "added" /\ s[1].id = i
    <3>1. 1 \in 0 .. b /\ Announces(s, K, 1, i)
      BY <1>1, <2>2 DEF Announces
    <3>2. PICK c \in 2 .. b : L /\ Ends(s, c, i)
      BY <1>3, <3>1
    <3> QED BY <1>4, <1>6, <3>2 DEF Ended, i
  <2>3. CASE i \in K
    <3>1. 0 \in 0 .. b /\ Announces(s, K, 0, i)
      BY <1>1, <2>3 DEF Announces
    <3>2. PICK c \in 1 .. b : L /\ Ends(s, c, i)
      BY <1>3, <3>1
    <3>3. c # 1
      BY <2>1, <3>2 DEF Ends
    <3>4. c \in 2 .. b
      BY <3>2, <3>3
    <3> QED BY <1>4, <1>6, <3>2, <3>4 DEF Ended, i
  <2> QED BY <2>1, <2>2, <2>3
<1> QED BY <1>5, <1>6

(* More at the end keeps it so, when what is new follows the end of        *)
(* whatever was announced of its order.                                    *)
Free(s, K, L, i) ==
  \A a \in 0 .. Len(s) : Announces(s, K, a, i) => L /\ Ended(s, a, Len(s) + 1, i)

(* Messages that follow the end of their orders keep Separated.            *)
LEMMA SeparatedMore ==
  ASSUME NEW S, NEW s \in Seq(S), NEW new \in Seq(S), NEW K, NEW L, Separated(s, K, L),
         \A k \in DOMAIN new : new[k].kind \in {"added", "fill"} => Free(s, K, L, new[k].id),
         \A k \in DOMAIN new : new[k].kind = "added" => k = Len(new)
  PROVE  Separated(s \o new, K, L)
<1> DEFINE t == s \o new
<1>1. /\ Len(s) \in Nat /\ Len(new) \in Nat /\ DOMAIN t = 1 .. Len(s) + Len(new)
      /\ DOMAIN s = 1 .. Len(s) /\ DOMAIN new = 1 .. Len(new)
      /\ \A j \in 1 .. Len(s) : t[j] = s[j]
      /\ \A j \in 1 .. Len(s) + Len(new) :
           j \notin 1 .. Len(s) => j - Len(s) \in 1 .. Len(new) /\ t[j] = new[j - Len(s)]
  BY ConcatAt, LenProperties
<1> HIDE DEF t
<1> SUFFICES ASSUME NEW b \in DOMAIN t, NEW a \in 0 .. b - 1,
                    t[b].kind \in {"added", "fill"}, Announces(t, K, a, t[b].id)
             PROVE  L /\ Ended(t, a, b, t[b].id)
  BY DEF Separated, t
<1>2. CASE b \in 1 .. Len(s)
  <2>1. t[b] = s[b] /\ Announces(s, K, a, s[b].id)
    BY <1>1, <1>2 DEF Announces
  <2>2. L /\ Ended(s, a, b, s[b].id)
    BY <1>1, <1>2, <2>1 DEF Separated
  <2> QED BY <1>1, <1>2, <2>1, <2>2 DEF Ended, Ends
<1>3. CASE b \notin 1 .. Len(s)
  <2> DEFINE k == b - Len(s)
  <2>1. k \in DOMAIN new /\ t[b] = new[k]
    BY <1>1, <1>3
  <2>2. CASE a \in 0 .. Len(s)
    <3>1. Announces(s, K, a, t[b].id)
      BY <1>1, <2>2 DEF Announces
    <3>2. Free(s, K, L, t[b].id)
      BY <2>1
    <3>3. L /\ Ended(s, a, Len(s) + 1, t[b].id)
      BY <2>2, <3>1, <3>2 DEF Free
    <3> QED BY <1>1, <1>3, <3>3 DEF Ended, Ends
  <2>3. CASE a \notin 0 .. Len(s)
    <3>1. a - Len(s) \in DOMAIN new /\ t[a] = new[a - Len(s)] /\ a # 0 /\ a \notin 1 .. Len(s)
      BY <1>1, <2>3
    <3>2. new[a - Len(s)].kind = "added"
      BY <3>1 DEF Announces
    <3>3. a - Len(s) = Len(new)
      BY <3>1, <3>2
    <3> QED BY <1>1, <2>3, <3>3
  <2> QED BY <2>2, <2>3
<1> QED BY <1>2, <1>3
-----------------------------------------------------------------------------
(***************************************************************************)
(* Everything that is still to come to the client, in the order in which   *)
(* it will: on the network, in the platform, queued at the exchange, and   *)
(* sent by the handler that runs.                                          *)
(***************************************************************************)
Laid(s) == [k \in DOMAIN s |-> Layout(s[k])]
InHand == IF reader = "serialise" THEN <<Layout(market_data)>>
          ELSE IF reader = "send" /\ Me \in tosend \cup asking THEN <<buffer>>
          ELSE << >>
Stream == network[Me] \o (InHand \o Laid(feed \o Announced))

(* The datagrams of messages. *)
LEMMA LaidType ==
  ASSUME NEW s \in Seq(Message)
  PROVE  /\ Laid(s) \in Seq(Feed!Datagram) /\ Len(Laid(s)) = Len(s)
         /\ DOMAIN Laid(s) = DOMAIN s
         /\ \A k \in DOMAIN s : Laid(s)[k] = Layout(s[k])
<1>1. DOMAIN s = 1 .. Len(s) /\ Len(s) \in Nat /\ \A k \in 1 .. Len(s) : s[k] \in Message
  BY LenProperties, ElementOfSeq
<1>2. Laid(s) \in [1 .. Len(s) -> Feed!Datagram]
  BY <1>1, LayoutType DEF Laid
<1>3. Laid(s) \in Seq(Feed!Datagram) /\ Len(Laid(s)) = Len(s)
  BY <1>1, <1>2
<1> QED BY <1>1, <1>3 DEF Laid

(* Laid out one after the other. *)
LEMMA LaidConcat ==
  ASSUME NEW s \in Seq(Message), NEW t \in Seq(Message)
  PROVE  Laid(s \o t) = Laid(s) \o Laid(t)
<1> DEFINE u == s \o t
           v == Laid(s) \o Laid(t)
<1>1. /\ Laid(s) \in Seq(Feed!Datagram) /\ Laid(t) \in Seq(Feed!Datagram)
      /\ Len(Laid(s)) = Len(s) /\ Len(Laid(t)) = Len(t)
      /\ DOMAIN s = 1 .. Len(s) /\ DOMAIN t = 1 .. Len(t)
      /\ \A k \in DOMAIN s : Laid(s)[k] = Layout(s[k])
      /\ \A k \in DOMAIN t : Laid(t)[k] = Layout(t[k])
  BY LaidType, LenProperties
<1>2. /\ u \in Seq(Message) /\ Len(s) \in Nat /\ Len(t) \in Nat
      /\ DOMAIN u = 1 .. Len(s) + Len(t)
      /\ \A j \in 1 .. Len(s) : u[j] = s[j]
      /\ \A j \in 1 .. Len(s) + Len(t) :
           j \notin 1 .. Len(s) => j - Len(s) \in 1 .. Len(t) /\ u[j] = t[j - Len(s)]
  BY ConcatAt
<1>3. /\ v \in Seq(Feed!Datagram) /\ DOMAIN v = 1 .. Len(s) + Len(t)
      /\ \A j \in 1 .. Len(s) : v[j] = Laid(s)[j]
      /\ \A j \in 1 .. Len(s) + Len(t) :
           j \notin 1 .. Len(s) => v[j] = Laid(t)[j - Len(s)]
  <2>1. /\ v \in Seq(Feed!Datagram) /\ DOMAIN v = 1 .. Len(Laid(s)) + Len(Laid(t))
        /\ \A j \in 1 .. Len(Laid(s)) : v[j] = Laid(s)[j]
        /\ \A j \in 1 .. Len(Laid(s)) + Len(Laid(t)) :
             j \notin 1 .. Len(Laid(s)) => v[j] = Laid(t)[j - Len(Laid(s))]
    <3>1. Laid(s) \in Seq(Feed!Datagram) /\ Laid(t) \in Seq(Feed!Datagram)
      BY <1>1
    <3> QED BY ONLY <3>1, ConcatAt
  <2> HIDE DEF v
  <2> QED BY <1>1, <2>1
<1>4. /\ Laid(u) \in Seq(Feed!Datagram) /\ DOMAIN Laid(u) = DOMAIN u
      /\ \A k \in DOMAIN u : Laid(u)[k] = Layout(u[k])
  BY <1>2, LaidType
<1> HIDE DEF u, v
<1>5. ASSUME NEW k \in 1 .. Len(s) + Len(t)
      PROVE  Laid(u)[k] = v[k]
  <2>1. CASE k \in 1 .. Len(s)
    BY <1>1, <1>2, <1>3, <1>4, <2>1
  <2>2. CASE k \notin 1 .. Len(s)
    <3>1. k - Len(s) \in 1 .. Len(t) /\ u[k] = t[k - Len(s)] /\ v[k] = Laid(t)[k - Len(s)]
      BY <1>2, <1>3, <2>2
    <3>2. Laid(t)[k - Len(s)] = Layout(t[k - Len(s)])
      BY <1>1, <3>1
    <3> QED BY <1>2, <1>4, <3>1, <3>2
  <2> QED BY <2>1, <2>2
<1>6. Laid(u) = v
  <2>1. Len(Laid(u)) = Len(v) /\ Len(Laid(u)) = Len(s) + Len(t) /\ Len(v) = Len(s) + Len(t)
    BY <1>2, <1>3, <1>4, LenProperties
  <2> QED BY <1>2, <1>3, <1>4, <1>5, <2>1, SeqEqual
<1> QED BY <1>6 DEF u, v

(* Its parts are datagrams. *)
LEMMA StreamType ==
  ASSUME MarketInv
  PROVE  /\ network[Me] \in Seq(Feed!Datagram) /\ InHand \in Seq(Feed!Datagram)
         /\ feed \in Seq(Message) /\ Announced \in Seq(Message)
         /\ feed \o Announced \in Seq(Message)
         /\ Laid(feed \o Announced) \in Seq(Feed!Datagram)
         /\ Stream \in Seq(Feed!Datagram)
<1>1. network[Me] \in Seq(Feed!Datagram)
  BY MarketDataAssumption DEF MarketInv, Platform!PlatformInv, Platform!Loop
<1>2. InHand \in Seq(Feed!Datagram)
  <2>1. /\ reader = "serialise" => Layout(market_data) \in Feed!Datagram
        /\ reader = "send" => buffer \in Feed!Datagram
    BY LayoutType DEF MarketInv, Platform!PlatformInv, Platform!Filled
  <2>2. << >> \in Seq(Feed!Datagram) /\ \A d \in Feed!Datagram : <<d>> \in Seq(Feed!Datagram)
    BY EmptySeq
  <2> QED BY <2>1, <2>2 DEF InHand
<1>3. feed \in Seq(Message) /\ Announced \in Seq(Message)
  BY AnnouncedType DEF MarketInv, RestOK
<1>4. feed \o Announced \in Seq(Message)
  BY <1>3, ConcatProperties
<1>5. Laid(feed \o Announced) \in Seq(Feed!Datagram)
  BY <1>4, LaidType
<1> HIDE DEF InHand, Laid, Announced
<1>6. InHand \o Laid(feed \o Announced) \in Seq(Feed!Datagram)
  BY <1>2, <1>5, ConcatProperties
<1>7. Stream \in Seq(Feed!Datagram)
  BY <1>1, <1>6, ConcatProperties DEF Stream
<1> QED BY <1>1, <1>2, <1>3, <1>4, <1>5, <1>7

(* New messages come last. *)
LEMMA StreamMore ==
  ASSUME MarketInv, UNCHANGED platformvars, NEW new \in Seq(Message),
         feed' \o Announced' = (feed \o Announced) \o new
  PROVE  Stream' = Stream \o Laid(new)
<1>1. /\ network[Me] \in Seq(Feed!Datagram) /\ InHand \in Seq(Feed!Datagram)
      /\ feed \o Announced \in Seq(Message)
      /\ Laid(feed \o Announced) \in Seq(Feed!Datagram)
  BY StreamType
<1>2. InHand' = InHand /\ network'[Me] = network[Me]
  BY DEF platformvars, InHand
<1>3. Laid(new) \in Seq(Feed!Datagram)
  BY LaidType
<1>4. Laid(feed \o Announced)' = Laid((feed \o Announced) \o new)
  BY DEF Laid
<1> DEFINE n == network[Me]
           h == InHand
           x == feed \o Announced
           y == Laid(x)
           z == Laid(new)
<1>5. Laid(x \o new) = y \o z
  BY <1>1, LaidConcat
<1>6. Stream' = n \o (h \o (y \o z)) /\ Stream = n \o (h \o y)
  BY <1>2, <1>4, <1>5 DEF Stream
<1>7. n \in Seq(Feed!Datagram) /\ h \in Seq(Feed!Datagram) /\ y \in Seq(Feed!Datagram)
      /\ z \in Seq(Feed!Datagram)
  BY <1>1, <1>3
<1> HIDE DEF n, h, x, y, z
<1>8. h \o (y \o z) = (h \o y) \o z
  BY ONLY <1>7, ConcatAssociative
<1>9. h \o y \in Seq(Feed!Datagram)
  BY ONLY <1>7, ConcatProperties
<1>10. n \o ((h \o y) \o z) = (n \o (h \o y)) \o z
  <2> DEFINE w == h \o y
  <2>1. n \in Seq(Feed!Datagram) /\ w \in Seq(Feed!Datagram) /\ z \in Seq(Feed!Datagram)
    BY <1>7, <1>9
  <2> HIDE DEF w
  <2>2. n \o (w \o z) = (n \o w) \o z
    BY ONLY <2>1, ConcatAssociative
  <2> QED BY <2>2 DEF w
<1> QED BY <1>6, <1>8, <1>10 DEF z

(* What nothing adds to stays as it is: so when a handler returns. *)
LEMMA StreamAlone ==
  ASSUME UNCHANGED platformvars, feed' \o Announced' = feed \o Announced
  PROVE  Stream' = Stream
<1>1. InHand' = InHand /\ network'[Me] = network[Me]
  BY DEF platformvars, InHand
<1>2. Laid(feed \o Announced)' = Laid(feed \o Announced)
  BY DEF Laid
<1> QED BY <1>1, <1>2 DEF Stream
-----------------------------------------------------------------------------
(***************************************************************************)
(* A handler: what it has sent and keeps, by where it is.  One that        *)
(* re-prices an order has announced the cancel and still holds the order.  *)
(***************************************************************************)
Changing == pc \in {"add", "fill", "report", "place"}
Repricing == sent # << >> /\ sent[1].kind = "cancelled" /\ order # Book!NoOrder

HandlerShape ==
  /\ pc = "idle" => sent = << >> /\ order = Book!NoOrder /\ fills = << >>
  /\ pc = "report" => order.qty # 0 \/ fills # << >>
  /\ pc = "return" /\ Repricing => Len(sent) > 1
  /\ \A k \in DOMAIN sent : sent[k].kind = "added" => pc = "return"
  /\ \A k \in DOMAIN sent : sent[k].kind = "modified" => pc = "return" /\ Len(sent) = 1

(* A request starts it, *)
LEMMA ShapeRequest ==
  ASSUME HandlerShape, Request \/ UserTypes
  PROVE  HandlerShape'
<1>1. CASE UNCHANGED bookvars
  BY <1>1 DEF bookvars, HandlerShape, Repricing
<1>2. ASSUME NEW u, NEW s, NEW p, NEW q, Book!AddOrder(u, s, p, q)
      PROVE  HandlerShape'
  BY <1>2 DEF Book!AddOrder, Book!Idle, HandlerShape, Repricing
<1>3. ASSUME NEW i, NEW u, Book!CancelOrder(i, u)
      PROVE  HandlerShape'
  <2>1. pc = "idle" /\ order = Book!NoOrder /\ order' = order /\ pc' = "return"
    BY <1>3 DEF Book!CancelOrder, Book!Idle, Book!matching, HandlerShape
  <2>2. DOMAIN sent' = {1} /\ sent'[1].kind = "cancelled"
    BY <1>3 DEF Book!CancelOrder, Book!Cancelled
  <2> QED BY <2>1, <2>2 DEF HandlerShape, Repricing
<1>4. ASSUME NEW i, NEW u, NEW s, NEW p, NEW q, Book!ModifyQuantity(i, u, s, p, q)
      PROVE  HandlerShape'
  <2>1. pc = "idle" /\ order = Book!NoOrder /\ order' = order /\ pc' = "return"
    BY <1>4 DEF Book!ModifyQuantity, Book!Idle, Book!matching, HandlerShape
  <2>2. DOMAIN sent' = {1} /\ sent'[1].kind = "modified" /\ Len(sent') = 1
    BY <1>4 DEF Book!ModifyQuantity, Book!Modified
  <2> QED BY <2>1, <2>2 DEF HandlerShape, Repricing
<1>5. ASSUME NEW i, NEW u, NEW s, NEW p, NEW q, Book!ModifyPrice(i, u, s, p, q)
      PROVE  HandlerShape'
  <2>1. pc' = "add"
    BY <1>5 DEF Book!ModifyPrice
  <2>2. DOMAIN sent' = {1} /\ sent'[1].kind = "cancelled"
    BY <1>5 DEF Book!ModifyPrice, Book!Cancelled
  <2> QED BY <2>1, <2>2 DEF HandlerShape, Repricing
<1> QED BY <1>1, <1>2, <1>3, <1>4, <1>5, UserIsBooks DEF Request

(* and its steps go on. *)
LEMMA ShapeHandler ==
  ASSUME Book!TypeOK, OrderModest, HandlerShape, Book!Handler
  PROVE  HandlerShape'
<1>1. CASE Book!StartMatch \/ Book!NothingToMatch \/ Book!ReadErasedLimit
  <2>1. /\ UNCHANGED <<order, fills, sent>> \/ UNCHANGED <<Book!matching, fills, sent>>
        /\ pc \in {"add", "fill"} /\ pc' \in {"fill", "place"}
    BY <1>1 DEF Book!StartMatch, Book!NothingToMatch, Book!ReadErasedLimit, Book!At
  <2> QED BY <2>1 DEF HandlerShape, Book!matching
<1>2. CASE Book!FillResting \/ Book!FillIncoming
  <2>1. sent' = sent /\ pc = "fill" /\ pc' \in {"fill", "report"}
    BY <1>2 DEF Book!FillResting, Book!FillIncoming, Book!At
  <2>2. Len(fills') = Len(fills) + 2 /\ Len(fills) \in Nat
    BY <1>2, MatchAppended
  <2>3. fills' # << >>
    BY <2>2, EmptySeq
  <2> QED BY <2>1, <2>3 DEF HandlerShape
<1>3. CASE Book!NextLevel
  <2>1. sent' = sent /\ pc = "fill" /\ pc' \in {"fill", "report"} /\ order' = order
    BY <1>3 DEF Book!NextLevel, Book!At
  <2>2. order.qty # 0
    BY <2>1 DEF OrderModest, Modest
  <2> QED BY <2>1, <2>2 DEF HandlerShape
<1>4. CASE Book!CommunicateMatchResults
  <2>1. /\ pc = "report" /\ pc' = (IF order.qty = 0 THEN "return" ELSE "place")
        /\ order' = order /\ fills' = fills
    BY <1>4 DEF Book!CommunicateMatchResults, Book!At, Book!matching
  <2>2. /\ Len(sent) \in Nat /\ Len(fills) \in Nat
        /\ DOMAIN sent = 1 .. Len(sent) /\ DOMAIN sent' = 1 .. Len(sent) + Len(fills)
        /\ Len(sent') = Len(sent) + Len(fills)
        /\ \A k \in 1 .. Len(sent) : sent'[k] = sent[k]
        /\ \A k \in 1 .. Len(fills) : sent'[Len(sent) + k].kind = "fill"
        /\ \A k \in DOMAIN sent' : k > Len(sent) =>
             \E j \in 1 .. Len(fills) : k = Len(sent) + j
    <3>1. \A k \in 1 .. Len(fills) : sent'[Len(sent) + k].kind = "fill"
      <4> SUFFICES ASSUME NEW k \in 1 .. Len(fills) PROVE sent'[Len(sent) + k].kind = "fill"
        OBVIOUS
      <4>1. sent'[Len(sent) + k] =
              [kind |-> "fill", to |-> fills[k].connection, id |-> order.id,
               qty |-> fills[k].qty, full |-> fills[k].full]
        BY <1>4, FillsAppended
      <4> QED BY <4>1
    <3> QED BY <1>4, <3>1, FillsAppended
  <2>3. \A k \in DOMAIN sent' :
          (k \in DOMAIN sent /\ sent'[k] = sent[k]) \/ sent'[k].kind = "fill"
    BY <2>2
  <2>4. \A k \in DOMAIN sent' : sent'[k].kind \notin {"added", "modified"}
    BY <2>1, <2>3 DEF HandlerShape
  <2>5. ASSUME pc' = "return", Repricing'
        PROVE  Len(sent') > 1
    <3>1. order.qty = 0 /\ fills # << >>
      BY <2>1, <2>5 DEF HandlerShape
    <3>2. Len(fills) > 0
      <4>1. fills \in Seq(Book!FillRecord)
        BY DEF Book!TypeOK
      <4> QED BY <2>2, <3>1, <4>1, EmptySeq
    <3>3. 1 \in DOMAIN sent' /\ sent'[1].kind = "cancelled"
      BY <2>2, <2>5, <3>2 DEF Repricing
    <3>4. 1 \in DOMAIN sent
      BY <2>3, <3>3
    <3> QED BY <2>2, <3>2, <3>4
  <2> QED BY <2>1, <2>4, <2>5 DEF HandlerShape
<1>5. CASE Book!PlaceOrder
  <2>1. pc = "place" /\ pc' = "return"
    BY <1>5 DEF Book!PlaceOrder, Book!At
  <2>2. /\ Len(sent) \in Nat /\ DOMAIN sent = 1 .. Len(sent)
        /\ Len(sent') = Len(sent) + 1 /\ DOMAIN sent' = 1 .. Len(sent) + 1
        /\ \A k \in 1 .. Len(sent) : sent'[k] = sent[k]
        /\ sent'[Len(sent) + 1].kind = "added"
    BY <1>5, AddAppended DEF Book!Added
  <2>3. \A k \in DOMAIN sent' : \/ k \in DOMAIN sent /\ sent'[k] = sent[k]
                                \/ k = Len(sent) + 1 /\ sent'[k].kind = "added"
    BY <2>2
  <2>4. \A k \in DOMAIN sent' : sent'[k].kind # "modified"
    BY <2>1, <2>3 DEF HandlerShape
  <2>5. Repricing' => Len(sent') > 1
    <3>1. 1 \in DOMAIN sent'
      BY <2>2
    <3>2. Repricing' => 1 \in DOMAIN sent
      BY <2>3, <3>1 DEF Repricing
    <3> QED BY <2>2, <3>2
  <2> QED BY <2>1, <2>4, <2>5 DEF HandlerShape
<1>6. CASE Book!Return
  <2>1. pc' = "idle" /\ order' = Book!NoOrder /\ fills' = << >> /\ sent' = << >>
    BY <1>6 DEF Book!Return
  <2> QED BY <2>1 DEF HandlerShape
<1> QED BY <1>1, <1>2, <1>3, <1>4, <1>5, <1>6 DEF Book!Handler

(* Every step keeps the shape. *)
LEMMA ShapeStepOK ==
  ASSUME MarketInv, SmallInv, HandlerShape, [Next]_vars
  PROVE  HandlerShape'
<1>1. CASE Request \/ UserTypes
  BY <1>1, ShapeRequest
<1>2. CASE Handle \/ Publish
  <2>1. Book!Handler
    BY <1>2 DEF Handle, Publish, Book!Handler
  <2> QED BY <2>1, ShapeHandler DEF MarketInv, SmallInv, ModestBook
<1>3. CASE UNCHANGED bookvars
  BY <1>3 DEF bookvars, HandlerShape, Repricing
<1> QED BY <1>1, <1>2, <1>3 DEF Next, OtherAdds, PlatformReads, PlatformSteps, Deliver, Lose,
           UserSubscribes, FillArrives, vars
-----------------------------------------------------------------------------
(***************************************************************************)
(* What the platform and the network do to what is to come: it moves on,   *)
(* or its first datagrams are lost or reach the client.                    *)
(***************************************************************************)
Rest == Laid(feed \o Announced)

(* The message in hand is passed over, *)
LEMMA HandDropped ==
  ASSUME MarketInv, UNCHANGED <<feed, sent>>, network'[Me] = network[Me],
         NEW x \in Feed!Datagram, InHand = <<x>>, InHand' = << >>
  PROVE  Dropped(Stream, Stream', Len(network[Me]) + 1)
<1>1. network[Me] \in Seq(Feed!Datagram) /\ Rest \in Seq(Feed!Datagram)
  BY StreamType DEF Rest
<1>2. Rest' = Rest
  BY DEF Rest, Laid, Announced
<1>3. Stream = network[Me] \o (<<x>> \o Rest) /\ Stream' = network[Me] \o (<< >> \o Rest)
  BY <1>2 DEF Stream, Rest
<1> HIDE DEF Rest
<1> QED BY <1>1, <1>3, DropMiddle

(* stays, *)
LEMMA HandSame ==
  ASSUME UNCHANGED <<feed, sent>>, network'[Me] = network[Me], InHand' = InHand
  PROVE  Stream' = Stream
BY DEF Stream, Laid, Announced

(* or is sent. *)
LEMMA HandSent ==
  ASSUME MarketInv, UNCHANGED <<feed, sent>>, NEW x \in Feed!Datagram,
         network'[Me] = Append(network[Me], x), InHand = <<x>>, InHand' = << >>
  PROVE  Stream' = Stream
<1>1. network[Me] \in Seq(Feed!Datagram) /\ Rest \in Seq(Feed!Datagram)
  BY StreamType DEF Rest
<1>2. Rest' = Rest
  BY DEF Rest, Laid, Announced
<1> DEFINE n == network[Me]
           y == <<x>>
<1>3. Stream = n \o (y \o Rest) /\ Stream' = Append(n, x) \o (<< >> \o Rest)
  BY <1>2 DEF Stream, Rest
<1>4. Append(n, x) = n \o y /\ y \in Seq(Feed!Datagram)
  BY <1>1, AppendIsConcat
<1>5. << >> \o Rest = Rest
  BY <1>1, ConcatEmptySeq
<1>6. n \in Seq(Feed!Datagram)
  BY <1>1
<1> HIDE DEF Rest, n, y
<1>7. (n \o y) \o Rest = n \o (y \o Rest)
  BY ONLY <1>1, <1>4, <1>6, ConcatAssociative
<1> QED BY <1>3, <1>4, <1>5, <1>7

(* The first datagram leaves the network. *)
LEMMA FirstTaken ==
  ASSUME MarketInv, UNCHANGED bookvars, UNCHANGED feed, 1 \in DOMAIN network[Me], TakenFrom(1)
  PROVE  Dropped(Stream, Stream', 1) /\ Stream[1] = network[Me][1]
<1>1. /\ network[Me] \in Seq(Feed!Datagram) /\ network'[Me] = RemoveAt(network[Me], 1)
      /\ 1 \in 1 .. Len(network[Me])
  BY TakenOK DEF MarketInv
<1>2. InHand \in Seq(Feed!Datagram) /\ Rest \in Seq(Feed!Datagram)
  BY StreamType DEF Rest
<1>3. Rest' = Rest
  BY DEF Rest, Laid, Announced, bookvars
<1>4. InHand' = InHand
  BY DEF TakenFrom, InHand
<1> DEFINE n == network[Me]
           r == RemoveAt(n, 1)
           b == InHand \o Rest
<1>5. /\ r \in Seq(Feed!Datagram) /\ Len(r) = Len(n) - 1
      /\ \A j \in 1 .. Len(n) - 1 : r[j] = IF j < 1 THEN n[j] ELSE n[j + 1]
  BY <1>1, RemoveAtSeq
<1>6. Stream = n \o b /\ Stream' = r \o b
  BY <1>1, <1>3, <1>4 DEF Stream, Rest
<1>7. n \in Seq(Feed!Datagram) /\ 1 \in 1 .. Len(n)
  BY <1>1
<1> HIDE DEF Rest, InHand, n, r
<1>8. b \in Seq(Feed!Datagram)
  BY <1>2, ConcatProperties
<1>9. Dropped(n, r, 1)
  BY <1>5, <1>7 DEF Dropped
<1> HIDE DEF b
<1> QED BY <1>5, <1>6, <1>7, <1>8, <1>9, DropFirst DEF n

-----------------------------------------------------------------------------
(* Datagrams are not lost. *)
Lossless == faults \subseteq {"late"}

(* Nothing waits; the client subscribes once, before the first datagram,   *)
(* and stays subscribed as long as no send fails.                          *)
Subscribed ==
  /\ waiting = << >>
  /\ asking \cap subscribers = {}
  /\ asking # {} => "late" \in faults
  /\ Lossless => Me \in subscribers \cup asking
  /\ Me \in asking => network[Me] = << >> /\ DOMAIN orders = {}
  /\ \A c \in Client : failed[c] > 0 => "error" \in faults

Unmoved == Stream' = Stream /\ orders' = orders
LosesOne == /\ orders' = orders
            /\ \E n : /\ Dropped(Stream, Stream', n)
                      /\ ~Lossless \/ (n = 1 /\ DOMAIN orders = {} /\ faults # {})
HandsOver == Dropped(Stream, Stream', 1) /\ Feed!Receive(Stream[1])

(* The client subscribes: it may be late for the datagram in the loop. *)
LEMMA AcceptMoves ==
  ASSUME MarketInv, InOrder, Subscribed, UNCHANGED <<feed, sent, orders>>,
         NEW c \in Client, Platform!Accept(c)
  PROVE  Subscribed' /\ (Unmoved \/ LosesOne)
<1>1. /\ c = Me /\ Client = {Me} /\ Me \in asking /\ network[Me] = << >> /\ DOMAIN orders = {}
      /\ faults # {}
  BY DEF Platform!Accept, Subscribed, InOrder
<1>2. /\ asking' = asking \ {Me} /\ subscribers' = subscribers \cup {Me}
      /\ UNCHANGED <<faults, waiting, failed, network, reader, buffer, market_data>>
      /\ reader # "send" => tosend' = tosend
  BY <1>1 DEF Platform!Accept, Platform!InLoop
<1>3. Subscribed'
  BY <1>2 DEF Subscribed, Lossless
<1>4. CASE reader # "send"
  <2>1. InHand' = InHand
    BY <1>2, <1>4 DEF InHand
  <2> QED BY <1>2, <1>3, <2>1, HandSame DEF Unmoved
<1>5. CASE reader = "send" /\ Me \in tosend'
  <2>1. InHand' = InHand
    BY <1>1, <1>2, <1>5 DEF InHand
  <2> QED BY <1>2, <1>3, <2>1, HandSame DEF Unmoved
<1>6. CASE reader = "send" /\ Me \notin tosend'
  <2>1. InHand = <<buffer>> /\ InHand' = << >> /\ buffer \in Feed!Datagram
    BY <1>1, <1>2, <1>6 DEF InHand, MarketInv, Platform!PlatformInv, Platform!Filled
  <2>2. Dropped(Stream, Stream', Len(network[Me]) + 1)
    BY <1>2, <2>1, HandDropped
  <2>3. Len(network[Me]) + 1 = 1
    BY <1>1
  <2> QED BY <1>1, <1>3, <2>2, <2>3 DEF LosesOne
<1> QED BY <1>4, <1>5, <1>6

(* The message is copied; a client that an error has unsubscribed, or that *)
(* is not yet subscribed, is not sent it.                                  *)
LEMMA SerialiseMoves ==
  ASSUME MarketInv, InOrder, Subscribed, UNCHANGED <<feed, sent, orders>>,
         Platform!SerialiseMarketData
  PROVE  Subscribed' /\ (Unmoved \/ LosesOne)
<1>1. /\ reader = "serialise" /\ reader' = "send" /\ buffer' = Layout(market_data)
      /\ tosend' = subscribers
      /\ UNCHANGED <<faults, asking, subscribers, waiting, failed, network>>
  BY DEF Platform!SerialiseMarketData, Platform!Serialised, Platform!rvars
<1>2. Subscribed'
  BY <1>1 DEF Subscribed, Lossless
<1>3. InHand = <<Layout(market_data)>> /\ Layout(market_data) \in Feed!Datagram
  BY <1>1, LayoutType DEF InHand, MarketInv, Platform!PlatformInv, Platform!Filled
<1>4. CASE Me \in subscribers \cup asking
  <2>1. InHand' = InHand
    BY <1>1, <1>4 DEF InHand
  <2> QED BY <1>1, <1>2, <2>1, HandSame DEF Unmoved
<1>5. CASE Me \notin subscribers \cup asking
  <2>1. InHand' = << >> /\ ~Lossless
    BY <1>1, <1>5 DEF InHand, Subscribed
  <2>2. Dropped(Stream, Stream', Len(network[Me]) + 1)
    BY <1>1, <1>3, <2>1, HandDropped
  <2> QED BY <1>2, <2>1, <2>2 DEF LosesOne
<1> QED BY <1>4, <1>5

(* The loop ends without a client that is not yet subscribed. *)
LEMMA LoopEndMoves ==
  ASSUME MarketInv, InOrder, Subscribed, UNCHANGED <<feed, sent, orders>>,
         Platform!NextMessage
  PROVE  Subscribed' /\ (Unmoved \/ LosesOne)
<1>1. /\ reader = "send" /\ tosend = {} /\ reader' = "read"
      /\ UNCHANGED <<faults, asking, subscribers, waiting, failed, network>>
  BY DEF Platform!NextMessage, Platform!InLoop, Platform!rvars
<1>2. Subscribed'
  BY <1>1 DEF Subscribed, Lossless
<1>3. InHand' = << >>
  BY <1>1 DEF InHand
<1>4. CASE Me \in asking
  <2>1. InHand = <<buffer>> /\ buffer \in Feed!Datagram
    BY <1>1, <1>4 DEF InHand, MarketInv, Platform!PlatformInv, Platform!Filled
  <2>2. Dropped(Stream, Stream', Len(network[Me]) + 1)
    BY <1>1, <1>3, <2>1, HandDropped
  <2>3. Len(network[Me]) + 1 = 1 /\ DOMAIN orders = {} /\ faults # {}
    BY <1>4 DEF Subscribed
  <2> QED BY <1>2, <2>2, <2>3 DEF LosesOne
<1>5. CASE Me \notin asking
  <2>1. InHand = << >>
    BY <1>1, <1>5 DEF InHand
  <2> QED BY <1>1, <1>2, <1>3, <2>1, HandSame DEF Unmoved
<1> QED BY <1>4, <1>5

(* A send to the client takes the message in hand, and one that fails      *)
(* loses it; the others do not concern it.                                 *)
LEMMA SendMoves ==
  ASSUME MarketInv, InOrder, Subscribed, UNCHANGED <<feed, sent, orders>>,
         NEW c \in Client, Platform!SendNow(c) \/ Platform!SendLater(c)
  PROVE  Subscribed' /\ (Unmoved \/ LosesOne)
<1>1. /\ reader = "send" /\ c \in tosend /\ tosend' = tosend \ {c}
      /\ UNCHANGED <<faults, asking, subscribers, reader, buffer, waiting>>
      /\ \/ Platform!Put(c, buffer) /\ UNCHANGED failed
         \/ Platform!Fail(c) /\ UNCHANGED network
  BY DEF Platform!SendNow, Platform!SendLater, Platform!Visit, Platform!InLoop,
         Platform!rvars, InOrder
<1>2. /\ network \in [Client -> Seq(Feed!Datagram)] /\ failed \in [Client -> Nat]
      /\ tosend \subseteq subscribers /\ buffer \in Feed!Datagram /\ Me \in Client
  BY <1>1, MarketDataAssumption
     DEF MarketInv, Platform!PlatformInv, Platform!Loop, Platform!Filled
<1>3. \A d \in Client : failed'[d] > 0 => "error" \in faults
  BY <1>1, <1>2 DEF Subscribed, Platform!Fail
<1>4. c \notin asking
  BY <1>1, <1>2 DEF Subscribed
<1>5. \A d \in Client : d # c => network'[d] = network[d]
  BY <1>1, <1>2 DEF Platform!Put
<1>6. Subscribed'
  <2>1. Me \in asking => network'[Me] = network[Me]
    BY <1>2, <1>4, <1>5
  <2> QED BY <1>1, <1>3, <2>1 DEF Subscribed, Lossless
<1>7. CASE c # Me
  <2>1. InHand' = InHand
    BY <1>1, <1>7 DEF InHand
  <2> QED BY <1>2, <1>5, <1>6, <1>7, <2>1, HandSame DEF Unmoved
<1>8. CASE c = Me
  <2>1. InHand = <<buffer>> /\ InHand' = << >>
    BY <1>1, <1>4, <1>8 DEF InHand
  <2>2. CASE Platform!Put(c, buffer)
    <3>1. network'[Me] = Append(network[Me], buffer)
      BY <1>2, <1>8, <2>2 DEF Platform!Put
    <3> QED BY <1>2, <1>6, <2>1, <3>1, HandSent DEF Unmoved
  <2>3. CASE Platform!Fail(c) /\ UNCHANGED network
    <3>1. Dropped(Stream, Stream', Len(network[Me]) + 1)
      BY <1>2, <2>1, <2>3, HandDropped
    <3>2. ~Lossless
      BY <2>3 DEF Platform!Fail, Lossless
    <3> QED BY <1>6, <3>1, <3>2 DEF LosesOne
  <2> QED BY <1>1, <2>2, <2>3
<1> QED BY <1>7, <1>8

(* A failed send unsubscribes its client. *)
LEMMA SendFailedMoves ==
  ASSUME MarketInv, InOrder, Subscribed, UNCHANGED <<feed, sent, orders>>,
         NEW c \in Client, Platform!SendFailed(c)
  PROVE  Subscribed' /\ (Unmoved \/ LosesOne)
<1>1. /\ subscribers' = subscribers \ {c} /\ tosend' = tosend \ {c}
      /\ failed[c] > 0 /\ failed' = [failed EXCEPT ![c] = failed[c] - 1]
      /\ UNCHANGED <<faults, asking, reader, buffer, market_data, waiting, network>>
  BY DEF Platform!SendFailed, Platform!rvars
<1>2. failed \in [Client -> Nat] /\ Me \in Client
  BY MarketDataAssumption DEF MarketInv, Platform!PlatformInv, Platform!Loop
<1>3. "error" \in faults /\ ~Lossless
  BY <1>1 DEF Subscribed, Lossless
<1>4. Subscribed'
  BY <1>1, <1>2, <1>3 DEF Subscribed, Lossless
<1>5. CASE InHand' = InHand
  BY <1>1, <1>4, <1>5, HandSame DEF Unmoved
<1>6. CASE InHand' # InHand
  <2>1. InHand = <<buffer>> /\ InHand' = << >> /\ buffer \in Feed!Datagram
    BY <1>1, <1>6 DEF InHand, MarketInv, Platform!PlatformInv, Platform!Filled
  <2>2. Dropped(Stream, Stream', Len(network[Me]) + 1)
    BY <1>1, <2>1, HandDropped
  <2> QED BY <1>3, <1>4, <2>2 DEF LosesOne
<1> QED BY <1>5, <1>6
-----------------------------------------------------------------------------
(* Announcements that are left come from those there were, *)
LEMMA AnnouncedBefore ==
  ASSUME NEW S, NEW s \in Seq(S), NEW t \in Seq(S), NEW n, Dropped(s, t, n), NEW K, NEW K1, NEW i,
         i \in K1 => i \in K \/ (s[1].kind = "added" /\ s[1].id = i),
         NEW a \in 0 .. Len(t), Announces(t, K1, a, i)
  PROVE  \E b \in 0 .. Len(s) : Announces(s, K, b, i)
<1>1. /\ Len(s) \in Nat /\ n \in 1 .. Len(s) /\ Len(t) = Len(s) - 1
      /\ \A j \in 1 .. Len(s) - 1 : t[j] = s[IF j < n THEN j ELSE j + 1]
  BY LenProperties DEF Dropped
<1>2. CASE a = 0
  <2>1. i \in K \/ (s[1].kind = "added" /\ s[1].id = i)
    BY <1>2 DEF Announces
  <2>2. 0 \in 0 .. Len(s) /\ 1 \in 0 .. Len(s)
    BY <1>1
  <2> QED BY <2>1, <2>2 DEF Announces
<1>3. CASE a # 0
  <2> DEFINE b == IF a < n THEN a ELSE a + 1
  <2>1. b \in 0 .. Len(s) /\ b # 0 /\ t[a] = s[b]
    BY <1>1, <1>3
  <2> HIDE DEF b
  <2>2. Announces(s, K, b, i)
    BY <1>3, <2>1 DEF Announces
  <2> QED BY <2>1, <2>2
<1> QED BY <1>2, <1>3

(* or are new. *)
LEMMA AnnouncedMore ==
  ASSUME NEW S, NEW s \in Seq(S), NEW new \in Seq(S), NEW K, NEW i,
         NEW a \in 0 .. Len(s \o new), Announces(s \o new, K, a, i)
  PROVE  \/ a \in 0 .. Len(s) /\ Announces(s, K, a, i)
         \/ \E k \in DOMAIN new : /\ a = Len(s) + k
                                  /\ new[k].kind = "added" /\ new[k].id = i
<1> DEFINE t == s \o new
<1>1. /\ Len(s) \in Nat /\ Len(new) \in Nat /\ Len(t) = Len(s) + Len(new)
      /\ DOMAIN new = 1 .. Len(new)
      /\ \A j \in 1 .. Len(s) : t[j] = s[j]
      /\ \A j \in 1 .. Len(s) + Len(new) :
           j \notin 1 .. Len(s) => j - Len(s) \in 1 .. Len(new) /\ t[j] = new[j - Len(s)]
  BY ConcatAt, LenProperties
<1>2. a \in 0 .. Len(t) /\ Announces(t, K, a, i)
  OBVIOUS
<1> HIDE DEF t
<1>3. CASE a \in 0 .. Len(s)
  BY <1>1, <1>2, <1>3 DEF Announces
<1>4. CASE a \notin 0 .. Len(s)
  <2>1. a - Len(s) \in DOMAIN new /\ t[a] = new[a - Len(s)] /\ a # 0 /\ a = Len(s) + (a - Len(s))
    BY <1>1, <1>2, <1>4
  <2>2. new[a - Len(s)].kind = "added" /\ new[a - Len(s)].id = i
    BY <1>2, <2>1 DEF Announces
  <2> QED BY <2>1, <2>2
<1> QED BY <1>3, <1>4

(* What ends stays ended, *)
LEMMA FreeMore ==
  ASSUME NEW S, NEW s \in Seq(S), NEW new \in Seq(S), NEW K, NEW L, NEW i, Free(s, K, L, i),
         \A k \in DOMAIN new : new[k].kind # "added"
  PROVE  Free(s \o new, K, L, i)
<1> DEFINE t == s \o new
<1>1. /\ Len(s) \in Nat /\ Len(new) \in Nat /\ Len(t) = Len(s) + Len(new)
      /\ \A j \in 1 .. Len(s) : t[j] = s[j]
  BY ConcatAt, LenProperties
<1> SUFFICES ASSUME NEW a \in 0 .. Len(t), Announces(t, K, a, i)
             PROVE  L /\ Ended(t, a, Len(t) + 1, i)
  BY DEF Free
<1>2. a \in 0 .. Len(s) /\ Announces(s, K, a, i)
  BY AnnouncedMore
<1>3. L /\ Ended(s, a, Len(s) + 1, i)
  BY <1>2 DEF Free
<1> HIDE DEF t
<1>4. PICK c \in a + 1 .. Len(s) : Ends(s, c, i)
  BY <1>1, <1>3 DEF Ended
<1>5. c \in a + 1 .. Len(t) /\ Ends(t, c, i)
  BY <1>1, <1>2, <1>4 DEF Ends
<1> QED BY <1>1, <1>3, <1>5 DEF Ended

(* and a cancellation ends everything before it. *)
LEMMA FreeByCancel ==
  ASSUME NEW S, NEW s \in Seq(S), NEW new \in Seq(S), NEW K, NEW i, Len(new) = 1,
         new[1].kind = "cancelled", new[1].id = i
  PROVE  Free(s \o new, K, TRUE, i)
<1> DEFINE t == s \o new
<1>1. /\ Len(s) \in Nat /\ Len(t) = Len(s) + 1 /\ DOMAIN new = {1}
      /\ t[Len(s) + 1] = new[1]
  BY ConcatAt, LenProperties
<1> SUFFICES ASSUME NEW a \in 0 .. Len(t), Announces(t, K, a, i)
             PROVE  Ended(t, a, Len(t) + 1, i)
  BY DEF Free
<1>2. a \in 0 .. Len(s)
  BY <1>1, AnnouncedMore
<1>3. Ends(t, Len(s) + 1, i) /\ Len(s) + 1 \in a + 1 .. Len(t)
  BY <1>1, <1>2 DEF Ends
<1> HIDE DEF t
<1> QED BY <1>1, <1>3 DEF Ended

(* What a datagram can add to the client's orders and what it takes. *)
LEMMA ReceiveKnown ==
  ASSUME NEW m, Feed!Receive(m)
  PROVE  /\ \A i \in DOMAIN orders' : i \in DOMAIN orders \/ (m.kind = "added" /\ m.id = i)
         /\ m.kind = "cancelled" => m.id \notin DOMAIN orders'
<1>1. CASE Feed!AddOrder(m)
  BY <1>1 DEF Feed!AddOrder, Feed!Put
<1>2. CASE Feed!CancelOrder(m)
  BY <1>2 DEF Feed!CancelOrder, Feed!Without, Feed!Restrict
<1>3. CASE Feed!ModifyOrder(m)
  BY <1>3 DEF Feed!ModifyOrder
<1>4. CASE Feed!FillOrder(m)
  BY <1>4 DEF Feed!FillOrder, Feed!Without, Feed!Restrict
<1>5. CASE Feed!UnknownOrder(m)
  BY <1>5 DEF Feed!UnknownOrder
<1> QED BY <1>1, <1>2, <1>3, <1>4, <1>5 DEF Feed!Receive

-----------------------------------------------------------------------------
(* The message that is read is the first of the feed. *)
LEMMA ReadMoves ==
  ASSUME MarketInv, HandlerShape, pc = "idle", Subscribed, PlatformReads
  PROVE  Subscribed' /\ Unmoved
<1>1. /\ feed # << >> /\ feed' = Tail(feed) /\ reader = "read" /\ reader' = "serialise"
      /\ market_data' = Head(feed)
      /\ UNCHANGED <<faults, asking, subscribers, waiting, failed, network>>
      /\ UNCHANGED <<orders, sent>>
  BY DEF PlatformReads, Platform!Read, Platform!rvars, bookvars, clientvars
<1>2. Subscribed'
  BY <1>1 DEF Subscribed, Lossless
<1>3. sent = << >> /\ sent' = << >> /\ Announced = << >> /\ Announced' = << >>
  BY <1>1 DEF HandlerShape, Announced
<1>4. feed \in Seq(Message) /\ network[Me] \in Seq(Feed!Datagram)
  BY StreamType
<1> DEFINE h == Head(feed)
           y == <<h>>
           r == Tail(feed)
           n == network[Me]
<1>5. /\ h \in Message /\ r \in Seq(Message) /\ feed = y \o r /\ y \in Seq(Message)
      /\ Laid(y) = <<Layout(h)>>
  <2>1. /\ h \in Message /\ h = feed[1] /\ Len(feed) \in Nat /\ Len(feed) # 0
        /\ r \in Seq(Message) /\ Len(r) = Len(feed) - 1
        /\ \A i \in 1 .. Len(feed) - 1 : r[i] = feed[i + 1]
    BY <1>1, <1>4, HeadTailProperties, LenProperties, EmptySeq
  <2>2. y \in Seq(Message) /\ Len(y) = 1 /\ y[1] = h
    BY <2>1
  <2> HIDE DEF y, r, h
  <2>3. /\ y \o r \in Seq(Message) /\ Len(y \o r) = 1 + Len(r)
        /\ \A j \in 1 .. 1 + Len(r) : (y \o r)[j] = IF j <= 1 THEN y[j] ELSE r[j - 1]
    <3>1. /\ y \o r \in Seq(Message) /\ Len(y \o r) = Len(y) + Len(r)
          /\ \A j \in 1 .. Len(y) + Len(r) :
               (y \o r)[j] = IF j <= Len(y) THEN y[j] ELSE r[j - Len(y)]
      <4>1. y \in Seq(Message) /\ r \in Seq(Message)
        BY <2>1, <2>2
      <4> QED BY ONLY <4>1, ConcatProperties
    <3> QED BY <2>2, <3>1
  <2>4. \A j \in 1 .. Len(feed) : (y \o r)[j] = feed[j]
    BY <2>1, <2>2, <2>3
  <2>5. feed = y \o r
    BY <1>4, <2>1, <2>3, <2>4, SeqEqual
  <2>6. Laid(y) = <<Layout(h)>>
    BY DEF Laid, y
  <2> QED BY <2>1, <2>2, <2>5, <2>6
<1>6. /\ feed \o Announced = feed /\ feed' \o Announced' = r
  BY <1>1, <1>3, <1>4, <1>5, ConcatEmptySeq
<1>7. Laid(feed) = <<Layout(h)>> \o Laid(r) /\ Laid(r) \in Seq(Feed!Datagram)
  <2>1. Laid(y \o r) = Laid(y) \o Laid(r)
    BY <1>5, LaidConcat
  <2> QED BY <1>5, <2>1, LaidType
<1>8. InHand = << >> /\ InHand' = <<Layout(h)>>
  BY <1>1 DEF InHand
<1>9. Stream = n \o (<< >> \o Laid(feed))
  BY <1>6, <1>8 DEF Stream
<1>10. Stream' = n \o (<<Layout(h)>> \o Laid(r))
  <2>1. Laid(feed \o Announced)' = Laid(r)
    BY <1>6 DEF Laid
  <2> QED BY <1>1, <1>8, <2>1 DEF Stream
<1>11. << >> \o Laid(feed) = Laid(feed)
  BY <1>4, LaidType, ConcatEmptySeq
<1> QED BY <1>1, <1>2, <1>7, <1>9, <1>10, <1>11 DEF Unmoved

(* Every step of the platform and the network is of one of the three kinds. *)
LEMMA TransportMoves ==
  ASSUME MarketInv, HandlerShape, InOrder, pc = "idle", Subscribed,
         PlatformReads \/ PlatformSteps \/ Deliver \/ Lose
  PROVE  Subscribed' /\ (Unmoved \/ LosesOne \/ (Deliver /\ HandsOver))
<1>1. CASE PlatformReads
  BY <1>1, ReadMoves
<1>2. CASE PlatformSteps
  <2>1. Platform!PlatformStep /\ UNCHANGED <<feed, sent, orders>>
    BY <1>2 DEF PlatformSteps, bookvars, clientvars, restvars
  <2>2. CASE Platform!Transmit
    BY <2>2 DEF Subscribed, Platform!Transmit
  <2>3. CASE Platform!AcceptFails
    <3>1. /\ UNCHANGED <<faults, asking, subscribers, waiting, failed, network, reader,
                         market_data, buffer, tosend>>
      BY <2>3 DEF Platform!AcceptFails
    <3>2. Subscribed' /\ InHand' = InHand
      BY <2>1, <3>1 DEF Subscribed, Lossless, InHand
    <3> QED BY <2>1, <3>1, <3>2, HandSame DEF Unmoved
  <2> QED BY <2>1, <2>2, <2>3, AcceptMoves, SerialiseMoves, LoopEndMoves, SendMoves,
             SendFailedMoves DEF Platform!PlatformStep
<1>3. ASSUME 1 \in DOMAIN network[Me], TakenFrom(1), UNCHANGED <<bookvars, restvars>>
      PROVE  /\ Dropped(Stream, Stream', 1) /\ Stream[1] = network[Me][1]
             /\ Subscribed'
  <2>1. Dropped(Stream, Stream', 1) /\ Stream[1] = network[Me][1]
    BY <1>3, FirstTaken DEF restvars
  <2>2. UNCHANGED <<faults, asking, subscribers, waiting, failed>> /\ Me \notin asking
    BY <1>3 DEF TakenFrom, Subscribed
  <2> QED BY <2>1, <2>2 DEF Subscribed, Lossless
<1>4. CASE Deliver
  <2>1. PICK n \in DOMAIN network[Me] : /\ n = 1 \/ "swap" \in faults
                                        /\ Feed!Receive(network[Me][n]) /\ TakenFrom(n)
    BY <1>4 DEF Deliver
  <2>2. n = 1
    BY <2>1 DEF InOrder
  <2>3. UNCHANGED <<bookvars, restvars>>
    BY <1>4 DEF Deliver
  <2> QED BY <1>3, <1>4, <2>1, <2>2, <2>3 DEF HandsOver
<1>5. CASE Lose
  <2>1. TakenFrom(1) /\ UNCHANGED <<bookvars, restvars>> /\ orders' = orders /\ ~Lossless
    BY <1>5 DEF Lose, clientvars, Lossless
  <2>2. 1 \in DOMAIN network[Me]
    <3>1. network[Me] \in Seq(Feed!Datagram) /\ network[Me] # << >>
      BY <1>5, StreamType DEF Lose
    <3> QED BY <3>1, LenProperties, EmptySeq
  <2> QED BY <1>3, <2>1, <2>2 DEF LosesOne
<1> QED BY <1>1, <1>2, <1>4, <1>5
-----------------------------------------------------------------------------
(***************************************************************************)
(* What is to come is about orders that the book has given out, and keeps  *)
(* the announcements of an order apart; without re-pricing, or with lost   *)
(* cancels nowhere, each order has at most one.                            *)
(***************************************************************************)
KnownOK ==
  \A i : \A a \in 0 .. Len(Stream) :
    Announces(Stream, DOMAIN orders, a, i) => i \in 1 .. orderid \/ (i = OtherOrder /\ other)

Tracked == Lossless \/ ~(repriced \/ Repricing)

StreamOK ==
  Tracked => /\ Separated(Stream, DOMAIN orders, Lossless)
             /\ Changing => Free(Stream, DOMAIN orders, Lossless, order.id)

(* The types of the next state. *)
StreamIsData == Stream \in Seq(Feed!Datagram) /\ Announced \in Seq(Message)

(* MarketInv gives them, in the next state as in this one.                 *)
LEMMA StreamTypeNext ==
  MarketInv' => Stream' \in Seq(Feed!Datagram) /\ Announced' \in Seq(Message)
<1>1. MarketInv => StreamIsData
  BY StreamType DEF StreamIsData
<1>2. MarketInv' => StreamIsData'
  BY <1>1, PTL
<1> QED BY <1>2 DEF StreamIsData

(* So it is when the platform, the network or the client acts. *)
LEMMA TransportKeeps ==
  ASSUME MarketInv, MarketInv', pc = "idle", KnownOK, StreamOK,
         UNCHANGED <<faults, repriced, other>>, UNCHANGED bookvars,
         Unmoved \/ LosesOne \/ HandsOver
  PROVE  KnownOK' /\ StreamOK'
<1>1. Stream \in Seq(Feed!Datagram)
  BY StreamType
<1>2. Stream' \in Seq(Feed!Datagram)
  BY StreamTypeNext
<1>3. /\ (Tracked' <=> Tracked) /\ Lossless' = Lossless /\ ~Changing'
      /\ orderid' = orderid /\ other' = other
  BY DEF Tracked, Lossless, Repricing, Changing, bookvars
<1> DEFINE s == Stream
           t == Stream'
           K == DOMAIN orders
           K1 == DOMAIN orders'
<1>4. CASE Unmoved
  BY <1>3, <1>4 DEF Unmoved, KnownOK, StreamOK
<1>5. ASSUME NEW n, Dropped(s, t, n), \A i \in K1 : i \in K \/ (s[1].kind = "added" /\ s[1].id = i)
      PROVE  KnownOK'
  <2> SUFFICES ASSUME NEW i, NEW a \in 0 .. Len(t), Announces(t, K1, a, i)
               PROVE  i \in 1 .. orderid \/ (i = OtherOrder /\ other)
    BY <1>3 DEF KnownOK
  <2>1. s \in Seq(Feed!Datagram) /\ t \in Seq(Feed!Datagram)
    BY <1>1, <1>2
  <2> HIDE DEF s, t, K, K1
  <2>2. \E b \in 0 .. Len(s) : Announces(s, K, b, i)
    BY <1>5, <2>1, AnnouncedBefore
  <2> QED BY <2>2 DEF KnownOK, s, K
<1>6. CASE LosesOne
  <2>1. PICK n : Dropped(s, t, n) /\ (~Lossless \/ (n = 1 /\ K = {}))
    BY <1>6 DEF LosesOne
  <2>2. K1 = K
    BY <1>6 DEF LosesOne
  <2>3. ASSUME Tracked
        PROVE  Separated(t, K1, Lossless)
    <3>1. Separated(s, K, Lossless)
      BY <2>3 DEF StreamOK
    <3>2. s \in Seq(Feed!Datagram) /\ t \in Seq(Feed!Datagram)
      BY <1>1, <1>2
    <3>3. Lossless \in BOOLEAN
      BY DEF Lossless
    <3> HIDE DEF s, t, K, K1
    <3>4. CASE ~Lossless
      <4>1. Separated(s, K, FALSE)
        BY <3>1, <3>4 DEF Separated
      <4>2. Separated(t, K, FALSE)
        BY <2>1, <3>2, <4>1, SeparatedDrop
      <4> QED BY <2>2, <3>4, <4>2 DEF Separated
    <3>5. CASE Lossless
      <4>1. n = 1 /\ K1 = {}
        BY <2>1, <2>2, <3>5
      <4>2. Dropped(s, t, 1)
        BY <2>1, <4>1
      <4> QED BY <3>1, <3>2, <4>1, <4>2, SeparatedDeliver
    <3> QED BY <3>4, <3>5
  <2>4. KnownOK'
    BY <1>5, <2>1, <2>2
  <2> QED BY <1>3, <2>3, <2>4 DEF StreamOK
<1>7. CASE HandsOver
  <2>1. /\ Dropped(s, t, 1)
        /\ \A i \in K1 : i \in K \/ (s[1].kind = "added" /\ s[1].id = i)
        /\ s[1].kind = "cancelled" => s[1].id \notin K1
    BY <1>7, ReceiveKnown DEF HandsOver
  <2>2. ASSUME Tracked
        PROVE  Separated(t, K1, Lossless)
    <3>1. Separated(s, K, Lossless)
      BY <2>2 DEF StreamOK
    <3>2. s \in Seq(Feed!Datagram) /\ t \in Seq(Feed!Datagram)
      BY <1>1, <1>2
    <3> HIDE DEF s, t, K, K1
    <3> QED BY <2>1, <3>1, <3>2, SeparatedDeliver
  <2>3. KnownOK'
    BY <1>5, <2>1
  <2> QED BY <1>3, <2>2, <2>3 DEF StreamOK
<1> QED BY <1>4, <1>6, <1>7

(* What the book sends comes last, one datagram per message. *)
DataOf(new) == Laid([k \in DOMAIN new |-> AsData(new[k])])

(* A message of the handler is one more datagram at the end of the stream. *)
LEMMA SentMoves ==
  ASSUME MarketInv, MarketInv', UNCHANGED platformvars, UNCHANGED feed,
         NEW new \in Seq(Book!Message), sent' = sent \o new
  PROVE  /\ Stream' = Stream \o DataOf(new)
         /\ DataOf(new) \in Seq(Feed!Datagram)
         /\ DOMAIN DataOf(new) = DOMAIN new /\ Len(DataOf(new)) = Len(new)
         /\ \A k \in DOMAIN new : /\ DataOf(new)[k] = Layout(AsData(new[k]))
                                  /\ new[k].kind # "reject"
                                  /\ DataOf(new)[k].kind = new[k].kind
                                  /\ DataOf(new)[k].id = new[k].id
<1> DEFINE f(s) == [k \in DOMAIN s |-> AsData(s[k])]
<1>1. sent \in Seq(Book!Message) /\ SentIsData /\ SentIsData'
  BY DEF MarketInv, Book!TypeOK
<1>2. /\ Len(sent) \in Nat /\ Len(new) \in Nat /\ DOMAIN sent = 1 .. Len(sent)
      /\ DOMAIN new = 1 .. Len(new)
      /\ DOMAIN sent' = 1 .. Len(sent) + Len(new)
      /\ \A j \in 1 .. Len(sent) : sent'[j] = sent[j]
      /\ \A j \in 1 .. Len(new) : sent'[Len(sent) + j] = new[j]
      /\ \A j \in 1 .. Len(sent) + Len(new) :
           j \notin 1 .. Len(sent) =>
             j - Len(sent) \in 1 .. Len(new) /\ sent'[j] = new[j - Len(sent)]
  BY <1>1, ConcatAt, LenProperties
<1>3. \A k \in DOMAIN new : new[k] \in Book!Message /\ new[k].kind # "reject"
  <2> SUFFICES ASSUME NEW k \in DOMAIN new
               PROVE  new[k] \in Book!Message /\ new[k].kind # "reject"
    OBVIOUS
  <2>1. Len(sent) + k \in DOMAIN sent' /\ sent'[Len(sent) + k] = new[k]
    BY <1>2
  <2> QED BY <1>1, <1>2, <2>1, ElementOfSeq DEF SentIsData
<1>4. \A k \in DOMAIN new : /\ AsData(new[k]) \in Message
                            /\ AsData(new[k]).kind = new[k].kind /\ AsData(new[k]).id = new[k].id
  BY <1>3, AsDataType
<1>5. f(new) \in Seq(Message) /\ DOMAIN f(new) = DOMAIN new /\ Len(f(new)) = Len(new)
  <2>1. f(new) \in [1 .. Len(new) -> Message]
    BY <1>2, <1>4
  <2> QED BY <1>2, <2>1
<1>6. /\ Announced \in Seq(Message) /\ feed \in Seq(Message) /\ Announced = f(sent)
      /\ Announced' = f(sent') /\ DOMAIN Announced = 1 .. Len(sent) /\ Len(Announced) = Len(sent)
  BY <1>2, StreamType, AnnouncedType DEF Announced, MarketInv
<1>7. Announced' \in Seq(Message) /\ Len(Announced') = Len(sent) + Len(new)
  <2>1. Announced' \in Seq(Message)
    BY StreamTypeNext
  <2>2. DOMAIN Announced' = 1 .. Len(sent) + Len(new)
    BY <1>2, <1>6
  <2> QED BY <1>2, <2>1, <2>2, LenProperties
<1>8. Announced' = Announced \o f(new)
  <2> DEFINE g == f(new)
             h == Announced
             u == h \o g
  <2>1. g \in Seq(Message) /\ h \in Seq(Message) /\ Len(g) = Len(new) /\ Len(h) = Len(sent)
    BY <1>5, <1>6
  <2>2. /\ \A j \in 1 .. Len(sent) : h[j] = AsData(sent[j])
        /\ \A j \in 1 .. Len(new) : g[j] = AsData(new[j])
    BY <1>2, <1>6
  <2> HIDE DEF g, h
  <2>3. /\ u \in Seq(Message) /\ Len(u) = Len(h) + Len(g)
        /\ \A j \in 1 .. Len(h) : u[j] = h[j]
        /\ \A j \in 1 .. Len(h) + Len(g) : j \notin 1 .. Len(h) =>
             j - Len(h) \in 1 .. Len(g) /\ u[j] = g[j - Len(h)]
    <3>1. g \in Seq(Message) /\ h \in Seq(Message)
      BY <2>1
    <3> QED BY ONLY <3>1, ConcatAt
  <2> HIDE DEF u
  <2>4. ASSUME NEW j \in 1 .. Len(sent) + Len(new)
        PROVE  Announced'[j] = u[j]
    <3>1. Announced'[j] = AsData(sent'[j])
      BY <1>2, <1>6
    <3>2. CASE j \in 1 .. Len(sent)
      BY <1>2, <2>1, <2>2, <2>3, <3>1, <3>2
    <3>3. CASE j \notin 1 .. Len(sent)
      <4>1. j - Len(sent) \in 1 .. Len(new) /\ sent'[j] = new[j - Len(sent)]
        BY <1>2, <3>3
      <4>2. u[j] = g[j - Len(sent)]
        BY <2>1, <2>3, <3>3
      <4> QED BY <2>2, <3>1, <4>1, <4>2
    <3> QED BY <3>2, <3>3
  <2>5. Announced' = u
    BY <1>7, <2>1, <2>3, <2>4, SeqEqual
  <2> QED BY <2>5 DEF u, g, h
<1> DEFINE d == f(new)
<1>9. d \in Seq(Message) /\ Announced' = Announced \o d /\ DOMAIN d = DOMAIN new
      /\ DataOf(new) = Laid(d) /\ Len(d) = Len(new)
  BY <1>5, <1>8 DEF DataOf
<1>10. \A k \in DOMAIN new : d[k] = AsData(new[k])
  OBVIOUS
<1> HIDE DEF d, f
<1>11. feed' \o Announced' = (feed \o Announced) \o d
  <2>1. feed \in Seq(Message) /\ Announced \in Seq(Message) /\ d \in Seq(Message)
    BY <1>6, <1>9
  <2> HIDE DEF Announced
  <2>2. (feed \o Announced) \o d = feed \o (Announced \o d)
    BY ONLY <2>1, ConcatAssociative
  <2> QED BY <1>9, <2>2
<1>12. Stream' = Stream \o Laid(d)
  BY <1>9, <1>11, StreamMore
<1>13. /\ Laid(d) \in Seq(Feed!Datagram) /\ DOMAIN Laid(d) = DOMAIN d /\ Len(Laid(d)) = Len(d)
       /\ \A k \in DOMAIN d : Laid(d)[k] = Layout(d[k])
  BY <1>9, LaidType
<1>14. \A k \in DOMAIN new : /\ Layout(AsData(new[k])).kind = new[k].kind
                             /\ Layout(AsData(new[k])).id = new[k].id
  BY <1>4, LayoutType
<1> QED BY <1>3, <1>9, <1>10, <1>12, <1>13, <1>14
-----------------------------------------------------------------------------
(* What the book adds to it is about its own order, the announcement last. *)
LEMMA BookAdds ==
  ASSUME MarketInv, MarketInv', KnownOK, StreamOK, Tracked' => Tracked, orderid <= orderid',
         UNCHANGED <<platformvars, feed, orders, other>>,
         NEW new \in Seq(Book!Message), sent' = sent \o new,
         \A k \in DOMAIN new :
           /\ new[k].kind = "added" => k = Len(new) /\ new[k].id \in 1 .. orderid'
           /\ new[k].kind \in {"added", "fill"} => Changing /\ new[k].id = order.id
  PROVE  KnownOK' /\ (Tracked' => Separated(Stream', DOMAIN orders', Lossless'))
<1> DEFINE s == Stream
           K == DOMAIN orders
           d == DataOf(new)
<1>1. /\ Stream' = s \o d /\ s \in Seq(Feed!Datagram) /\ d \in Seq(Feed!Datagram)
      /\ DOMAIN d = DOMAIN new /\ Len(d) = Len(new)
      /\ \A k \in DOMAIN d : d[k].kind = new[k].kind /\ d[k].id = new[k].id
  BY SentMoves, StreamType
<1>2. Lossless' = Lossless /\ DOMAIN orders' = K /\ other' = other
  BY DEF Lossless, platformvars
<1>3. orderid \in Nat /\ orderid' \in Nat
  BY DEF MarketInv, Book!TypeOK
<1>4. KnownOK'
  <2> SUFFICES ASSUME NEW i, NEW a \in 0 .. Len(s \o d), Announces(s \o d, K, a, i)
               PROVE  i \in 1 .. orderid' \/ (i = OtherOrder /\ other)
    BY <1>1, <1>2 DEF KnownOK
  <2>1. s \in Seq(Feed!Datagram) /\ d \in Seq(Feed!Datagram)
    BY <1>1
  <2> HIDE DEF s, d, K
  <2>2. CASE a \in 0 .. Len(s) /\ Announces(s, K, a, i)
    <3>1. i \in 1 .. orderid \/ (i = OtherOrder /\ other)
      BY <2>2 DEF KnownOK, s, K
    <3> QED BY <1>3, <3>1
  <2>3. CASE \E k \in DOMAIN d : d[k].kind = "added" /\ d[k].id = i
    BY <1>1, <2>3
  <2> QED BY <2>1, <2>2, <2>3, AnnouncedMore
<1>5. ASSUME Tracked'
      PROVE  Separated(s \o d, K, Lossless)
  <2>1. Separated(s, K, Lossless) /\ (Changing => Free(s, K, Lossless, order.id))
    BY <1>5 DEF StreamOK
  <2>2. /\ \A k \in DOMAIN d : d[k].kind \in {"added", "fill"} => Free(s, K, Lossless, d[k].id)
        /\ \A k \in DOMAIN d : d[k].kind = "added" => k = Len(d)
    BY <1>1, <2>1
  <2>3. s \in Seq(Feed!Datagram) /\ d \in Seq(Feed!Datagram)
    BY <1>1
  <2> HIDE DEF s, d, K
  <2> QED BY <2>1, <2>2, <2>3, SeparatedMore
<1> QED BY <1>1, <1>2, <1>4, <1>5

(* Nothing is sent. *)
LEMMA BookQuiet ==
  ASSUME MarketInv, MarketInv', KnownOK, StreamOK, Tracked' => Tracked, orderid <= orderid',
         UNCHANGED <<platformvars, feed, orders, other>>, sent' = sent
  PROVE  /\ KnownOK' /\ Stream' = Stream
         /\ Tracked' => Separated(Stream', DOMAIN orders', Lossless')
<1>1. sent \in Seq(Book!Message)
  BY DEF MarketInv, Book!TypeOK
<1> DEFINE new == << >>
<1>2. new \in Seq(Book!Message) /\ sent' = sent \o new /\ DOMAIN new = {}
  BY <1>1, ConcatEmptySeq, EmptySeq
<1> HIDE DEF new
<1>3. KnownOK' /\ (Tracked' => Separated(Stream', DOMAIN orders', Lossless'))
  BY <1>2, BookAdds
<1>4. Stream' = Stream
  BY StreamAlone DEF Announced
<1> QED BY <1>3, <1>4

(* The id of a new order is announced nowhere yet. *)
LEMMA FreshFree ==
  ASSUME MarketInv, KnownOK, NEW i, i \notin 1 .. orderid, i # OtherOrder \/ ~other, NEW L
  PROVE  Free(Stream, DOMAIN orders, L, i)
BY DEF KnownOK, Free

(* An order that is being added is one. *)
LEMMA ChangingOrder ==
  ASSUME MarketInv
  PROVE  Changing => order # Book!NoOrder
<1>1. \A o \in Book!Order : o # << >>
  <2> SUFFICES ASSUME NEW o \in Book!Order PROVE o # << >>
    OBVIOUS
  <2>1. "id" \in DOMAIN o /\ DOMAIN << >> = {}
    BY DEF Book!Order
  <2> QED BY <2>1
<1>2. Changing => order \in Book!Order
  BY DEF Changing, MarketInv, Book!TypeOK
<1> QED BY <1>1, <1>2 DEF Book!NoOrder

(* A request announces what it does to a resting order, or takes up an     *)
(* order: a new one, or one whose cancel it has announced.                 *)
LEMMA RequestStream ==
  ASSUME MarketInv, MarketInv', SolidBook, HandlerShape, KnownOK, StreamOK,
         UNCHANGED <<platformvars, feed, orders, other, repriced>>,
         \/ \E u, s, p, q : Book!AddOrder(u, s, p, q)
         \/ \E i, u : Book!CancelOrder(i, u)
         \/ \E i, u, s, p, q : Book!ModifyQuantity(i, u, s, p, q) \/ Book!ModifyPrice(i, u, s, p, q)
  PROVE  KnownOK' /\ StreamOK'
<1>1. /\ pc = "idle" /\ sent = << >> /\ order = Book!NoOrder /\ ~Repricing
      /\ Lossless' = Lossless /\ repriced' = repriced /\ orders' = orders
      /\ orderid \in 0 .. MaxOrders /\ MaxOrders \in Nat /\ sent \in Seq(Book!Message)
      /\ platformvars' = platformvars /\ feed' = feed /\ other' = other
  <2>1. pc = "idle"
    BY DEF Book!AddOrder, Book!CancelOrder, Book!ModifyQuantity, Book!ModifyPrice, Book!Idle
  <2> QED BY <2>1, Assumptions
          DEF HandlerShape, Repricing, Lossless, platformvars, MarketInv, Book!TypeOK
<1>2. Tracked' => Tracked
  BY <1>1 DEF Tracked
<1>3. ASSUME NEW u, NEW s, NEW p, NEW q, Book!AddOrder(u, s, p, q)
      PROVE  KnownOK' /\ StreamOK'
  <2>1. /\ sent' = sent /\ orderid' = orderid + 1 /\ order'.id = orderid + 1
        /\ orderid < MaxOrders
    BY <1>3 DEF Book!AddOrder
  <2>2. /\ KnownOK' /\ Stream' = Stream
        /\ Tracked' => Separated(Stream', DOMAIN orders', Lossless')
    BY <1>1, <1>2, <2>1, BookQuiet
  <2>3. Free(Stream, DOMAIN orders, Lossless, orderid + 1)
    <3>1. orderid + 1 \notin 1 .. orderid /\ orderid + 1 # OtherOrder
      BY <1>1, <2>1 DEF OtherOrder
    <3> QED BY <3>1, FreshFree
  <2> QED BY <1>1, <2>1, <2>2, <2>3 DEF StreamOK
<1>4. ASSUME NEW i, sent' = <<Book!Cancelled(i)>>, orderid' = orderid
      PROVE  /\ KnownOK' /\ (Tracked' => Separated(Stream', DOMAIN orders', Lossless'))
             /\ Free(Stream', DOMAIN orders, TRUE, i)
  <2> DEFINE new == <<Book!Cancelled(i)>>
  <2>1. new \in Seq(Book!Message) /\ Len(new) = 1 /\ new[1].kind = "cancelled" /\ new[1].id = i
        /\ DOMAIN new = {1}
    <3>1. sent' \in Seq(Book!Message)
      BY DEF MarketInv, Book!TypeOK
    <3> QED BY <1>4, <3>1 DEF Book!Cancelled
  <2>2. sent' = sent \o new
    <3>1. << >> \o new = new
      BY <2>1, ConcatEmptySeq
    <3> QED BY <1>1, <1>4, <3>1
  <2> HIDE DEF new
  <2>3. KnownOK' /\ (Tracked' => Separated(Stream', DOMAIN orders', Lossless'))
    BY <1>1, <1>2, <1>4, <2>1, <2>2, BookAdds
  <2>4. /\ Stream' = Stream \o DataOf(new) /\ Stream \in Seq(Feed!Datagram)
        /\ DataOf(new) \in Seq(Feed!Datagram) /\ Len(DataOf(new)) = 1
        /\ DataOf(new)[1].kind = "cancelled" /\ DataOf(new)[1].id = i
    <3>1. 1 \in DOMAIN new
      BY <2>1
    <3> QED BY <1>1, <2>1, <2>2, <3>1, SentMoves, StreamType
  <2>5. Free(Stream', DOMAIN orders, TRUE, i)
    BY <2>4, FreeByCancel
  <2> QED BY <2>3, <2>5
<1>5. ASSUME NEW i, NEW u, Book!CancelOrder(i, u)
      PROVE  KnownOK' /\ StreamOK'
  <2>1. sent' = <<Book!Cancelled(i)>> /\ orderid' = orderid /\ ~Changing'
    BY <1>5 DEF Book!CancelOrder, Changing
  <2> QED BY <1>4, <2>1 DEF StreamOK
<1>6. ASSUME NEW i, NEW u, NEW s, NEW p, NEW q, Book!ModifyQuantity(i, u, s, p, q)
      PROVE  KnownOK' /\ StreamOK'
  <2>1. sent' = <<Book!Modified(i, q)>> /\ orderid' = orderid /\ ~Changing'
    BY <1>6 DEF Book!ModifyQuantity, Changing
  <2> DEFINE new == <<Book!Modified(i, q)>>
  <2>2. new \in Seq(Book!Message) /\ DOMAIN new = {1} /\ new[1].kind = "modified"
    <3>1. sent' \in Seq(Book!Message)
      BY DEF MarketInv, Book!TypeOK
    <3> QED BY <2>1, <3>1 DEF Book!Modified
  <2>3. sent' = sent \o new
    <3>1. << >> \o new = new
      BY <2>2, ConcatEmptySeq
    <3> QED BY <1>1, <2>1, <3>1
  <2> HIDE DEF new
  <2>4. KnownOK' /\ (Tracked' => Separated(Stream', DOMAIN orders', Lossless'))
    BY <1>1, <1>2, <2>1, <2>2, <2>3, BookAdds
  <2> QED BY <2>1, <2>4 DEF StreamOK
<1>7. ASSUME NEW i, NEW u, NEW s, NEW p, NEW q, Book!ModifyPrice(i, u, s, p, q)
      PROVE  KnownOK' /\ StreamOK'
  <2>1. /\ sent' = <<Book!Cancelled(i)>> /\ orderid' = orderid /\ order'.id = i /\ pc' = "add"
        /\ sent'[1].kind = "cancelled"
    BY <1>7 DEF Book!ModifyPrice, Book!Cancelled
  <2>2. Repricing'
    <3>1. sent' # << >>
      <4>1. Len(sent') = 1 /\ Len(<< >>) = 0
        BY <2>1
      <4> QED BY <4>1
    <3>2. order' # Book!NoOrder
      <4>1. "id" \in DOMAIN order' /\ DOMAIN << >> = {}
        BY <1>7 DEF Book!ModifyPrice
      <4> QED BY <4>1 DEF Book!NoOrder
    <3> QED BY <2>1, <3>1, <3>2 DEF Repricing
  <2>3. Tracked' => Lossless' = TRUE
    BY <1>1, <2>2 DEF Tracked, Lossless
  <2> QED BY <1>1, <1>4, <2>1, <2>3 DEF StreamOK
<1> QED BY <1>3, <1>5, <1>6, <1>7

(* The messages of communicateMatchResults, all about the incoming order.  *)
LEMMA FillsSent ==
  ASSUME MarketInv, MarketInv', Book!CommunicateMatchResults
  PROVE  /\ Book!FillMessages(order) \in Seq(Book!Message)
         /\ sent' = sent \o Book!FillMessages(order)
         /\ \A k \in DOMAIN Book!FillMessages(order) :
              /\ Book!FillMessages(order)[k].kind = "fill"
              /\ Book!FillMessages(order)[k].id = order.id
<1> DEFINE new == Book!FillMessages(order)
<1>1. /\ Len(sent) \in Nat /\ Len(fills) \in Nat
      /\ DOMAIN sent' = 1 .. Len(sent) + Len(fills)
      /\ \A k \in 1 .. Len(fills) :
          sent'[Len(sent) + k] =
            [kind |-> "fill", to |-> fills[k].connection, id |-> order.id,
             qty |-> fills[k].qty, full |-> fills[k].full]
  BY FillsAppended DEF MarketInv
<1>2. DOMAIN new = 1 .. Len(fills) /\ \A k \in 1 .. Len(fills) : new[k] = sent'[Len(sent) + k]
  BY <1>1 DEF Book!FillMessages
<1>3. sent' \in Seq(Book!Message)
  BY DEF MarketInv, Book!TypeOK
<1>4. \A k \in 1 .. Len(fills) : Len(sent) + k \in DOMAIN sent'
  BY <1>1
<1>5. \A k \in 1 .. Len(fills) : sent'[Len(sent) + k] \in Book!Message
  BY <1>3, <1>4, LenProperties, ElementOfSeq
<1>6. new = [k \in 1 .. Len(fills) |-> sent'[Len(sent) + k]]
  BY <1>1 DEF Book!FillMessages
<1>7. new \in Seq(Book!Message)
  <2> HIDE DEF new
  <2>1. new \in [1 .. Len(fills) -> Book!Message]
    BY <1>5, <1>6
  <2> QED BY <1>1, <2>1
<1>8. \A k \in DOMAIN new : new[k].kind = "fill" /\ new[k].id = order.id
  <2> SUFFICES ASSUME NEW k \in 1 .. Len(fills)
               PROVE  new[k].kind = "fill" /\ new[k].id = order.id
    BY <1>2
  <2>1. new[k] = [kind |-> "fill", to |-> fills[k].connection, id |-> order.id,
                  qty |-> fills[k].qty, full |-> fills[k].full]
    BY <1>1, <1>2
  <2> HIDE DEF new
  <2> QED BY <2>1
<1>9. sent' = sent \o new
  BY DEF Book!CommunicateMatchResults
<1> QED BY <1>7, <1>8, <1>9

(* The handler of an order goes on. *)
LEMMA HandlerStream ==
  ASSUME MarketInv, MarketInv', SolidBook, HandlerShape, KnownOK, StreamOK,
         UNCHANGED <<platformvars, feed, orders, other, repriced>>,
         Book!Handler, pc # "return"
  PROVE  KnownOK' /\ StreamOK'
<1>1. /\ Lossless' = Lossless /\ repriced' = repriced /\ orders' = orders
      /\ orderid' = orderid /\ orderid \in Nat /\ sent \in Seq(Book!Message)
      /\ platformvars' = platformvars /\ feed' = feed /\ other' = other
      /\ Changing /\ order \in Book!Order /\ order # Book!NoOrder /\ order.id \in 1 .. orderid
  <2>1. /\ Changing /\ orderid' = orderid
    BY DEF Book!Handler, Book!StartMatch, Book!NothingToMatch, Book!ReadErasedLimit,
           Book!FillResting, Book!FillIncoming, Book!NextLevel, Book!CommunicateMatchResults,
           Book!PlaceOrder, Book!Return, Book!At, Changing
  <2>2. order \in Book!Order
    BY <2>1 DEF Changing, MarketInv, Book!TypeOK
  <2>3. order.id \in 1 .. orderid
    BY <2>1 DEF SolidBook, Book!ListInv, Book!IdsKnown, Book!Active, Changing
  <2> QED BY <2>1, <2>2, <2>3, ChangingOrder DEF Lossless, platformvars, MarketInv, Book!TypeOK
<1>2. CASE \/ Book!StartMatch \/ Book!NothingToMatch \/ Book!ReadErasedLimit
           \/ Book!FillResting \/ Book!FillIncoming \/ Book!NextLevel
  <2>1. sent' = sent /\ (order' = order \/ \E q : order' = [order EXCEPT !.qty = q])
    BY <1>2 DEF Book!StartMatch, Book!NothingToMatch, Book!ReadErasedLimit, Book!matching,
       Book!FillResting, Book!FillIncoming, Book!NextLevel
  <2>2. order'.id = order.id
    BY <1>1, <2>1 DEF Book!Order
  <2>3. Tracked' => Tracked
    BY <1>1, <2>1 DEF Tracked, Repricing, Book!Order, Book!NoOrder
  <2>4. /\ KnownOK' /\ Stream' = Stream
        /\ Tracked' => Separated(Stream', DOMAIN orders', Lossless')
    BY <1>1, <2>1, <2>3, BookQuiet
  <2> QED BY <1>1, <2>2, <2>3, <2>4 DEF StreamOK
<1>3. ASSUME NEW new, sent' = sent \o new, new \in Seq(Book!Message), order' = order
      PROVE  Tracked' => Tracked
  <2>1. Len(sent') = Len(sent) + Len(new) /\ \A j \in 1 .. Len(sent) : sent'[j] = sent[j]
        /\ Len(sent) \in Nat /\ Len(new) \in Nat /\ sent' \in Seq(Book!Message)
    BY <1>1, <1>3, ConcatAt
  <2>2. sent # << >> => sent' # << >> /\ sent'[1] = sent[1]
    BY <1>1, <2>1, EmptySeq
  <2> QED BY <1>1, <1>3, <2>2 DEF Tracked, Repricing
<1>4. CASE Book!CommunicateMatchResults
  <2> DEFINE new == Book!FillMessages(order)
  <2>1. /\ sent' = sent \o new /\ order' = order
    BY <1>4 DEF Book!CommunicateMatchResults, Book!matching
  <2>2. /\ new \in Seq(Book!Message)
        /\ \A k \in DOMAIN new : new[k].kind = "fill" /\ new[k].id = order.id
    BY <1>4, FillsSent
  <2> HIDE DEF new
  <2>3. Tracked' => Tracked
    BY <1>3, <2>1, <2>2
  <2>4. KnownOK' /\ (Tracked' => Separated(Stream', DOMAIN orders', Lossless'))
    <3>1. /\ orderid <= orderid'
        /\ \A k \in DOMAIN new :
             /\ new[k].kind = "added" => k = Len(new) /\ new[k].id \in 1 .. orderid'
             /\ new[k].kind \in {"added", "fill"} => Changing /\ new[k].id = order.id
      BY <1>1, <2>2
    <3> QED BY <1>1, <2>1, <2>2, <2>3, <3>1, BookAdds
  <2>5. ASSUME Tracked'
        PROVE  Free(Stream', DOMAIN orders', Lossless', order'.id)
    <3> DEFINE d == DataOf(new)
    <3>1. /\ Stream' = Stream \o d /\ Stream \in Seq(Feed!Datagram) /\ d \in Seq(Feed!Datagram)
          /\ \A k \in DOMAIN d : d[k].kind # "added"
      BY <1>1, <2>1, <2>2, SentMoves, StreamType
    <3>2. Free(Stream, DOMAIN orders, Lossless, order.id)
      BY <1>1, <2>3, <2>5 DEF StreamOK
    <3> HIDE DEF d
    <3>3. Free(Stream \o d, DOMAIN orders, Lossless, order.id)
      BY <3>1, <3>2, FreeMore
    <3> QED BY <1>1, <2>1, <3>1, <3>3
  <2> QED BY <2>4, <2>5 DEF StreamOK
<1>5. CASE Book!PlaceOrder
  <2> DEFINE new == <<Book!Added(order)>>
  <2>1. sent' = Append(sent, Book!Added(order)) /\ order' = order /\ ~Changing'
    BY <1>5 DEF Book!PlaceOrder, Book!matching, Changing
  <2>2. /\ new \in Seq(Book!Message) /\ DOMAIN new = {1} /\ Len(new) = 1
        /\ new[1].kind = "added" /\ new[1].id = order.id
    <3>1. /\ Len(sent) \in Nat /\ Len(sent') = Len(sent) + 1 /\ DOMAIN sent' = 1 .. Len(sent) + 1
          /\ sent'[Len(sent) + 1] = Book!Added(order)
      BY <1>5, AddAppended DEF MarketInv
    <3>2. sent' \in Seq(Book!Message)
      BY DEF MarketInv, Book!TypeOK
    <3>3. Book!Added(order) \in Book!Message
      BY <3>1, <3>2, ElementOfSeq
    <3> QED BY <3>3 DEF Book!Added
  <2>3. sent' = sent \o new
    <3>1. Book!Added(order) \in Book!Message
      BY <2>2, ElementOfSeq
    <3> QED BY <1>1, <2>1, <3>1, AppendIsConcat
  <2> HIDE DEF new
  <2>4. Tracked' => Tracked
    BY <1>3, <2>1, <2>2, <2>3
  <2>5. KnownOK' /\ (Tracked' => Separated(Stream', DOMAIN orders', Lossless'))
    <3>1. /\ orderid <= orderid'
        /\ \A k \in DOMAIN new :
             /\ new[k].kind = "added" => k = Len(new) /\ new[k].id \in 1 .. orderid'
             /\ new[k].kind \in {"added", "fill"} => Changing /\ new[k].id = order.id
      BY <1>1, <2>2
    <3> QED BY <1>1, <2>2, <2>3, <2>4, <3>1, BookAdds
  <2> QED BY <2>1, <2>5 DEF StreamOK
<1> QED BY <1>2, <1>4, <1>5 DEF Book!Handler, Book!Return, Book!At
-----------------------------------------------------------------------------
(***************************************************************************)
(* The invariant: when nothing comes twice or out of order, what is to     *)
(* come keeps announcements apart and the client's totals match.           *)
(***************************************************************************)
TotalsOK == (Lossless \/ ~repriced) => TotalsMatch

FollowInv == /\ HandlerShape
             /\ InOrder => Subscribed /\ KnownOK /\ StreamOK /\ TotalsOK

(* The first state. *)
LEMMA FollowInitOK ==
  ASSUME Init PROVE FollowInv
<1>1. HandlerShape
  BY DEF Init, Book!Init, HandlerShape
<1>2. /\ Me \in Client /\ network[Me] = << >> /\ orders = << >> /\ levels = << >>
      /\ reader = "read" /\ feed = << >> /\ sent = << >> /\ waiting = << >>
      /\ failed = [c \in Client |-> 0] /\ pc = "idle" /\ DOMAIN orders = {}
      /\ subscribers = (IF "late" \in faults THEN {} ELSE Client)
      /\ asking = Client \ subscribers
  BY MarketDataAssumption DEF Init, Book!Init, Platform!PlatformInit, Feed!FeedInit
<1>3. Subscribed
  BY <1>2 DEF Subscribed, Lossless
<1>4. Stream = << >>
  <2>1. << >> \in Seq(Message) /\ << >> \in Seq(Feed!Datagram)
    BY EmptySeq
  <2>2. InHand = << >> /\ Announced = << >> /\ Laid(<< >>) = << >>
    BY <1>2 DEF InHand, Announced, Laid
  <2>3. << >> \o << >> = << >>
    BY <2>1, ConcatEmptySeq
  <2> QED BY <1>2, <2>2, <2>3 DEF Stream
<1>5. KnownOK /\ StreamOK
  <2>1. Len(Stream) = 0 /\ DOMAIN Stream = {}
    BY <1>4
  <2> QED BY <1>2, <2>1 DEF KnownOK, StreamOK, Separated, Announces, Changing
<1>6. TotalsMatch
  <2>1. \A k : AtLevel(orders, k) = {}
    BY <1>2 DEF AtLevel
  <2>2. \A k : Size(levels, k) = 0
    BY <1>2 DEF Size
  <2> QED BY <2>1, <2>2, SumOfNone DEF TotalsMatch
<1> QED BY <1>1, <1>3, <1>5, <1>6 DEF FollowInv, TotalsOK

(* A book of another ticker announces its only order. *)
LEMMA OtherAddsMoves ==
  ASSUME MarketInv, HandlerShape, pc = "idle", OtherAdds
  PROVE  /\ Announced = << >> /\ Announced' = << >> /\ UNCHANGED platformvars
         /\ UNCHANGED bookvars /\ orders' = orders
         /\ \E d \in Seq(Feed!Datagram) :
              /\ Stream' = Stream \o d /\ Len(d) = 1
              /\ d[1].kind = "added" /\ d[1].id = OtherOrder
<1>1. /\ UNCHANGED platformvars /\ UNCHANGED bookvars /\ orders' = orders
      /\ sent = << >> /\ sent' = << >>
  BY DEF OtherAdds, HandlerShape, bookvars, clientvars
<1>2. Announced = << >> /\ Announced' = << >>
  BY <1>1 DEF Announced
<1> DEFINE m == [kind |-> "added", id |-> OtherOrder, ticker |-> "other",
                 side |-> "buy", price |-> 0, qty |-> 1]
           y == <<m>>
<1>3. /\ m \in Message /\ feed' = Append(feed, m) /\ feed \in Seq(Message)
      /\ m.kind = "added" /\ m.id = OtherOrder
  BY OtherOrderType, StreamType DEF OtherAdds
<1> HIDE DEF m
<1>4. y \in Seq(Message) /\ feed' = feed \o y /\ DOMAIN y = {1} /\ y[1] = m /\ Len(y) = 1
  BY <1>3, AppendIsConcat
<1> HIDE DEF y
<1>5. feed' \o Announced' = (feed \o Announced) \o y
  <2>1. feed \o Announced = feed
    BY <1>2, <1>3, ConcatEmptySeq
  <2>2. feed \o y \in Seq(Message)
    BY <1>3, <1>4, ConcatProperties
  <2>3. (feed \o y) \o << >> = feed \o y
    BY <2>2, ConcatEmptySeq
  <2> QED BY <1>2, <1>4, <2>1, <2>3
<1>6. Stream' = Stream \o Laid(y)
  BY <1>1, <1>4, <1>5, StreamMore
<1>7. /\ Laid(y) \in Seq(Feed!Datagram) /\ Len(Laid(y)) = 1 /\ Laid(y)[1] = Layout(m)
      /\ Layout(m).kind = "added" /\ Layout(m).id = OtherOrder
  BY <1>3, <1>4, LaidType, LayoutType
<1> QED BY <1>1, <1>2, <1>6, <1>7

(* The other book's order is announced once, and no one else has its id.   *)
LEMMA OtherAddsKeeps ==
  ASSUME MarketInv, HandlerShape, pc = "idle", KnownOK, StreamOK, OtherAdds
  PROVE  KnownOK' /\ StreamOK'
<1>1. PICK d \in Seq(Feed!Datagram) : /\ Stream' = Stream \o d /\ Len(d) = 1
                                      /\ d[1].kind = "added" /\ d[1].id = OtherOrder
  BY OtherAddsMoves
<1>2. /\ UNCHANGED bookvars /\ orders' = orders /\ UNCHANGED platformvars
      /\ repriced' = repriced /\ ~other /\ other' = TRUE
  BY DEF OtherAdds, clientvars
<1>3. /\ (Tracked' <=> Tracked) /\ Lossless' = Lossless /\ ~Changing' /\ orderid' = orderid
  BY <1>2 DEF Tracked, Lossless, Repricing, Changing, bookvars, platformvars
<1> DEFINE s == Stream
           K == DOMAIN orders
<1>4. s \in Seq(Feed!Datagram) /\ DOMAIN d = {1}
  BY <1>1, StreamType, LenProperties
<1>5. KnownOK'
  <2> SUFFICES ASSUME NEW i, NEW a \in 0 .. Len(s \o d), Announces(s \o d, K, a, i)
               PROVE  i \in 1 .. orderid \/ i = OtherOrder
    BY <1>1, <1>2, <1>3 DEF KnownOK
  <2> HIDE DEF s, K
  <2>1. CASE a \in 0 .. Len(s) /\ Announces(s, K, a, i)
    BY <2>1 DEF KnownOK, s, K
  <2>2. CASE \E k \in DOMAIN d : d[k].kind = "added" /\ d[k].id = i
    BY <1>1, <1>4, <2>2
  <2> QED BY <1>4, <2>1, <2>2, AnnouncedMore
<1>6. ASSUME Tracked
      PROVE  Separated(s \o d, K, Lossless)
  <2>1. Separated(s, K, Lossless)
    BY <1>6 DEF StreamOK
  <2>2. Free(s, K, Lossless, OtherOrder)
    <3>1. OtherOrder \notin 1 .. orderid
      BY Assumptions DEF OtherOrder, MarketInv, Book!TypeOK
    <3> QED BY <1>2, <3>1, FreshFree
  <2>3. /\ \A k \in DOMAIN d : d[k].kind \in {"added", "fill"} => Free(s, K, Lossless, d[k].id)
        /\ \A k \in DOMAIN d : d[k].kind = "added" => k = Len(d)
    BY <1>1, <1>4, <2>2
  <2> HIDE DEF s, K
  <2> QED BY <1>4, <2>1, <2>3, SeparatedMore
<1> QED BY <1>1, <1>2, <1>3, <1>5, <1>6 DEF StreamOK

(* What a handler sent is published when it returns, as it was sent. *)
LEMMA PublishMoves ==
  ASSUME MarketInv, HandlerShape, Publish
  PROVE  /\ Stream' = Stream /\ UNCHANGED <<platformvars, clientvars, other>>
         /\ orderid' = orderid /\ ~Changing' /\ Lossless' = Lossless
         /\ Tracked' => Tracked
         /\ sent' = << >> /\ fills' = << >> /\ limitorders' = limitorders
<1>1. /\ pc = "return" /\ pc' = "idle" /\ orderid' = orderid /\ sent' = << >>
      /\ order' = Book!NoOrder /\ UNCHANGED <<platformvars, clientvars, other>>
      /\ feed' = feed \o Announced /\ fills' = << >> /\ limitorders' = limitorders
      /\ repriced' = (repriced \/ (Len(sent) > 1 /\ sent[1].kind = "cancelled"))
  BY DEF Publish, Book!Return, Book!At
<1>2. Stream' = Stream
  <2>1. Announced' = << >>
    BY <1>1 DEF Announced
  <2>2. feed' \in Seq(Message)
    BY <1>1, StreamType
  <2>3. feed' \o Announced' = feed \o Announced
    BY <1>1, <2>1, <2>2, ConcatEmptySeq
  <2> QED BY <1>1, <2>3, StreamAlone
<1>3. Lossless' = Lossless
  BY <1>1 DEF platformvars, Lossless
<1>4. Tracked' => Tracked
  <2>1. Repricing => repriced'
    BY <1>1 DEF HandlerShape, Repricing
  <2>2. repriced => repriced'
    BY <1>1
  <2> QED BY <1>3, <2>1, <2>2 DEF Tracked
<1> QED BY <1>1, <1>2, <1>3, <1>4 DEF Changing

(* What comes first of the stream adds no order that the client knows, and *)
(* fills none.                                                             *)
LEMMA FirstIsNew ==
  ASSUME Stream \in Seq(Feed!Datagram), StreamOK, Tracked, NEW t, Dropped(Stream, t, 1),
         Stream[1].kind \in {"added", "fill"}
  PROVE  Stream[1].id \notin DOMAIN orders
<1>1. Separated(Stream, DOMAIN orders, Lossless)
  BY DEF StreamOK
<1>2. 1 \in DOMAIN Stream /\ 0 \in 0 .. 1 - 1
  <2>1. DOMAIN Stream = 1 .. Len(Stream) /\ 1 \in 1 .. Len(Stream)
    BY LenProperties DEF Dropped
  <2> QED BY <2>1
<1>3. Announces(Stream, DOMAIN orders, 0, Stream[1].id) => Ended(Stream, 0, 1, Stream[1].id)
  BY <1>1, <1>2 DEF Separated
<1>4. ~Ended(Stream, 0, 1, Stream[1].id)
  BY DEF Ended
<1> QED BY <1>3, <1>4 DEF Announces

(* A datagram that comes in order keeps the client's totals. *)
LEMMA DeliverKeepsTotals ==
  ASSUME MarketInv, SmallInv, InOrder, StreamOK, TotalsOK, pc = "idle", HandlerShape, Deliver
  PROVE  TotalsOK'
<1>1. PICK n \in DOMAIN network[Me] : /\ n = 1 \/ "swap" \in faults
                                      /\ Feed!Receive(network[Me][n]) /\ TakenFrom(n)
  BY DEF Deliver
<1>2. n = 1 /\ UNCHANGED bookvars /\ UNCHANGED restvars
  BY <1>1 DEF InOrder, Deliver
<1> DEFINE m == network[Me][1]
<1>3. m \in SmallDatagram /\ Feed!Receive(m) /\ Stream[1] = m /\ Dropped(Stream, Stream', 1)
  BY <1>1, <1>2, NothingCut, CarriesTaken, FirstTaken DEF MarketInv, SmallInv, restvars
<1>4. faults' = faults /\ repriced' = repriced
  BY <1>1, <1>2 DEF TakenFrom, restvars
<1> HIDE DEF m
<1> SUFFICES ASSUME Lossless \/ ~repriced PROVE TotalsMatch'
  BY <1>4 DEF TotalsOK, Lossless
<1>5. Tracked
  BY DEF Tracked, Repricing, HandlerShape
<1>6. m.kind \in {"added", "fill"} => m.id \notin DOMAIN orders
  BY <1>3, <1>5, StreamType, FirstIsNew
<1>7. TotalsMatch /\ m \in Feed!Datagram /\ Feed!SmallData(m)
  BY <1>3 DEF TotalsOK, SmallDatagram
<1> QED BY <1>3, <1>6, <1>7, NothingCut, ReceiveKeepsTotals DEF MarketInv

(* Faults are chosen once, and a re-pricing is not forgotten. *)
LEMMA FaultsStay == [Next]_vars => faults' = faults /\ (repriced => repriced')
<1> SUFFICES ASSUME [Next]_vars PROVE faults' = faults /\ (repriced => repriced')
  OBVIOUS
<1>1. CASE Publish
  BY <1>1 DEF Publish, platformvars
<1>2. CASE PlatformReads \/ PlatformSteps
  <2>1. CASE PlatformReads
    BY <2>1 DEF PlatformReads, Platform!Read, Platform!rvars
  <2>2. CASE PlatformSteps
    <3>1. Platform!Transmit => faults' = faults
      BY DEF Platform!Transmit, Platform!rvars
    <3>2. Platform!PlatformStep => faults' = faults
      BY <3>1 DEF Platform!PlatformStep, Platform!SerialiseMarketData, Platform!NextMessage,
         Platform!AcceptFails, Platform!Accept, Platform!SendNow, Platform!SendLater,
         Platform!Visit, Platform!SendFailed, Platform!rvars
    <3> QED BY <2>2, <3>2 DEF PlatformSteps, restvars
  <2> QED BY <1>2, <2>1, <2>2
<1>3. CASE Deliver \/ Lose
  BY <1>3 DEF Deliver, Lose, TakenFrom, restvars
<1>4. CASE Request \/ Handle \/ OtherAdds \/ UserTypes \/ UserSubscribes \/ FillArrives
           \/ UNCHANGED vars
  BY <1>4 DEF Request, Handle, OtherAdds, UserTypes, UserSubscribes, FillArrives, restvars,
     platformvars, vars
<1> QED BY <1>1, <1>2, <1>3, <1>4 DEF Next

(* Every step keeps the invariant. *)
LEMMA FollowStepOK ==
  ASSUME MarketInv, SmallInv, MarketInv', FollowInv, [Next]_vars
  PROVE  FollowInv'
<1>1. HandlerShape /\ HandlerShape'
  BY ShapeStepOK DEF FollowInv
<1>2. faults' = faults /\ (repriced => repriced')
  BY FaultsStay
<1> SUFFICES ASSUME InOrder
             PROVE  Subscribed' /\ KnownOK' /\ StreamOK' /\ TotalsOK'
  BY <1>1, <1>2 DEF FollowInv, InOrder
<1>3. Subscribed /\ KnownOK /\ StreamOK /\ TotalsOK
  BY DEF FollowInv
<1>4. ASSUME UNCHANGED platformvars, orders' = orders
      PROVE  Subscribed'
  BY <1>3, <1>4 DEF platformvars, Subscribed, Lossless
<1>5. ASSUME UNCHANGED <<orders, levels>>
      PROVE  TotalsOK'
  BY <1>2, <1>3, <1>5 DEF TotalsOK, TotalsMatch, Lossless
<1>6. CASE Request \/ UserTypes \/ Handle
  <2>1. UNCHANGED <<platformvars, feed, orders, levels, other, repriced>>
    BY <1>6 DEF Request, UserTypes, Handle, restvars, clientvars, Feed!GetUserInput
  <2>2. CASE UNCHANGED bookvars
    <3>1. Stream' = Stream
      BY <2>1, <2>2, StreamAlone DEF bookvars, Announced
    <3>2. KnownOK' /\ StreamOK'
      BY <1>3, <2>1, <2>2, <3>1 DEF bookvars, platformvars, KnownOK, StreamOK, Tracked, Lossless,
         Repricing, Changing
    <3> QED BY <1>4, <1>5, <2>1, <3>2
  <2>3. CASE Request \/ (UserTypes /\ ~UNCHANGED bookvars)
    <3>1. \/ \E u, s, p, q : Book!AddOrder(u, s, p, q)
          \/ \E i, u : Book!CancelOrder(i, u)
          \/ \E i, u, s, p, q : \/ Book!ModifyQuantity(i, u, s, p, q)
                                \/ Book!ModifyPrice(i, u, s, p, q)
      BY <2>3, UserIsBooks DEF Request
    <3>2. KnownOK' /\ StreamOK'
      BY <1>1, <1>3, <2>1, <3>1, RequestStream DEF SmallInv
    <3> QED BY <1>4, <1>5, <2>1, <3>2
  <2>4. CASE Handle
    <3>1. Book!Handler /\ pc # "return"
      BY <2>4 DEF Handle
    <3>2. KnownOK' /\ StreamOK'
      BY <1>1, <1>3, <2>1, <3>1, HandlerStream DEF SmallInv
    <3> QED BY <1>4, <1>5, <2>1, <3>2
  <2> QED BY <1>6, <2>2, <2>3, <2>4
<1>7. CASE Publish
  <2>1. /\ Stream' = Stream /\ UNCHANGED <<platformvars, clientvars, other>>
        /\ orderid' = orderid /\ ~Changing' /\ Lossless' = Lossless /\ (Tracked' => Tracked)
    BY <1>1, <1>7, PublishMoves
  <2>2. orders' = orders /\ levels' = levels
    BY <2>1 DEF clientvars
  <2>3. KnownOK' /\ StreamOK'
    BY <1>3, <2>1, <2>2 DEF KnownOK, StreamOK
  <2> QED BY <1>4, <1>5, <2>1, <2>2, <2>3
<1>8. CASE pc = "idle" /\ OtherAdds
  <2>1. KnownOK' /\ StreamOK'
    BY <1>1, <1>3, <1>8, OtherAddsKeeps
  <2> QED BY <1>4, <1>5, <1>8, <2>1 DEF OtherAdds, clientvars
<1>9. CASE pc = "idle" /\ (PlatformReads \/ PlatformSteps \/ Deliver \/ Lose)
  <2>1. Subscribed' /\ (Unmoved \/ LosesOne \/ (Deliver /\ HandsOver))
    BY <1>1, <1>3, <1>9, TransportMoves
  <2>2. UNCHANGED bookvars /\ repriced' = repriced /\ other' = other
    BY <1>9 DEF PlatformReads, PlatformSteps, Deliver, Lose, restvars
  <2>3. KnownOK' /\ StreamOK'
    BY <1>2, <1>3, <1>9, <2>1, <2>2, TransportKeeps
  <2>4. TotalsOK'
    <3>1. CASE Deliver
      BY <1>1, <1>3, <1>9, <3>1, DeliverKeepsTotals
    <3>2. CASE ~Deliver
      BY <1>5, <1>9, <3>2 DEF PlatformReads, PlatformSteps, Lose, clientvars
    <3> QED BY <3>1, <3>2
  <2> QED BY <2>1, <2>3, <2>4
<1>10. CASE UserSubscribes \/ FillArrives \/ UNCHANGED vars
  <2>1. /\ UNCHANGED bookvars /\ UNCHANGED platformvars
        /\ UNCHANGED <<orders, levels, feed, other, repriced>>
    BY <1>10 DEF UserSubscribes, FillArrives, Feed!Subscribe, Feed!InterpretFill, vars, restvars,
       clientvars
  <2>2. Stream' = Stream
    BY <2>1, StreamAlone DEF bookvars, Announced
  <2>3. KnownOK' /\ StreamOK'
    BY <1>3, <2>1, <2>2 DEF bookvars, platformvars, KnownOK, StreamOK, Tracked, Lossless,
       Repricing, Changing
  <2> QED BY <1>4, <1>5, <2>1, <2>3
<1> QED BY <1>6, <1>7, <1>8, <1>9, <1>10 DEF Next

(* The size of a level on the client's screen is what its orders add up    *)
(* to, with any number of users, orders and clients, and whatever is lost  *)
(* as long as no order is re-priced; nothing comes twice or out of order.  *)
THEOREM MarketLevelsMatch == QuantitiesFit => (Spec => []LevelsMatchOrders)
<1> SUFFICES ASSUME QuantitiesFit PROVE Spec => []LevelsMatchOrders
  OBVIOUS
<1>1. Init => MarketInv /\ SmallInv /\ FollowInv
  BY MarketInitOK, SmallInitOK, FollowInitOK
<1>2. MarketInv /\ SmallInv /\ FollowInv /\ [Next]_vars => (MarketInv /\ SmallInv /\ FollowInv)'
  BY MarketStepOK, SmallStepOK, FollowStepOK
<1>3. MarketInv /\ FollowInv => LevelsMatchOrders
  <2> SUFFICES ASSUME FollowInv, InOrder, faults \subseteq {"late"} \/ ~repriced,
                      NEW k \in Ticker \X Book!Side \X Book!Price
               PROVE  Total(k) = IF k \in DOMAIN levels THEN levels[k] ELSE 0
    BY DEF LevelsMatchOrders
  <2>1. TotalsMatch
    BY DEF FollowInv, TotalsOK, Lossless
  <2>2. k \in Feed!LevelKey
    BY DEF Feed!LevelKey, Feed!Side, Book!Side
  <2>3. Total(k) = SumOf(orders, AtLevel(orders, k))
    BY DEF Total, At, SumOf, AtLevel
  <2> QED BY <2>1, <2>2, <2>3 DEF TotalsMatch, Size
<1> QED BY <1>1, <1>2, <1>3, PTL DEF Spec

-----------------------------------------------------------------------------
(***************************************************************************)
(* What the client will have been told of an order when all has come: the  *)
(* last datagram that names it, or at 0 what the client holds; and every   *)
(* announcement that no cancel follows.                                    *)
(***************************************************************************)
LastWord(s, K, c, i) == /\ IF c = 0 THEN i \in K ELSE s[c].id = i
                        /\ \A d \in c + 1 .. Len(s) : s[d].id # i
Standing(s, K, a, i) == Announces(s, K, a, i) /\ ~Ended(s, a, Len(s) + 1, i)
Said(s, f, c, i) == IF c = 0 THEN f[i] ELSE s[c]

(* It is right about the order i of the limits l, whose quantity may be    *)
(* misstated (M) or too large after trades (T); an order that has left the *)
(* book without trades is not known.                                       *)
WordOK(s, f, l, T, M, i) ==
  \A c \in 0 .. Len(s) : LastWord(s, DOMAIN f, c, i) =>
    /\ c = 0 \/ s[c].kind \in {"added", "modified"} => i \in DOMAIN l \cup T \cup {OtherOrder}
    /\ i \in DOMAIN l =>
         /\ c = 0 \/ s[c].kind \in {"added", "modified"}
         /\ i \notin M => Said(s, f, c, i).qty >= l[i].qty
         /\ i \notin M \cup T => Said(s, f, c, i).qty = l[i].qty
PlaceOK(s, f, l, i) ==
  \A a \in 0 .. Len(s) : i \in DOMAIN l /\ Standing(s, DOMAIN f, a, i) =>
    /\ Said(s, f, a, i).ticker = "this" /\ Said(s, f, a, i).side = l[i].side
    /\ Said(s, f, a, i).price = l[i].price
HereOK(s, K, i) == \E a \in 0 .. Len(s) : Standing(s, K, a, i)

(* When the first datagram is gone the others stand one place earlier. *)
LEMMA WordShift ==
  ASSUME NEW S, NEW s \in Seq(S), NEW t \in Seq(S), Dropped(s, t, 1), NEW K, NEW K1, NEW i,
         NEW c \in 1 .. Len(t)
  PROVE  /\ c + 1 \in 0 .. Len(s) /\ t[c] = s[c + 1]
         /\ LastWord(t, K1, c, i) => LastWord(s, K, c + 1, i)
         /\ Standing(t, K1, c, i) => Standing(s, K, c + 1, i)
<1>1. /\ Len(s) \in Nat /\ Len(t) = Len(s) - 1
      /\ \A j \in 1 .. Len(t) : t[j] = s[j + 1]
  BY LenProperties DEF Dropped
<1>2. c + 1 \in 1 .. Len(s) /\ t[c] = s[c + 1]
  BY <1>1
<1>3. ASSUME NEW d \in c + 2 .. Len(s)
      PROVE  d - 1 \in c + 1 .. Len(t) /\ t[d - 1] = s[d]
  BY <1>1
<1>4. LastWord(t, K1, c, i) => LastWord(s, K, c + 1, i)
  <2> SUFFICES ASSUME LastWord(t, K1, c, i), NEW d \in c + 2 .. Len(s)
               PROVE  s[d].id # i
    BY <1>2 DEF LastWord
  <2> QED BY <1>3 DEF LastWord
<1>5. Standing(t, K1, c, i) => Standing(s, K, c + 1, i)
  <2> SUFFICES ASSUME Standing(t, K1, c, i), NEW d \in c + 2 .. Len(s), Ends(s, d, i)
               PROVE  FALSE
    BY <1>1, <1>2 DEF Standing, Announces, Ended
  <2>1. Ends(t, d - 1, i)
    BY <1>3 DEF Ends
  <2> QED BY <1>1, <1>3, <2>1 DEF Standing, Ended
<1> QED BY <1>2, <1>4, <1>5

(* A client that knows nothing yet misses the first datagram. *)
LEMMA MirrorMisses ==
  ASSUME NEW S, NEW s \in Seq(S), NEW t \in Seq(S), Dropped(s, t, 1), NEW f, DOMAIN f = {},
         NEW l, NEW T, NEW M, NEW i, WordOK(s, f, l, T, M, i), PlaceOK(s, f, l, i)
  PROVE  WordOK(t, f, l, T, M, i) /\ PlaceOK(t, f, l, i)
<1>1. \A c \in 1 .. Len(t) : /\ c + 1 \in 0 .. Len(s) /\ t[c] = s[c + 1] /\ c + 1 # 0
                             /\ LastWord(t, DOMAIN f, c, i) => LastWord(s, DOMAIN f, c + 1, i)
                             /\ Standing(t, DOMAIN f, c, i) => Standing(s, DOMAIN f, c + 1, i)
  BY WordShift
<1>2. ~LastWord(t, DOMAIN f, 0, i) /\ ~Standing(t, DOMAIN f, 0, i)
  BY DEF LastWord, Standing, Announces
<1>3. Len(t) \in Nat
  BY LenProperties
<1>4. WordOK(t, f, l, T, M, i)
  <2> SUFFICES ASSUME NEW c \in 0 .. Len(t), LastWord(t, DOMAIN f, c, i)
               PROVE  /\ c = 0 \/ t[c].kind \in {"added", "modified"}
                           => i \in DOMAIN l \cup T \cup {OtherOrder}
                      /\ i \in DOMAIN l =>
                           /\ c = 0 \/ t[c].kind \in {"added", "modified"}
                           /\ i \notin M => Said(t, f, c, i).qty >= l[i].qty
                           /\ i \notin M \cup T => Said(t, f, c, i).qty = l[i].qty
    BY DEF WordOK
  <2>1. c \in 1 .. Len(t) /\ c # 0
    BY <1>2, <1>3
  <2>2. /\ c + 1 \in 0 .. Len(s) /\ LastWord(s, DOMAIN f, c + 1, i) /\ c + 1 # 0
        /\ t[c] = s[c + 1] /\ Said(t, f, c, i) = Said(s, f, c + 1, i)
    BY <1>1, <2>1 DEF Said
  <2> QED BY <2>1, <2>2 DEF WordOK
<1>5. PlaceOK(t, f, l, i)
  <2> SUFFICES ASSUME NEW a \in 0 .. Len(t), i \in DOMAIN l, Standing(t, DOMAIN f, a, i)
               PROVE  /\ Said(t, f, a, i).ticker = "this" /\ Said(t, f, a, i).side = l[i].side
                      /\ Said(t, f, a, i).price = l[i].price
    BY DEF PlaceOK
  <2>1. a \in 1 .. Len(t) /\ a # 0
    BY <1>2, <1>3
  <2>2. /\ a + 1 \in 0 .. Len(s) /\ Standing(s, DOMAIN f, a + 1, i)
        /\ Said(t, f, a, i) = Said(s, f, a + 1, i)
    BY <1>1, <2>1 DEF Said
  <2> QED BY <2>2 DEF PlaceOK
<1> QED BY <1>4, <1>5

(* What the client makes of the datagram m: g is f with m in it. *)
Takes(m, f, g, i) ==
  i \in DOMAIN g =>
    IF m.kind = "added" /\ m.id = i
    THEN /\ g[i].ticker = m.ticker /\ g[i].side = m.side /\ g[i].price = m.price
         /\ g[i].qty = m.qty
    ELSE /\ i \in DOMAIN f
         /\ g[i].ticker = f[i].ticker /\ g[i].side = f[i].side /\ g[i].price = f[i].price
         /\ IF m.id = i THEN m.kind = "modified" /\ g[i].qty = m.qty
                        ELSE g[i].qty = f[i].qty

(* What it has taken is no longer to come, and says the same. *)
LEMMA MirrorDeliver ==
  ASSUME NEW S, NEW s \in Seq(S), NEW t \in Seq(S), Dropped(s, t, 1), NEW f, NEW g,
         NEW l, NEW T, NEW M, NEW i, Takes(s[1], f, g, i),
         WordOK(s, f, l, T, M, i), PlaceOK(s, f, l, i)
  PROVE  WordOK(t, g, l, T, M, i) /\ PlaceOK(t, g, l, i)
<1>1. \A c \in 1 .. Len(t) : /\ c + 1 \in 0 .. Len(s) /\ t[c] = s[c + 1] /\ c + 1 # 0
                             /\ LastWord(t, DOMAIN g, c, i) => LastWord(s, DOMAIN f, c + 1, i)
                             /\ Standing(t, DOMAIN g, c, i) => Standing(s, DOMAIN f, c + 1, i)
  <2> DEFINE K == DOMAIN f
             K1 == DOMAIN g
  <2> HIDE DEF K, K1
  <2>1. \A c \in 1 .. Len(t) : /\ c + 1 \in 0 .. Len(s) /\ t[c] = s[c + 1]
                               /\ LastWord(t, K1, c, i) => LastWord(s, K, c + 1, i)
                               /\ Standing(t, K1, c, i) => Standing(s, K, c + 1, i)
    BY WordShift
  <2> QED BY <2>1 DEF K, K1
<1>2. /\ Len(s) \in Nat /\ Len(t) \in Nat /\ Len(t) = Len(s) - 1 /\ 1 \in 0 .. Len(s)
      /\ 0 \in 0 .. Len(s)
  BY LenProperties DEF Dropped
<1>3. \A d \in 2 .. Len(s) : d - 1 \in 1 .. Len(t) /\ t[d - 1] = s[d]
  BY <1>2 DEF Dropped
<1>4. WordOK(t, g, l, T, M, i)
  <2> SUFFICES ASSUME NEW c \in 0 .. Len(t), LastWord(t, DOMAIN g, c, i)
               PROVE  /\ c = 0 \/ t[c].kind \in {"added", "modified"}
                           => i \in DOMAIN l \cup T \cup {OtherOrder}
                      /\ i \in DOMAIN l =>
                           /\ c = 0 \/ t[c].kind \in {"added", "modified"}
                           /\ i \notin M => Said(t, g, c, i).qty >= l[i].qty
                           /\ i \notin M \cup T => Said(t, g, c, i).qty = l[i].qty
    BY DEF WordOK
  <2>1. CASE c # 0
    <3>1. c \in 1 .. Len(t)
      BY <1>2, <2>1
    <3>2. /\ c + 1 \in 0 .. Len(s) /\ LastWord(s, DOMAIN f, c + 1, i) /\ c + 1 # 0
          /\ t[c] = s[c + 1] /\ Said(t, g, c, i) = Said(s, f, c + 1, i)
      BY <1>1, <2>1, <3>1 DEF Said
    <3> QED BY <2>1, <3>2 DEF WordOK
  <2>2. CASE c = 0
    <3>1. i \in DOMAIN g /\ \A d \in 2 .. Len(s) : s[d].id # i
      BY <1>3, <2>2 DEF LastWord
    <3>2. CASE s[1].id = i
      <4>1. LastWord(s, DOMAIN f, 1, i)
        BY <3>1, <3>2 DEF LastWord
      <4>2. s[1].kind \in {"added", "modified"} /\ Said(t, g, c, i).qty = Said(s, f, 1, i).qty
        BY <2>2, <3>1, <3>2 DEF Takes, Said
      <4> QED BY <1>2, <2>2, <4>1, <4>2 DEF WordOK
    <3>3. CASE s[1].id # i
      <4>1. i \in DOMAIN f /\ Said(t, g, c, i).qty = Said(s, f, 0, i).qty
        BY <2>2, <3>1, <3>3 DEF Takes, Said
      <4>2. LastWord(s, DOMAIN f, 0, i)
        BY <1>2, <3>1, <3>3, <4>1 DEF LastWord
      <4> QED BY <1>2, <2>2, <4>1, <4>2 DEF WordOK
    <3> QED BY <3>2, <3>3
  <2> QED BY <2>1, <2>2
<1>5. PlaceOK(t, g, l, i)
  <2> SUFFICES ASSUME NEW a \in 0 .. Len(t), i \in DOMAIN l, Standing(t, DOMAIN g, a, i)
               PROVE  /\ Said(t, g, a, i).ticker = "this" /\ Said(t, g, a, i).side = l[i].side
                      /\ Said(t, g, a, i).price = l[i].price
    BY DEF PlaceOK
  <2>1. CASE a # 0
    <3>1. a \in 1 .. Len(t)
      BY <1>2, <2>1
    <3>2. /\ a + 1 \in 0 .. Len(s) /\ Standing(s, DOMAIN f, a + 1, i)
          /\ Said(t, g, a, i) = Said(s, f, a + 1, i)
      BY <1>1, <2>1, <3>1 DEF Said
    <3> QED BY <3>2 DEF PlaceOK
  <2>2. CASE a = 0
    <3>1. i \in DOMAIN g /\ \A d \in 2 .. Len(s) : ~Ends(s, d, i)
      <4>1. \A d \in 1 .. Len(t) : ~Ends(t, d, i)
        BY <1>2, <2>2 DEF Standing, Ended
      <4> QED BY <1>3, <2>2, <4>1 DEF Standing, Announces, Ends
    <3>2. CASE s[1].kind = "added" /\ s[1].id = i
      <4>1. Standing(s, DOMAIN f, 1, i)
        BY <1>2, <3>1, <3>2 DEF Standing, Announces, Ended
      <4>2. /\ Said(t, g, a, i).ticker = Said(s, f, 1, i).ticker
            /\ Said(t, g, a, i).side = Said(s, f, 1, i).side
            /\ Said(t, g, a, i).price = Said(s, f, 1, i).price
        BY <2>2, <3>1, <3>2 DEF Takes, Said
      <4> QED BY <1>2, <4>1, <4>2 DEF PlaceOK
    <3>3. CASE ~(s[1].kind = "added" /\ s[1].id = i)
      <4>1. i \in DOMAIN f /\ ~Ends(s, 1, i)
        BY <3>1, <3>3 DEF Takes, Ends
      <4>2. Standing(s, DOMAIN f, 0, i)
        BY <1>2, <3>1, <4>1 DEF Standing, Announces, Ended
      <4>3. /\ Said(t, g, a, i).ticker = Said(s, f, 0, i).ticker
            /\ Said(t, g, a, i).side = Said(s, f, 0, i).side
            /\ Said(t, g, a, i).price = Said(s, f, 0, i).price
        BY <2>2, <3>1, <3>3 DEF Takes, Said
      <4> QED BY <1>2, <4>2, <4>3 DEF PlaceOK
    <3> QED BY <3>2, <3>3
  <2> QED BY <2>1, <2>2
<1> QED BY <1>4, <1>5

(* An order that stands is not lost when the client takes what is first. *)
LEMMA HereDeliver ==
  ASSUME NEW S, NEW s \in Seq(S), NEW t \in Seq(S), Dropped(s, t, 1), NEW K, NEW K1, NEW i,
         i \in K /\ ~Ends(s, 1, i) => i \in K1,
         s[1].kind = "added" /\ s[1].id = i => i \in K1,
         HereOK(s, K, i)
  PROVE  HereOK(t, K1, i)
<1>1. /\ Len(s) \in Nat /\ Len(t) \in Nat /\ Len(t) = Len(s) - 1
      /\ \A j \in 1 .. Len(t) : t[j] = s[j + 1]
  BY LenProperties DEF Dropped
<1>2. PICK a \in 0 .. Len(s) : Standing(s, K, a, i)
  BY DEF HereOK
<1>3. \A c \in a + 1 .. Len(s) : ~Ends(s, c, i)
  BY <1>1, <1>2 DEF Standing, Ended
<1>4. CASE a \in {0, 1}
  <2>1. i \in K1
    <3>1. CASE a = 0
      BY <1>1, <1>2, <1>3, <3>1 DEF Standing, Announces, Dropped
    <3>2. CASE a = 1
      BY <1>2, <3>2 DEF Standing, Announces
    <3> QED BY <1>4, <3>1, <3>2
  <2>2. \A d \in 1 .. Len(t) : ~Ends(t, d, i)
    <3> SUFFICES ASSUME NEW d \in 1 .. Len(t) PROVE ~Ends(t, d, i)
      OBVIOUS
    <3>1. d + 1 \in a + 1 .. Len(s) /\ t[d] = s[d + 1]
      BY <1>1, <1>4
    <3> QED BY <1>3, <3>1 DEF Ends
  <2>3. Standing(t, K1, 0, i)
    BY <1>1, <2>1, <2>2 DEF Standing, Announces, Ended
  <2>4. 0 \in 0 .. Len(t)
    BY <1>1
  <2> QED BY <2>3, <2>4 DEF HereOK
<1>5. CASE a \notin {0, 1}
  <2> DEFINE b == a - 1
  <2>1. b \in 1 .. Len(t) /\ b # 0 /\ t[b] = s[a] /\ a = b + 1
    BY <1>1, <1>5
  <2>2. \A d \in b + 1 .. Len(t) : ~Ends(t, d, i)
    <3> SUFFICES ASSUME NEW d \in b + 1 .. Len(t) PROVE ~Ends(t, d, i)
      OBVIOUS
    <3>1. d + 1 \in a + 1 .. Len(s) /\ t[d] = s[d + 1]
      BY <1>1, <2>1
    <3> QED BY <1>3, <3>1 DEF Ends
  <2>3. Announces(t, K1, b, i)
    BY <1>2, <1>5, <2>1 DEF Standing, Announces
  <2> HIDE DEF b
  <2>4. Standing(t, K1, b, i) /\ b \in 0 .. Len(t)
    BY <1>1, <2>1, <2>2, <2>3 DEF Standing, Ended
  <2> QED BY <2>4 DEF HereOK
<1> QED BY <1>4, <1>5

(* Messages about other orders change nothing of what is said of i, and    *)
(* neither announcements nor cancels of it let it stand or fall.           *)
LEMMA MirrorMore ==
  ASSUME NEW S, NEW s \in Seq(S), NEW new \in Seq(S), NEW K, NEW i, NEW a \in 0 .. Len(s \o new)
  PROVE  /\ (\A k \in DOMAIN new : new[k].id # i) /\ LastWord(s \o new, K, a, i)
              => a \in 0 .. Len(s) /\ LastWord(s, K, a, i)
         /\ Standing(s \o new, K, a, i)
              => \/ a \in 0 .. Len(s) /\ Standing(s, K, a, i)
                 \/ \E k \in DOMAIN new : /\ a = Len(s) + k
                                          /\ new[k].kind = "added" /\ new[k].id = i
         /\ a \in 1 .. Len(s) => (s \o new)[a] = s[a]
<1> DEFINE t == s \o new
<1>1. /\ Len(s) \in Nat /\ Len(new) \in Nat /\ Len(t) = Len(s) + Len(new)
      /\ DOMAIN new = 1 .. Len(new)
      /\ \A j \in 1 .. Len(s) : t[j] = s[j]
      /\ \A j \in 1 .. Len(s) + Len(new) :
           j \notin 1 .. Len(s) => j - Len(s) \in 1 .. Len(new) /\ t[j] = new[j - Len(s)]
  BY ConcatAt, LenProperties
<1>2. Announces(t, K, a, i) => \/ a \in 0 .. Len(s) /\ Announces(s, K, a, i)
                               \/ \E k \in DOMAIN new : /\ a = Len(s) + k
                                                        /\ new[k].kind = "added" /\ new[k].id = i
  BY AnnouncedMore
<1>3. a \in 0 .. Len(t)
  OBVIOUS
<1> HIDE DEF t
<1>4. ASSUME \A k \in DOMAIN new : new[k].id # i, LastWord(t, K, a, i)
      PROVE  a \in 0 .. Len(s) /\ LastWord(s, K, a, i)
  <2>1. a \in 0 .. Len(s)
    <3>1. ASSUME a \notin 0 .. Len(s) PROVE FALSE
      <4>1. a # 0 /\ a - Len(s) \in DOMAIN new /\ t[a] = new[a - Len(s)]
        BY <1>1, <1>3, <3>1
      <4> QED BY <1>4, <4>1 DEF LastWord
    <3> QED BY <3>1
  <2>2. \A d \in a + 1 .. Len(s) : d \in a + 1 .. Len(t) /\ t[d] = s[d]
    BY <1>1, <1>3, <2>1
  <2>3. a # 0 => t[a] = s[a]
    BY <1>1, <2>1
  <2> QED BY <1>4, <2>1, <2>2, <2>3 DEF LastWord
<1>5. ASSUME Standing(t, K, a, i)
      PROVE  \/ a \in 0 .. Len(s) /\ Standing(s, K, a, i)
             \/ \E k \in DOMAIN new : /\ a = Len(s) + k
                                      /\ new[k].kind = "added" /\ new[k].id = i
  <2>1. CASE a \in 0 .. Len(s) /\ Announces(s, K, a, i)
    <3>1. \A c \in a + 1 .. Len(s) : c \in a + 1 .. Len(t) /\ t[c] = s[c]
      BY <1>1, <1>3, <2>1
    <3>2. ~Ended(s, a, Len(s) + 1, i)
      BY <1>1, <1>5, <3>1 DEF Standing, Ended, Ends
    <3> QED BY <2>1, <3>2 DEF Standing
  <2> QED BY <1>2, <1>5, <2>1 DEF Standing
<1> QED BY <1>1, <1>4, <1>5 DEF t

(* What stands is not moved by messages that are no cancel of it. *)
LEMMA HereMore ==
  ASSUME NEW S, NEW s \in Seq(S), NEW new \in Seq(S), NEW K, NEW i, HereOK(s, K, i),
         \A k \in DOMAIN new : new[k].id = i => new[k].kind # "cancelled"
  PROVE  HereOK(s \o new, K, i)
<1> DEFINE t == s \o new
<1>1. /\ Len(s) \in Nat /\ Len(new) \in Nat /\ Len(t) = Len(s) + Len(new)
      /\ DOMAIN new = 1 .. Len(new)
      /\ \A j \in 1 .. Len(s) : t[j] = s[j]
      /\ \A j \in 1 .. Len(s) + Len(new) :
           j \notin 1 .. Len(s) => j - Len(s) \in 1 .. Len(new) /\ t[j] = new[j - Len(s)]
  BY ConcatAt, LenProperties
<1> HIDE DEF t
<1>2. PICK a \in 0 .. Len(s) : Standing(s, K, a, i)
  BY DEF HereOK
<1>3. a \in 0 .. Len(t) /\ Announces(t, K, a, i)
  BY <1>1, <1>2 DEF Standing, Announces
<1>4. ASSUME NEW c \in a + 1 .. Len(t) PROVE ~Ends(t, c, i)
  <2>1. CASE c \in 1 .. Len(s)
    BY <1>1, <1>2, <2>1 DEF Standing, Ended, Ends
  <2>2. CASE c \notin 1 .. Len(s)
    <3>1. c - Len(s) \in DOMAIN new /\ t[c] = new[c - Len(s)]
      BY <1>1, <1>2, <2>2
    <3> QED BY <3>1 DEF Ends
  <2> QED BY <2>1, <2>2
<1>5. Standing(t, K, a, i)
  BY <1>1, <1>3, <1>4 DEF Standing, Ended
<1> QED BY <1>3, <1>5 DEF HereOK, t

(* The last of the new messages is the last word on its order. *)
LEMMA LastOfNew ==
  ASSUME NEW S, NEW s \in Seq(S), NEW new \in Seq(S), NEW K, NEW i,
         Len(new) # 0, new[Len(new)].id = i,
         NEW a \in 0 .. Len(s \o new), LastWord(s \o new, K, a, i)
  PROVE  a # 0 /\ (s \o new)[a] = new[Len(new)]
<1> DEFINE t == s \o new
<1>1. /\ Len(s) \in Nat /\ Len(new) \in Nat /\ Len(t) = Len(s) + Len(new)
      /\ \A j \in 1 .. Len(new) : t[Len(s) + j] = new[j]
  BY ConcatAt
<1>2. a \in 0 .. Len(t) /\ LastWord(t, K, a, i)
  OBVIOUS
<1> HIDE DEF t
<1>3. t[Len(t)] = new[Len(new)] /\ Len(t) # 0
  BY <1>1
<1>4. ~(Len(t) \in a + 1 .. Len(t))
  BY <1>2, <1>3 DEF LastWord
<1>5. a = Len(t)
  BY <1>1, <1>2, <1>4
<1> QED BY <1>3, <1>5 DEF t
-----------------------------------------------------------------------------
(***************************************************************************)
(* What a step of the book leaves true of an order i: it stays where it is *)
(* with its quantity, or with less when it is a trade, or is traded away.  *)
(***************************************************************************)
Stays(l, T, M, m, T1, M1, i) ==
  /\ i \in DOMAIN l => i \in DOMAIN m \cup T1
  /\ i \in T => i \in T1
  /\ i \in M => i \in M1
  /\ i \in DOMAIN m => /\ i \in DOMAIN l
                       /\ m[i].side = l[i].side /\ m[i].price = l[i].price
                       /\ l[i].qty \in Int /\ m[i].qty \in Int /\ m[i].qty <= l[i].qty
                       /\ i \notin T1 => m[i].qty = l[i].qty

(* The quantities are numbers, of the datagrams and of the orders. *)
Numbers(s, f) == /\ \A c \in DOMAIN s : s[c].kind \in {"added", "modified"} => s[c].qty \in Int
                 /\ \A j \in DOMAIN f : f[j].qty \in Int

(* Messages about other orders leave it right. *)
LEMMA MirrorStays ==
  ASSUME NEW S, NEW s \in Seq(S), NEW new \in Seq(S), NEW f, NEW l, NEW T, NEW M,
         NEW m, NEW T1, NEW M1, NEW i, Stays(l, T, M, m, T1, M1, i), Numbers(s, f),
         \A k \in DOMAIN new : new[k].id # i,
         WordOK(s, f, l, T, M, i), PlaceOK(s, f, l, i)
  PROVE  WordOK(s \o new, f, m, T1, M1, i) /\ PlaceOK(s \o new, f, m, i)
<1> DEFINE t == s \o new
<1>1. ASSUME NEW c \in 0 .. Len(t)
      PROVE  /\ LastWord(t, DOMAIN f, c, i)
                  => /\ c \in 0 .. Len(s) /\ LastWord(s, DOMAIN f, c, i)
                     /\ c # 0 => t[c] = s[c]
             /\ Standing(t, DOMAIN f, c, i)
                  => /\ c \in 0 .. Len(s) /\ Standing(s, DOMAIN f, c, i)
                     /\ c # 0 => t[c] = s[c]
  <2> DEFINE K == DOMAIN f
  <2> HIDE DEF K
  <2>1. /\ LastWord(t, K, c, i) => c \in 0 .. Len(s) /\ LastWord(s, K, c, i)
        /\ Standing(t, K, c, i) => c \in 0 .. Len(s) /\ Standing(s, K, c, i)
        /\ c \in 1 .. Len(s) => t[c] = s[c]
    BY MirrorMore
  <2>2. c # 0 /\ c \in 0 .. Len(s) => c \in 1 .. Len(s)
    OBVIOUS
  <2> QED BY <2>1, <2>2 DEF K
<1> HIDE DEF t
<1>2. WordOK(t, f, m, T1, M1, i)
  <2> SUFFICES ASSUME NEW c \in 0 .. Len(t), LastWord(t, DOMAIN f, c, i)
               PROVE  /\ c = 0 \/ t[c].kind \in {"added", "modified"}
                           => i \in DOMAIN m \cup T1 \cup {OtherOrder}
                      /\ i \in DOMAIN m =>
                           /\ c = 0 \/ t[c].kind \in {"added", "modified"}
                           /\ i \notin M1 => Said(t, f, c, i).qty >= m[i].qty
                           /\ i \notin M1 \cup T1 => Said(t, f, c, i).qty = m[i].qty
    BY DEF WordOK
  <2>1. /\ c \in 0 .. Len(s) /\ LastWord(s, DOMAIN f, c, i) /\ (c # 0 => t[c] = s[c])
        /\ Said(t, f, c, i) = Said(s, f, c, i)
    BY <1>1 DEF Said
  <2>2. /\ c = 0 \/ s[c].kind \in {"added", "modified"} => i \in DOMAIN l \cup T \cup {OtherOrder}
        /\ i \in DOMAIN l =>
             /\ c = 0 \/ s[c].kind \in {"added", "modified"}
             /\ i \notin M => Said(s, f, c, i).qty >= l[i].qty
             /\ i \notin M \cup T => Said(s, f, c, i).qty = l[i].qty
    BY <2>1 DEF WordOK
  <2>3. c = 0 \/ t[c].kind \in {"added", "modified"} => i \in DOMAIN m \cup T1 \cup {OtherOrder}
    BY <2>1, <2>2 DEF Stays
  <2>4. ASSUME i \in DOMAIN m
        PROVE  /\ c = 0 \/ t[c].kind \in {"added", "modified"}
               /\ i \notin M1 => Said(t, f, c, i).qty >= m[i].qty
               /\ i \notin M1 \cup T1 => Said(t, f, c, i).qty = m[i].qty
    <3>1. /\ i \in DOMAIN l /\ l[i].qty \in Int /\ m[i].qty \in Int /\ m[i].qty <= l[i].qty
          /\ i \notin T1 => m[i].qty = l[i].qty /\ i \notin T
          /\ i \notin M1 => i \notin M
      BY <2>4 DEF Stays
    <3>2. c = 0 \/ s[c].kind \in {"added", "modified"}
      BY <2>2, <3>1
    <3>3. Said(s, f, c, i).qty \in Int
      <4>1. c = 0 => i \in DOMAIN f
        BY <2>1 DEF LastWord
      <4>2. c # 0 => c \in DOMAIN s
        BY <2>1, LenProperties
      <4> QED BY <3>2, <4>1, <4>2 DEF Numbers, Said
    <3> QED BY <2>1, <2>2, <3>1, <3>2, <3>3
  <2> QED BY <2>3, <2>4
<1>3. PlaceOK(t, f, m, i)
  <2> SUFFICES ASSUME NEW a \in 0 .. Len(t), i \in DOMAIN m, Standing(t, DOMAIN f, a, i)
               PROVE  /\ Said(t, f, a, i).ticker = "this" /\ Said(t, f, a, i).side = m[i].side
                      /\ Said(t, f, a, i).price = m[i].price
    BY DEF PlaceOK
  <2>1. /\ a \in 0 .. Len(s) /\ Standing(s, DOMAIN f, a, i)
        /\ Said(t, f, a, i) = Said(s, f, a, i)
    BY <1>1 DEF Said
  <2>2. i \in DOMAIN l /\ m[i].side = l[i].side /\ m[i].price = l[i].price
    BY DEF Stays
  <2> QED BY <2>1, <2>2 DEF PlaceOK
<1> QED BY <1>2, <1>3 DEF t

(* The last message says that it has left, and so it has: or it says where *)
(* it is, and there it is.                                                 *)
LEMMA MirrorSays ==
  ASSUME NEW S, NEW s \in Seq(S), NEW new \in Seq(S), NEW f, NEW m, NEW T1, NEW M1, NEW i,
         Len(new) # 0, new[Len(new)].id = i,
         IF new[Len(new)].kind \in {"added", "modified"}
         THEN /\ i \in DOMAIN m \cup {OtherOrder}
              /\ i \in DOMAIN m /\ i \notin M1 =>
                   new[Len(new)].qty = m[i].qty /\ m[i].qty \in Int
         ELSE i \notin DOMAIN m
  PROVE  WordOK(s \o new, f, m, T1, M1, i)
<1> DEFINE t == s \o new
           n == new[Len(new)]
<1> SUFFICES ASSUME NEW c \in 0 .. Len(t), LastWord(t, DOMAIN f, c, i)
             PROVE  /\ c = 0 \/ t[c].kind \in {"added", "modified"}
                         => i \in DOMAIN m \cup T1 \cup {OtherOrder}
                    /\ i \in DOMAIN m =>
                         /\ c = 0 \/ t[c].kind \in {"added", "modified"}
                         /\ i \notin M1 => Said(t, f, c, i).qty >= m[i].qty
                         /\ i \notin M1 \cup T1 => Said(t, f, c, i).qty = m[i].qty
  BY DEF WordOK
<1>1. c # 0 /\ t[c] = n
  BY LastOfNew
<1>2. IF n.kind \in {"added", "modified"}
      THEN /\ i \in DOMAIN m \cup {OtherOrder}
           /\ i \in DOMAIN m /\ i \notin M1 => n.qty = m[i].qty /\ m[i].qty \in Int
      ELSE i \notin DOMAIN m
  OBVIOUS
<1> HIDE DEF t, n
<1> QED BY <1>1, <1>2 DEF Said

(* What a datagram does to the orders, when it adds none that is known and *)
(* fills none.                                                             *)
LEMMA ReceiveTakes ==
  ASSUME Feed!FeedData, NEW m \in Feed!Datagram, Feed!SmallData(m), Feed!Receive(m),
         m.kind \in {"added", "fill"} => m.id \notin DOMAIN orders, NEW i
  PROVE  /\ Takes(m, orders, orders', i)
         /\ i \in DOMAIN orders /\ ~(m.kind = "cancelled" /\ m.id = i) => i \in DOMAIN orders'
         /\ m.kind = "added" /\ m.id = i => i \in DOMAIN orders'
<1>1. /\ Feed!IsOrders(orders)
      /\ m.kind \in {"added", "modified"} => Feed!Signed(m.qty) = m.qty
  <2>1. ASSUME m.kind \in {"added", "modified"} PROVE Feed!Signed(m.qty) = m.qty
    <3>1. m.qty \in Book!Qty
      BY <2>1 DEF Feed!Datagram, Feed!AddOrderData, Feed!ModOrderData, Feed!CancelOrderData,
                  Feed!FillOrderData
    <3>2. Feed!Small(m.qty)
      BY <2>1 DEF Feed!SmallData
    <3> QED BY <3>1, <3>2, Assumptions, Feed!SignedInt
  <2> QED BY <2>1 DEF Feed!FeedData, Feed!DataOK
<1>2. CASE Feed!AddOrder(m)
  <2> DEFINE o == [ticker |-> m.ticker, side |-> m.side, price |-> m.price, qty |-> m.qty]
  <2>1. m.kind = "added" /\ orders' = Feed!Put(orders, m.id, o)
    BY <1>1, <1>2 DEF Feed!AddOrder
  <2>2. /\ DOMAIN orders' = DOMAIN orders \cup {m.id} /\ orders'[m.id] = o
        /\ \A j \in DOMAIN orders : j # m.id => orders'[j] = orders[j]
    <3> HIDE DEF o
    <3> QED BY <2>1 DEF Feed!Put
  <2> QED BY <2>1, <2>2 DEF Takes
<1>3. CASE Feed!CancelOrder(m)
  <2>1. /\ m.kind = "cancelled" /\ DOMAIN orders' = DOMAIN orders \ {m.id}
        /\ \A j \in DOMAIN orders \ {m.id} : orders'[j] = orders[j]
    BY <1>1, <1>3, Feed!WithoutOrder DEF Feed!CancelOrder
  <2> QED BY <2>1 DEF Takes
<1>4. CASE Feed!ModifyOrder(m)
  <2>1. /\ m.kind = "modified" /\ m.id \in DOMAIN orders
        /\ orders' = [orders EXCEPT ![m.id].qty = m.qty]
    BY <1>1, <1>4 DEF Feed!ModifyOrder
  <2>2. orders \in [DOMAIN orders -> Feed!KnownOrder]
    BY <1>1 DEF Feed!IsOrders
  <2>3. /\ DOMAIN orders' = DOMAIN orders
        /\ orders'[m.id] = [orders[m.id] EXCEPT !.qty = m.qty]
        /\ orders[m.id] \in Feed!KnownOrder
        /\ \A j \in DOMAIN orders \ {m.id} : orders'[j] = orders[j]
    BY <2>1, <2>2
  <2>4. /\ orders'[m.id].qty = m.qty /\ orders'[m.id].ticker = orders[m.id].ticker
        /\ orders'[m.id].side = orders[m.id].side /\ orders'[m.id].price = orders[m.id].price
    BY <2>3 DEF Feed!KnownOrder
  <2> QED BY <2>1, <2>3, <2>4 DEF Takes
<1>5. CASE Feed!UnknownOrder(m)
  BY <1>5 DEF Feed!UnknownOrder, Takes
<1>6. ~Feed!FillOrder(m)
  BY DEF Feed!FillOrder
<1> QED BY <1>2, <1>3, <1>4, <1>5, <1>6 DEF Feed!Receive
-----------------------------------------------------------------------------
(***************************************************************************)
(* The client's book when all has come, against the exchange's: orders     *)
(* that traded or were misstated so far, with what the running handler did *)
(* and has not yet recorded.                                               *)
(***************************************************************************)
TradedNow == (traded \ Restated) \cup Traded
MisstatedNow == (misstated \ Restated) \cup Misstated

(* The invariant: what is to come will leave each order i right.  A client *)
(* that came late may miss an announcement, but knows nothing wrong.       *)
Mirrors(i) ==
  /\ WordOK(Stream, orders, limitorders, TradedNow, MisstatedNow, i)
  /\ PlaceOK(Stream, orders, limitorders, i)
  /\ faults = {} /\ i \in DOMAIN limitorders => HereOK(Stream, DOMAIN orders, i)

MirrorOK == /\ Len(fills) % 2 = 0
            /\ InOrder /\ Lossless => \A i : Mirrors(i)

(* The numbers on the way to the client and at it. *)
LEMMA StreamNumbers ==
  ASSUME MarketInv
  PROVE  Stream \in Seq(Feed!Datagram) /\ Numbers(Stream, orders)
<1>1. Stream \in Seq(Feed!Datagram)
  BY StreamType
<1>2. \A m \in Feed!Datagram : m.kind \in {"added", "modified"} => m.qty \in Int
  BY Assumptions DEF Feed!Datagram, Feed!AddOrderData, Feed!ModOrderData, Feed!CancelOrderData,
     Feed!FillOrderData, Book!Qty
<1>3. \A c \in DOMAIN Stream : Stream[c] \in Feed!Datagram
  BY <1>1, LenProperties, ElementOfSeq
<1>4. \A j \in DOMAIN orders : orders[j].qty \in Int
  BY DEF MarketInv, Feed!FeedData, Feed!DataOK, Feed!IsOrders, Feed!KnownOrder
<1> QED BY <1>1, <1>2, <1>3, <1>4 DEF Numbers

(* The book does nothing and the stream moves on. *)
LEMMA TransportMirrors ==
  ASSUME MarketInv, MarketInv', SmallInv, HandlerShape, InOrder, Lossless, StreamOK, pc = "idle",
         UNCHANGED <<bookvars, traded, misstated, faults>>,
         Unmoved \/ LosesOne \/ (Deliver /\ HandsOver), NEW i, Mirrors(i)
  PROVE  Mirrors(i)'
<1>1. /\ limitorders' = limitorders /\ TradedNow' = TradedNow /\ MisstatedNow' = MisstatedNow
      /\ faults' = faults
  BY DEF bookvars, TradedNow, MisstatedNow, Traded, Restated, Misstated, SentOf
<1>2. Stream \in Seq(Feed!Datagram) /\ Stream' \in Seq(Feed!Datagram)
  BY StreamType, StreamTypeNext
<1> DEFINE s == Stream
           t == Stream'
<1>3. CASE Unmoved
  BY <1>1, <1>3 DEF Unmoved, Mirrors
<1>4. CASE LosesOne
  <2>1. Dropped(s, t, 1) /\ DOMAIN orders = {} /\ faults # {} /\ orders' = orders
    BY <1>4 DEF LosesOne
  <2>2. WordOK(s, orders, limitorders, TradedNow, MisstatedNow, i)
        /\ PlaceOK(s, orders, limitorders, i)
    BY DEF Mirrors
  <2>3. s \in Seq(Feed!Datagram) /\ t \in Seq(Feed!Datagram)
    BY <1>2
  <2> HIDE DEF s, t
  <2>4. WordOK(t, orders, limitorders, TradedNow, MisstatedNow, i)
        /\ PlaceOK(t, orders, limitorders, i)
    BY <2>1, <2>2, <2>3, MirrorMisses
  <2> QED BY <1>1, <2>1, <2>4 DEF Mirrors, t
<1>5. CASE Deliver /\ HandsOver
  <2> DEFINE m == s[1]
  <2>1. m \in SmallDatagram /\ Feed!Receive(m) /\ Dropped(s, t, 1)
    <3>1. PICK n \in DOMAIN network[Me] : /\ n = 1 \/ "swap" \in faults
                                          /\ Feed!Receive(network[Me][n]) /\ TakenFrom(n)
      BY <1>5 DEF Deliver
    <3>2. n = 1 /\ UNCHANGED bookvars /\ UNCHANGED restvars
      BY <1>5, <3>1 DEF InOrder, Deliver
    <3> QED
      BY <3>1, <3>2, NothingCut, CarriesTaken, FirstTaken DEF MarketInv, SmallInv, restvars
  <2>2. m.kind \in {"added", "fill"} => m.id \notin DOMAIN orders
    BY <1>2, <2>1, FirstIsNew DEF Tracked
  <2>3. /\ Takes(m, orders, orders', i)
        /\ i \in DOMAIN orders /\ ~Ends(s, 1, i) => i \in DOMAIN orders'
        /\ m.kind = "added" /\ m.id = i => i \in DOMAIN orders'
    <3>1. Feed!FeedData /\ m \in Feed!Datagram /\ Feed!SmallData(m)
      BY <2>1 DEF MarketInv, SmallDatagram
    <3> HIDE DEF m
    <3>2. /\ Takes(m, orders, orders', i)
          /\ i \in DOMAIN orders /\ ~(m.kind = "cancelled" /\ m.id = i) => i \in DOMAIN orders'
          /\ m.kind = "added" /\ m.id = i => i \in DOMAIN orders'
      BY <2>1, <2>2, <3>1, ReceiveTakes
    <3> QED BY <3>2 DEF Ends, m
  <2>4. /\ WordOK(s, orders, limitorders, TradedNow, MisstatedNow, i)
        /\ PlaceOK(s, orders, limitorders, i)
        /\ faults = {} /\ i \in DOMAIN limitorders => HereOK(s, DOMAIN orders, i)
    BY DEF Mirrors
  <2>5. s \in Seq(Feed!Datagram) /\ t \in Seq(Feed!Datagram)
    BY <1>2
  <2> HIDE DEF s, t
  <2>6. WordOK(t, orders', limitorders, TradedNow, MisstatedNow, i)
        /\ PlaceOK(t, orders', limitorders, i)
    BY <2>1, <2>3, <2>4, <2>5, MirrorDeliver
  <2>7. faults = {} /\ i \in DOMAIN limitorders => HereOK(t, DOMAIN orders', i)
    <3> DEFINE K == DOMAIN orders
               K1 == DOMAIN orders'
    <3>1. /\ i \in K /\ ~Ends(s, 1, i) => i \in K1
          /\ s[1].kind = "added" /\ s[1].id = i => i \in K1
      BY <2>3
    <3>2. faults = {} /\ i \in DOMAIN limitorders => HereOK(s, K, i)
      BY <2>4
    <3> HIDE DEF K, K1
    <3>3. HereOK(s, K, i) => HereOK(t, K1, i)
      BY <2>1, <2>5, <3>1, HereDeliver
    <3> QED BY <3>2, <3>3 DEF K1
  <2> QED BY <1>1, <2>6, <2>7 DEF Mirrors, t
<1> QED BY <1>3, <1>4, <1>5

-----------------------------------------------------------------------------
(***************************************************************************)
(* The steps of the book, which only add to the stream.                    *)
(***************************************************************************)
StaysNow(i) == Stays(limitorders, TradedNow, MisstatedNow,
                     limitorders', TradedNow', MisstatedNow', i)

(* New datagrams about other orders leave an order right that stays. *)
LEMMA StreamMirrors ==
  ASSUME MarketInv, NEW d \in Seq(Feed!Datagram), Stream' = Stream \o d,
         UNCHANGED <<orders, faults>>, NEW i, \A k \in DOMAIN d : d[k].id # i,
         Mirrors(i), StaysNow(i)
  PROVE  Mirrors(i)'
<1> DEFINE s == Stream
           K == DOMAIN orders
<1>1. s \in Seq(Feed!Datagram) /\ Numbers(s, orders)
  BY StreamNumbers
<1>2. /\ WordOK(s, orders, limitorders, TradedNow, MisstatedNow, i)
      /\ PlaceOK(s, orders, limitorders, i)
      /\ faults = {} /\ i \in DOMAIN limitorders => HereOK(s, K, i)
  BY DEF Mirrors
<1>3. Stream' = s \o d
  OBVIOUS
<1>4. Stays(limitorders, TradedNow, MisstatedNow, limitorders', TradedNow', MisstatedNow', i)
  BY DEF StaysNow
<1>5. i \in DOMAIN limitorders' => i \in DOMAIN limitorders
  BY <1>4 DEF Stays
<1> HIDE DEF s, K
<1>6. /\ WordOK(s \o d, orders, limitorders', TradedNow', MisstatedNow', i)
      /\ PlaceOK(s \o d, orders, limitorders', i)
  BY <1>1, <1>2, <1>4, MirrorStays
<1>7. faults = {} /\ i \in DOMAIN limitorders' => HereOK(s \o d, K, i)
  <2> SUFFICES ASSUME HereOK(s, K, i) PROVE HereOK(s \o d, K, i)
    BY <1>2, <1>5
  <2> QED BY <1>1, HereMore
<1> QED BY <1>3, <1>6, <1>7 DEF Mirrors, K

(* The last word on an order may be that it has left. *)
LEMMA StreamGone ==
  ASSUME MarketInv, NEW d \in Seq(Feed!Datagram), Stream' = Stream \o d,
         UNCHANGED <<orders, faults>>, NEW i, Len(d) # 0, d[Len(d)].id = i,
         d[Len(d)].kind \in {"added", "modified"} => i = OtherOrder,
         i \notin DOMAIN limitorders'
  PROVE  Mirrors(i)'
<1> DEFINE s == Stream
<1>1. s \in Seq(Feed!Datagram)
  BY StreamType
<1>2. Stream' = s \o d
  OBVIOUS
<1> HIDE DEF s
<1>3. WordOK(s \o d, orders, limitorders', TradedNow', MisstatedNow', i)
  BY <1>1, MirrorSays
<1>4. PlaceOK(s \o d, orders, limitorders', i)
  BY DEF PlaceOK
<1> QED BY <1>2, <1>3, <1>4 DEF Mirrors

(* A message that modifies an order leaves its place right, *)
LEMMA StreamModifies ==
  ASSUME MarketInv, NEW d \in Seq(Feed!Datagram), Stream' = Stream \o d,
         UNCHANGED <<orders, faults>>, NEW i, Len(d) = 1, d[1].id = i, d[1].kind = "modified",
         i \in DOMAIN limitorders \cap DOMAIN limitorders',
         limitorders'[i].side = limitorders[i].side,
         limitorders'[i].price = limitorders[i].price,
         i \notin MisstatedNow' => d[1].qty = limitorders'[i].qty /\ limitorders'[i].qty \in Int,
         Mirrors(i)
  PROVE  Mirrors(i)'
<1> DEFINE s == Stream
           K == DOMAIN orders
           t == s \o d
<1>1. s \in Seq(Feed!Datagram)
  BY StreamType
<1>2. Stream' = t /\ DOMAIN d = {1}
  BY LenProperties
<1>3. PlaceOK(s, orders, limitorders, i) /\ (faults = {} => HereOK(s, K, i))
  BY DEF Mirrors
<1> HIDE DEF s, K
<1>4. WordOK(t, orders, limitorders', TradedNow', MisstatedNow', i)
  <2>1. /\ s \in Seq(Feed!Datagram) /\ d \in Seq(Feed!Datagram)
        /\ Len(d) # 0 /\ d[Len(d)].id = i
        /\ IF d[Len(d)].kind \in {"added", "modified"}
           THEN /\ i \in DOMAIN limitorders' \cup {OtherOrder}
                /\ i \in DOMAIN limitorders' /\ i \notin MisstatedNow' =>
                     d[Len(d)].qty = limitorders'[i].qty /\ limitorders'[i].qty \in Int
           ELSE i \notin DOMAIN limitorders'
    BY <1>1
  <2> QED BY ONLY <2>1, MirrorSays
<1>5. faults = {} => HereOK(t, K, i)
  <2> SUFFICES ASSUME HereOK(s, K, i) PROVE HereOK(t, K, i)
    BY <1>3
  <2> QED BY <1>1, <1>2, HereMore
<1>6. PlaceOK(t, orders, limitorders', i)
  <2> SUFFICES ASSUME NEW a \in 0 .. Len(t), Standing(t, K, a, i)
               PROVE  /\ Said(t, orders, a, i).ticker = "this"
                      /\ Said(t, orders, a, i).side = limitorders[i].side
                      /\ Said(t, orders, a, i).price = limitorders[i].price
    BY DEF PlaceOK, K
  <2>1. /\ a \in 0 .. Len(s) /\ Standing(s, K, a, i)
        /\ a \in 1 .. Len(s) => t[a] = s[a]
    <3>1. /\ \/ a \in 0 .. Len(s) /\ Standing(s, K, a, i)
             \/ \E k \in DOMAIN d : a = Len(s) + k /\ d[k].kind = "added" /\ d[k].id = i
          /\ a \in 1 .. Len(s) => t[a] = s[a]
      BY <1>1, MirrorMore
    <3> QED BY <1>2, <3>1
  <2>2. Said(t, orders, a, i) = Said(s, orders, a, i)
    BY <2>1 DEF Said
  <2> QED BY <1>3, <2>1, <2>2 DEF PlaceOK, K
<1> QED BY <1>2, <1>4, <1>5, <1>6 DEF Mirrors, K

(* and one that announces it, when no earlier announcement stands, says    *)
(* where it is.                                                            *)
LEMMA StreamAnnounces ==
  ASSUME MarketInv, NEW d \in Seq(Feed!Datagram), Stream' = Stream \o d,
         UNCHANGED <<orders, faults>>, NEW i, Len(d) = 1, d[1].id = i, d[1].kind = "added",
         i \in DOMAIN limitorders', d[1].ticker = "this",
         d[1].side = limitorders'[i].side, d[1].price = limitorders'[i].price,
         d[1].qty = limitorders'[i].qty, limitorders'[i].qty \in Int,
         Free(Stream, DOMAIN orders, TRUE, i)
  PROVE  Mirrors(i)'
<1> DEFINE s == Stream
           K == DOMAIN orders
           t == s \o d
<1>1. s \in Seq(Feed!Datagram)
  BY StreamType
<1>2. Stream' = t /\ DOMAIN d = {1} /\ Free(s, K, TRUE, i)
  <2>1. DOMAIN d = {1}
    BY LenProperties
  <2> QED BY <2>1
<1> HIDE DEF s, K
<1>3. /\ Len(s) \in Nat /\ Len(t) = Len(s) + 1 /\ t[Len(s) + 1] = d[1]
  <2>1. /\ Len(s) \in Nat /\ Len(t) = Len(s) + Len(d)
        /\ \A j \in 1 .. Len(d) : t[Len(s) + j] = d[j]
    <3>1. d \in Seq(Feed!Datagram)
      OBVIOUS
    <3> QED BY ONLY <1>1, <3>1, ConcatAt
  <2> QED BY <2>1
<1>4. WordOK(t, orders, limitorders', TradedNow', MisstatedNow', i)
  <2>1. /\ s \in Seq(Feed!Datagram) /\ d \in Seq(Feed!Datagram)
        /\ Len(d) # 0 /\ d[Len(d)].id = i
        /\ IF d[Len(d)].kind \in {"added", "modified"}
           THEN /\ i \in DOMAIN limitorders' \cup {OtherOrder}
                /\ i \in DOMAIN limitorders' /\ i \notin MisstatedNow' =>
                     d[Len(d)].qty = limitorders'[i].qty /\ limitorders'[i].qty \in Int
           ELSE i \notin DOMAIN limitorders'
    BY <1>1
  <2> QED BY ONLY <2>1, MirrorSays
<1>5. HereOK(t, K, i)
  <2> DEFINE a == Len(s) + 1
  <2>1. a \in 0 .. Len(t) /\ Announces(t, K, a, i) /\ ~Ended(t, a, Len(t) + 1, i)
    BY <1>3 DEF Announces, Ended
  <2> HIDE DEF a
  <2> QED BY <2>1 DEF HereOK, Standing
<1>6. PlaceOK(t, orders, limitorders', i)
  <2> SUFFICES ASSUME NEW a \in 0 .. Len(t), Standing(t, K, a, i)
               PROVE  /\ Said(t, orders, a, i).ticker = "this"
                      /\ Said(t, orders, a, i).side = limitorders'[i].side
                      /\ Said(t, orders, a, i).price = limitorders'[i].price
    BY DEF PlaceOK, K
  <2>1. \/ a \in 0 .. Len(s) /\ Standing(s, K, a, i)
        \/ \E k \in DOMAIN d : a = Len(s) + k /\ d[k].kind = "added" /\ d[k].id = i
    BY <1>1, MirrorMore
  <2>2. ~(a \in 0 .. Len(s) /\ Standing(s, K, a, i))
    BY <1>2 DEF Free, Standing
  <2>3. a = Len(s) + 1
    BY <1>2, <2>1, <2>2
  <2>4. Said(t, orders, a, i) = d[1]
    BY <1>3, <2>3 DEF Said
  <2> QED BY <2>4
<1> QED BY <1>2, <1>4, <1>5, <1>6 DEF Mirrors, K

(* What the handler has recorded of an order that no message is about      *)
(* stays recorded, and more trades are recorded with it.                   *)
LEMMA GhostsGrow ==
  ASSUME MarketInv, HandlerShape, pc # "return", UNCHANGED <<traded, misstated>>,
         NEW new \in Seq(Book!Message), sent' = sent \o new, Traded \subseteq Traded',
         NEW i, \A k \in DOMAIN new : new[k].id # i
  PROVE  /\ i \in TradedNow => i \in TradedNow'
         /\ i \in MisstatedNow => i \in MisstatedNow'
<1>1. sent \in Seq(Book!Message)
  BY DEF MarketInv, Book!TypeOK
<1>2. /\ DOMAIN sent = 1 .. Len(sent) /\ DOMAIN new = 1 .. Len(new)
      /\ DOMAIN sent' = 1 .. Len(sent) + Len(new)
      /\ \A j \in 1 .. Len(sent) : sent'[j] = sent[j]
      /\ \A j \in 1 .. Len(sent) + Len(new) :
           j \notin 1 .. Len(sent) =>
             j - Len(sent) \in 1 .. Len(new) /\ sent'[j] = new[j - Len(sent)]
  <2>1. sent \in Seq(Book!Message) /\ new \in Seq(Book!Message)
    BY <1>1
  <2>2. /\ DOMAIN (sent \o new) = 1 .. Len(sent) + Len(new)
        /\ \A j \in 1 .. Len(sent) : (sent \o new)[j] = sent[j]
        /\ \A j \in 1 .. Len(sent) + Len(new) :
             j \notin 1 .. Len(sent) =>
               j - Len(sent) \in 1 .. Len(new) /\ (sent \o new)[j] = new[j - Len(sent)]
    BY ONLY <2>1, ConcatAt
  <2> QED BY <2>1, <2>2, LenProperties
<1>3. ASSUME i \in Restated' PROVE i \in Restated
  <2>1. PICK k \in DOMAIN sent' : sent'[k].kind \in {"added", "modified", "cancelled"}
                                  /\ sent'[k].id = i
    BY <1>3 DEF Restated, SentOf
  <2>2. k \in 1 .. Len(sent) /\ sent'[k] = sent[k]
    BY <1>2, <2>1
  <2> QED BY <1>2, <2>1, <2>2 DEF Restated, SentOf
<1>4. Misstated = {}
  BY DEF Misstated, SentOf, HandlerShape
<1> QED BY <1>3, <1>4 DEF TradedNow, MisstatedNow

(* An order that the step does not touch stays. *)
LEMMA StaysWhole ==
  ASSUME MarketInv, NEW i, i \in TradedNow => i \in TradedNow',
         i \in MisstatedNow => i \in MisstatedNow',
         i \in DOMAIN limitorders' => i \in DOMAIN limitorders,
         i \in DOMAIN limitorders =>
           /\ i \in DOMAIN limitorders'
           /\ limitorders'[i].side = limitorders[i].side
           /\ limitorders'[i].price = limitorders[i].price
           /\ limitorders'[i].qty = limitorders[i].qty
  PROVE  StaysNow(i)
<1>1. i \in DOMAIN limitorders => limitorders[i].qty \in Int
  BY Assumptions DEF MarketInv, Book!TypeOK, Book!IsLimits, Book!Limit, Book!Qty
<1> QED BY <1>1 DEF StaysNow, Stays

(* A step of the book that leaves an order as it is. *)
LEMMA BookMirrors ==
  ASSUME MarketInv, MarketInv', HandlerShape, pc # "return",
         UNCHANGED <<platformvars, feed, orders, traded, misstated>>,
         NEW new \in Seq(Book!Message), sent' = sent \o new, Traded \subseteq Traded',
         NEW i, Mirrors(i), \A k \in DOMAIN new : new[k].id # i,
         i \in DOMAIN limitorders' => i \in DOMAIN limitorders,
         i \in DOMAIN limitorders =>
           /\ i \in DOMAIN limitorders'
           /\ limitorders'[i].side = limitorders[i].side
           /\ limitorders'[i].price = limitorders[i].price
           /\ limitorders'[i].qty = limitorders[i].qty
  PROVE  Mirrors(i)'
<1>1. StaysNow(i)
  BY GhostsGrow, StaysWhole
<1> DEFINE d == DataOf(new)
<1>2. /\ Stream' = Stream \o d /\ d \in Seq(Feed!Datagram)
      /\ \A k \in DOMAIN d : d[k].id # i
  BY SentMoves
<1>3. orders' = orders /\ faults' = faults
  BY DEF platformvars
<1> HIDE DEF d
<1> QED BY <1>1, <1>2, <1>3, StreamMirrors

(* The order of the only new message. *)
LEMMA OneSent ==
  ASSUME MarketInv, MarketInv', UNCHANGED <<platformvars, feed>>, NEW m,
         m.kind \in {"added", "cancelled", "modified"},
         sent' = Append(sent, m)
  PROVE  /\ <<m>> \in Seq(Book!Message) /\ sent' = sent \o <<m>>
         /\ DOMAIN <<m>> = {1} /\ <<m>>[1] = m
         /\ \E d \in Seq(Feed!Datagram) :
              /\ Stream' = Stream \o d /\ Len(d) = 1 /\ d[1] = Layout(AsData(m))
              /\ d[1].kind = m.kind /\ d[1].id = m.id
<1>1. sent \in Seq(Book!Message) /\ sent' \in Seq(Book!Message)
  BY DEF MarketInv, Book!TypeOK
<1>2. m \in Book!Message
  <2> DEFINE S == Book!Message \cup {m}
  <2>1. sent \in Seq(S) /\ m \in S
    BY <1>1, SeqMonotonic
  <2> HIDE DEF S
  <2>2. /\ Len(Append(sent, m)) = Len(sent) + 1 /\ Append(sent, m)[Len(sent) + 1] = m
        /\ Len(sent) \in Nat
    BY <2>1, AppendProperties, LenProperties
  <2> QED BY <1>1, <2>2, ElementOfSeq
<1> DEFINE new == <<m>>
<1>3. /\ new \in Seq(Book!Message) /\ DOMAIN new = {1} /\ new[1] = m /\ Len(new) = 1
      /\ sent' = sent \o new
  BY <1>1, <1>2, AppendIsConcat
<1> HIDE DEF new
<1> DEFINE d == DataOf(new)
<1>4. /\ Stream' = Stream \o d /\ d \in Seq(Feed!Datagram) /\ Len(d) = 1
      /\ d[1] = Layout(AsData(new[1])) /\ d[1].kind = new[1].kind /\ d[1].id = new[1].id
  <2>1. 1 \in DOMAIN new
    BY <1>3
  <2> QED BY <1>3, <2>1, SentMoves
<1> HIDE DEF d
<1>5. /\ Stream' = Stream \o d /\ Len(d) = 1 /\ d[1] = Layout(AsData(m))
      /\ d[1].kind = m.kind /\ d[1].id = m.id
  BY <1>3, <1>4
<1> QED BY <1>3, <1>4, <1>5 DEF new

(* A request for a resting order: cancelled it has left the book, also if  *)
(* it is to come back at another price, and modified it stays.             *)
LEMMA RequestMirrors ==
  ASSUME MarketInv, MarketInv', SolidBook, HandlerShape,
         UNCHANGED <<platformvars, feed, orders, traded, misstated>>,
         \/ \E u, s, p, q : Book!AddOrder(u, s, p, q)
         \/ \E i, u : Book!CancelOrder(i, u)
         \/ \E i, u, s, p, q : \/ Book!ModifyQuantity(i, u, s, p, q)
                               \/ Book!ModifyPrice(i, u, s, p, q),
         NEW i, Mirrors(i)
  PROVE  Mirrors(i)'
<1>1. /\ pc = "idle" /\ pc # "return" /\ sent = << >> /\ sent \in Seq(Book!Message)
      /\ platformvars' = platformvars /\ feed' = feed /\ orders' = orders
      /\ traded' = traded /\ misstated' = misstated /\ faults' = faults
  <2>1. pc = "idle"
    BY DEF Book!AddOrder, Book!CancelOrder, Book!ModifyQuantity, Book!ModifyPrice, Book!Idle
  <2> QED BY <2>1 DEF HandlerShape, MarketInv, Book!TypeOK, platformvars
<1>2. ASSUME NEW u, NEW s, NEW p, NEW q, Book!AddOrder(u, s, p, q)
      PROVE  Mirrors(i)'
  <2>1. UNCHANGED <<limitorders, sent, fills>>
    BY <1>2 DEF Book!AddOrder
  <2> DEFINE new == << >>
  <2>2. new \in Seq(Book!Message) /\ sent' = sent \o new /\ DOMAIN new = {}
    BY <1>1, <2>1, ConcatEmptySeq, EmptySeq
  <2> HIDE DEF new
  <2>3. Traded' = Traded
    BY <2>1 DEF Traded
  <2> QED BY <1>1, <2>1, <2>2, <2>3, BookMirrors
<1>3. ASSUME NEW x, Book!RemoveLimit(x), x \in DOMAIN limitorders,
             sent' = <<Book!Cancelled(x)>>, fills' = fills
      PROVE  Mirrors(i)'
  <2> DEFINE m == Book!Cancelled(x)
  <2>1. m.kind = "cancelled" /\ m.id = x /\ sent' = Append(sent, m)
    BY <1>1, <1>3 DEF Book!Cancelled
  <2> HIDE DEF m
  <2>2. PICK d \in Seq(Feed!Datagram) :
          /\ Stream' = Stream \o d /\ Len(d) = 1 /\ d[1] = Layout(AsData(m))
          /\ d[1].kind = m.kind /\ d[1].id = m.id
    BY <1>1, <2>1, OneSent
  <2>3. /\ DOMAIN limitorders' = Book!Live \ {x}
        /\ \A k \in Book!Live \ {x} :
             /\ Book!SameOrder(limitorders[k], limitorders'[k])
             /\ limitorders'[k].qty = limitorders[k].qty
    BY <1>3, Assumptions, Book!RemoveLimitKeeps
       DEF SolidBook, Book!SolidInv, Book!Live, Book!ConstantAssumption
  <2>4. CASE i = x
    <3>1. /\ Len(d) # 0 /\ d[Len(d)].id = i /\ d[Len(d)].kind = "cancelled"
          /\ i \notin DOMAIN limitorders'
      BY <2>1, <2>2, <2>3, <2>4
    <3> QED BY <1>1, <2>2, <3>1, StreamGone
  <2>5. CASE i # x
    <3> DEFINE new == <<m>>
    <3>1. new \in Seq(Book!Message) /\ sent' = sent \o new /\ DOMAIN new = {1} /\ new[1] = m
      BY <1>1, <2>1, OneSent
    <3> HIDE DEF new
    <3>2. /\ \A k \in DOMAIN new : new[k].id # i
          /\ Traded' = Traded
      BY <1>3, <2>1, <2>5, <3>1 DEF Traded
    <3>3. /\ i \in DOMAIN limitorders' <=> i \in DOMAIN limitorders
          /\ i \in DOMAIN limitorders =>
               /\ limitorders'[i].side = limitorders[i].side
               /\ limitorders'[i].price = limitorders[i].price
               /\ limitorders'[i].qty = limitorders[i].qty
      BY <2>3, <2>5 DEF Book!Live, Book!SameOrder
    <3> QED BY <1>1, <3>1, <3>2, <3>3, BookMirrors
  <2> QED BY <2>4, <2>5
<1>4. ASSUME NEW x, NEW u, Book!CancelOrder(x, u)
      PROVE  Mirrors(i)'
  <2>1. /\ Book!RemoveLimit(x) /\ sent' = <<Book!Cancelled(x)>> /\ fills' = fills
        /\ Book!CancelErrors(x, u) = << >>
    BY <1>4 DEF Book!CancelOrder
  <2>2. x \in DOMAIN limitorders
    <3>1. ASSUME NEW why PROVE <<Book!Reject(why)>> # << >>
      OBVIOUS
    <3> QED BY <2>1, <3>1 DEF Book!CancelErrors
  <2> QED BY <1>3, <2>1, <2>2
<1>5. ASSUME NEW x, NEW u, NEW s, NEW p, NEW q, Book!ModifyPrice(x, u, s, p, q)
      PROVE  Mirrors(i)'
  <2>1. /\ Book!RemoveLimit(x) /\ sent' = <<Book!Cancelled(x)>> /\ fills' = fills
        /\ Book!ModifyErrors(x, u, s, p, q) = << >>
    BY <1>5 DEF Book!ModifyPrice
  <2> QED BY <1>3, <2>1, ModifyNotZero
<1>6. ASSUME NEW x, NEW u, NEW s, NEW p, NEW q, Book!ModifyQuantity(x, u, s, p, q)
      PROVE  Mirrors(i)'
  <2> DEFINE m == Book!Modified(x, q)
             y == Book!ModifiedQty(limitorders[x], q)
  <2>1. /\ sent' = <<m>> /\ fills' = fills /\ x \in DOMAIN limitorders
        /\ limitorders' = [limitorders EXCEPT ![x].qty = y]
    BY <1>6, ModifyNotZero DEF Book!ModifyQuantity
  <2>2. m.kind = "modified" /\ m.id = x /\ m.qty = q /\ sent' = Append(sent, m)
        /\ AsData(m) = m /\ Layout(m) = [kind |-> "modified", id |-> x, qty |-> q]
    BY <1>1, <2>1 DEF Book!Modified, AsData, Layout
  <2>3. /\ DOMAIN sent' = {1} /\ sent'[1] = m
    BY <2>1
  <2> HIDE DEF m, y
  <2>4. PICK d \in Seq(Feed!Datagram) :
          /\ Stream' = Stream \o d /\ Len(d) = 1 /\ d[1] = Layout(AsData(m))
          /\ d[1].kind = m.kind /\ d[1].id = m.id
    BY <1>1, <2>2, OneSent
  <2>5. /\ limitorders \in [DOMAIN limitorders -> Book!Limit]
        /\ limitorders' \in [DOMAIN limitorders' -> Book!Limit]
    BY DEF MarketInv, Book!TypeOK, Book!IsLimits
  <2>6. /\ DOMAIN limitorders' = DOMAIN limitorders
        /\ limitorders'[x] = [limitorders[x] EXCEPT !.qty = y]
        /\ limitorders[x] \in Book!Limit
        /\ \A k \in DOMAIN limitorders \ {x} : limitorders'[k] = limitorders[k]
    BY <2>1, <2>5
  <2>7. CASE i = x
    <3>1. /\ limitorders'[x].side = limitorders[x].side
          /\ limitorders'[x].price = limitorders[x].price
      BY <2>6 DEF Book!Limit
    <3>2. limitorders'[x].qty \in Int
      BY <2>1, <2>5, <2>6, Assumptions DEF Book!Limit, Book!Qty
    <3>3. d[1].qty = q /\ d[1].kind = "modified" /\ d[1].id = x
      BY <2>2, <2>4
    <3>4. x \notin MisstatedNow' => q = limitorders'[x].qty
      BY <2>2, <2>3 DEF MisstatedNow, Misstated, SentOf
    <3>5. x \in DOMAIN limitorders \cap DOMAIN limitorders'
      BY <2>1, <2>6
    <3>6. UNCHANGED <<orders, faults>> /\ Mirrors(x)
      BY <1>1, <2>7
    <3>7. x \notin MisstatedNow' => d[1].qty = limitorders'[x].qty /\ limitorders'[x].qty \in Int
      BY <3>2, <3>3, <3>4
    <3> QED BY <2>4, <2>7, <3>1, <3>3, <3>5, <3>6, <3>7, StreamModifies
  <2>8. CASE i # x
    <3> DEFINE new == <<m>>
    <3>1. new \in Seq(Book!Message) /\ sent' = sent \o new /\ DOMAIN new = {1} /\ new[1] = m
      BY <1>1, <2>2, OneSent
    <3> HIDE DEF new
    <3>2. /\ \A k \in DOMAIN new : new[k].id # i
          /\ Traded' = Traded
      BY <2>1, <2>2, <2>8, <3>1 DEF Traded
    <3>3. /\ i \in DOMAIN limitorders' <=> i \in DOMAIN limitorders
          /\ i \in DOMAIN limitorders =>
               /\ limitorders'[i].side = limitorders[i].side
               /\ limitorders'[i].price = limitorders[i].price
               /\ limitorders'[i].qty = limitorders[i].qty
      BY <2>6, <2>8
    <3> QED BY <1>1, <3>1, <3>2, <3>3, BookMirrors
  <2> QED BY <2>7, <2>8
<1> QED BY <1>2, <1>4, <1>5, <1>6

(* What a match does to the limits: the resting order is smaller or gone,  *)
(* and has been recorded as traded.                                        *)
LEMMA MatchStays ==
  ASSUME QuantitiesFit, MarketInv, SolidBook, Len(fills) % 2 = 0,
         Book!FillResting \/ Book!FillIncoming
  PROVE  /\ Traded \subseteq Traded' /\ book_order \in Traded' /\ sent' = sent /\ pc = "fill"
         /\ \A i : /\ i \in DOMAIN limitorders => i \in DOMAIN limitorders' \/ i = book_order
                   /\ i \in DOMAIN limitorders' =>
                        /\ i \in DOMAIN limitorders
                        /\ limitorders'[i].side = limitorders[i].side
                        /\ limitorders'[i].price = limitorders[i].price
                        /\ limitorders'[i].qty <= limitorders[i].qty
                        /\ i # book_order => limitorders'[i].qty = limitorders[i].qty
<1>1. /\ pc = "fill" /\ book_order \in Book!Live /\ sent' = sent /\ Book!TypeOK
      /\ Book!IsLimits(limitorders) /\ Book!BookInv /\ Book!ListInv
  BY DEF Book!FillResting, Book!FillIncoming, Book!At, Book!Live, MarketInv, Book!TypeOK, SolidBook
<1>2. Traded \subseteq Traded' /\ book_order \in Traded'
  <2>1. /\ Len(fills) \in Nat /\ DOMAIN fills = 1 .. Len(fills)
        /\ DOMAIN fills' = 1 .. Len(fills) + 2
        /\ \A k \in 1 .. Len(fills) : fills'[k] = fills[k]
        /\ fills'[Len(fills) + 1].id = book_order
    BY <1>1, MatchAppended
  <2>2. (Len(fills) + 1) % 2 = 1 /\ Len(fills) + 1 \in DOMAIN fills'
    BY <2>1
  <2>3. Traded \subseteq Traded'
    <3> SUFFICES ASSUME NEW k \in DOMAIN fills, k % 2 = 1 PROVE fills[k].id \in Traded'
      BY DEF Traded
    <3>1. k \in DOMAIN fills' /\ fills'[k] = fills[k]
      BY <2>1
    <3> QED BY <3>1 DEF Traded
  <2> QED BY <2>1, <2>2, <2>3 DEF Traded
<1>3. /\ DOMAIN Book!WithoutHead(limitorders) = Book!Live \ {book_order}
      /\ \A k \in Book!Live \ {book_order} :
           /\ Book!SameOrder(limitorders[k], Book!WithoutHead(limitorders)[k])
           /\ Book!WithoutHead(limitorders)[k].qty = limitorders[k].qty
  BY <1>1, Assumptions, Book!WithoutHeadKeeps DEF Book!ConstantAssumption
<1>4. \A k \in DOMAIN limitorders : limitorders[k].qty \in Nat
  BY <1>1, Assumptions DEF Book!IsLimits, Book!Limit, Book!Qty
<1>5. ASSUME limitorders' = Book!WithoutHead(limitorders), NEW i
      PROVE  /\ i \in DOMAIN limitorders => i \in DOMAIN limitorders' \/ i = book_order
             /\ i \in DOMAIN limitorders' =>
                  /\ i \in DOMAIN limitorders
                  /\ limitorders'[i].side = limitorders[i].side
                  /\ limitorders'[i].price = limitorders[i].price
                  /\ limitorders'[i].qty <= limitorders[i].qty
                  /\ i # book_order => limitorders'[i].qty = limitorders[i].qty
  BY <1>3, <1>4, <1>5 DEF Book!Live, Book!SameOrder
<1>6. CASE Book!FillResting
  <2>1. limitorders' = Book!WithoutHead(limitorders)
    BY <1>6 DEF Book!FillResting
  <2> QED BY <1>1, <1>2, <1>5, <2>1
<1>7. CASE Book!FillIncoming
  <2> DEFINE q == limitorders[book_order].qty - Book!MatchedQty
  <2>1. /\ limitorders' = IF limitorders[book_order].qty = Book!MatchedQty
                          THEN Book!WithoutHead(limitorders)
                          ELSE [limitorders EXCEPT ![book_order].qty = q]
        /\ limitorders[book_order].qty # Book!MatchedQty => q \in Book!Qty
    BY <1>7, Assumptions, Book!FillIncomingKeeps
       DEF QuantitiesFit, SolidBook, Book!ConstantAssumption
  <2>2. q <= limitorders[book_order].qty
    BY <1>1, <1>4, Assumptions, Book!MatchedQtyType DEF Book!Live, Book!ConstantAssumption, Book!Qty
  <2> HIDE DEF q
  <2>3. CASE limitorders[book_order].qty = Book!MatchedQty
    BY <1>1, <1>2, <1>5, <2>1, <2>3
  <2>4. CASE limitorders[book_order].qty # Book!MatchedQty
    <3>1. limitorders' = [limitorders EXCEPT ![book_order].qty = q]
      BY <2>1, <2>4
    <3>2. limitorders \in [DOMAIN limitorders -> Book!Limit]
      BY <1>1 DEF Book!IsLimits
    <3>3. /\ DOMAIN limitorders' = DOMAIN limitorders
          /\ limitorders'[book_order] = [limitorders[book_order] EXCEPT !.qty = q]
          /\ limitorders[book_order] \in Book!Limit
          /\ \A k \in DOMAIN limitorders \ {book_order} : limitorders'[k] = limitorders[k]
      BY <1>1, <3>1, <3>2 DEF Book!Live
    <3>4. /\ limitorders'[book_order].side = limitorders[book_order].side
          /\ limitorders'[book_order].price = limitorders[book_order].price
          /\ limitorders'[book_order].qty = q
      BY <3>3 DEF Book!Limit
    <3>5. \A k \in DOMAIN limitorders : limitorders[k].qty <= limitorders[k].qty
      BY <1>4
    <3> QED BY <1>1, <1>2, <2>2, <3>3, <3>4, <3>5
  <2> QED BY <2>3, <2>4
<1> QED BY <1>6, <1>7

(* A match: no message says that the resting order traded. *)
LEMMA TradeMirrors ==
  ASSUME QuantitiesFit, MarketInv, MarketInv', SolidBook, HandlerShape, Len(fills) % 2 = 0,
         UNCHANGED <<platformvars, feed, orders, traded, misstated>>,
         Book!FillResting \/ Book!FillIncoming, NEW i, Mirrors(i)
  PROVE  Mirrors(i)'
<1>1. sent \in Seq(Book!Message) /\ sent' = sent /\ pc # "return" /\ orders' = orders
      /\ faults' = faults
  BY MatchStays DEF MarketInv, Book!TypeOK, platformvars
<1> DEFINE new == << >>
<1>2. new \in Seq(Book!Message) /\ sent' = sent \o new /\ DOMAIN new = {}
  BY <1>1, ConcatEmptySeq, EmptySeq
<1> HIDE DEF new
<1>3. /\ i \in TradedNow => i \in TradedNow'
      /\ i \in MisstatedNow => i \in MisstatedNow'
  BY <1>1, <1>2, GhostsGrow, MatchStays
<1>4. i = book_order => i \in TradedNow'
  BY MatchStays DEF TradedNow
<1>5. StaysNow(i)
  <2>1. /\ i \in DOMAIN limitorders => i \in DOMAIN limitorders' \/ i = book_order
        /\ i \in DOMAIN limitorders' =>
             /\ i \in DOMAIN limitorders
             /\ limitorders'[i].side = limitorders[i].side
             /\ limitorders'[i].price = limitorders[i].price
             /\ limitorders'[i].qty <= limitorders[i].qty
             /\ i # book_order => limitorders'[i].qty = limitorders[i].qty
    BY MatchStays
  <2>2. /\ \A k \in DOMAIN limitorders : limitorders[k].qty \in Int
        /\ \A k \in DOMAIN limitorders' : limitorders'[k].qty \in Int
    BY Assumptions DEF MarketInv, Book!TypeOK, Book!IsLimits, Book!Limit, Book!Qty
  <2> QED BY <1>3, <1>4, <2>1, <2>2 DEF StaysNow, Stays
<1> DEFINE d == DataOf(new)
<1>6. Stream' = Stream \o d /\ d \in Seq(Feed!Datagram) /\ DOMAIN d = {}
  BY <1>2, SentMoves
<1> HIDE DEF d
<1> QED BY <1>1, <1>5, <1>6, StreamMirrors

(* The handler of an order goes on: it fills the order, and announces what *)
(* is left of it.                                                          *)
LEMMA HandlerMirrors ==
  ASSUME QuantitiesFit, MarketInv, MarketInv', SolidBook, HandlerShape, Len(fills) % 2 = 0,
         Lossless, StreamOK,
         UNCHANGED <<platformvars, feed, orders, traded, misstated>>,
         Book!Handler, pc # "return", NEW i, Mirrors(i)
  PROVE  Mirrors(i)'
<1>1. /\ sent \in Seq(Book!Message) /\ faults' = faults
      /\ platformvars' = platformvars /\ feed' = feed /\ orders' = orders
      /\ traded' = traded /\ misstated' = misstated
  BY DEF MarketInv, Book!TypeOK, platformvars
<1>2. CASE Book!StartMatch \/ Book!NothingToMatch \/ Book!ReadErasedLimit \/ Book!NextLevel
  <2>1. sent' = sent /\ Traded' = Traded
    BY <1>2 DEF Book!StartMatch, Book!NothingToMatch, Book!ReadErasedLimit, Book!NextLevel, Traded
  <2>2. limitorders' = limitorders
    <3>1. CASE Book!NextLevel
      <4>1. /\ pc = "fill" /\ book_order = Book!Nil /\ Book!IsLimits(limitorders)
            /\ limitorders' = Book!Orphan(limitorders, Book!RestingSide, book_itr)
        BY <3>1 DEF Book!NextLevel, Book!At, MarketInv, Book!TypeOK
      <4>2. Book!InLevel(limitorders, Book!RestingSide, book_itr) = {}
        BY <4>1 DEF SolidBook, Book!ListInv, Book!MatcherAtHead
      <4> QED BY <4>1, <4>2, Assumptions, Book!OrphanNone DEF Book!ConstantAssumption
    <3>2. CASE ~Book!NextLevel
      BY <1>2, <3>2 DEF Book!StartMatch, Book!NothingToMatch, Book!ReadErasedLimit
    <3> QED BY <3>1, <3>2
  <2> DEFINE new == << >>
  <2>3. new \in Seq(Book!Message) /\ sent' = sent \o new /\ DOMAIN new = {}
    BY <1>1, <2>1, ConcatEmptySeq, EmptySeq
  <2> HIDE DEF new
  <2> QED BY <1>1, <2>1, <2>2, <2>3, BookMirrors
<1>3. CASE Book!FillResting \/ Book!FillIncoming
  BY <1>1, <1>3, TradeMirrors
<1>4. CASE Book!CommunicateMatchResults
  <2> DEFINE new == Book!FillMessages(order)
             d == DataOf(new)
  <2>1. /\ new \in Seq(Book!Message) /\ sent' = sent \o new
        /\ \A k \in DOMAIN new : new[k].kind = "fill" /\ new[k].id = order.id
    BY <1>4, FillsSent
  <2>2. pc = "report" /\ limitorders' = limitorders /\ Traded' = Traded
    BY <1>4 DEF Book!CommunicateMatchResults, Book!At, Traded
  <2>3. order.id \notin DOMAIN limitorders
    BY <2>2 DEF SolidBook, Book!ListInv, Book!IdsKnown, Book!Known, Book!Active, Book!Live
  <2> HIDE DEF new
  <2>4. CASE \A k \in DOMAIN new : new[k].id # i
    BY <1>1, <2>1, <2>2, <2>4, BookMirrors
  <2>5. CASE \E k \in DOMAIN new : new[k].id = i
    <3>1. i = order.id
      BY <2>1, <2>5
    <3>2. /\ Stream' = Stream \o d /\ d \in Seq(Feed!Datagram) /\ Len(d) = Len(new)
          /\ \A k \in DOMAIN new : d[k].kind = new[k].kind /\ d[k].id = new[k].id
      BY <1>1, <2>1, SentMoves
    <3>3. Len(new) # 0 /\ Len(new) \in DOMAIN new
      <4>1. DOMAIN new = 1 .. Len(new) /\ Len(new) \in Nat
        BY <2>1, LenProperties
      <4> QED BY <2>5, <4>1
    <3> HIDE DEF d
    <3>4. Len(d) # 0 /\ d[Len(d)].id = i /\ d[Len(d)].kind = "fill"
      BY <2>1, <3>1, <3>2, <3>3
    <3>5. i \notin DOMAIN limitorders'
      BY <2>2, <2>3, <3>1
    <3> QED BY <1>1, <3>2, <3>4, <3>5, StreamGone
  <2> QED BY <2>4, <2>5
<1>5. CASE Book!PlaceOrder
  <2> DEFINE x == order.id
  <2> PICK m : m = Book!Added(order)
    OBVIOUS
  <2>1. /\ pc = "place" /\ sent' = Append(sent, m) /\ Traded' = Traded /\ Changing
        /\ order \in Book!Order /\ x \notin Book!Live
    BY <1>5 DEF Book!PlaceOrder, Book!At, Traded, Changing, MarketInv, Book!TypeOK,
       SolidBook, Book!ListInv, Book!IdsKnown, Book!Known, Book!Active
  <2>2. /\ m.kind = "added" /\ m.id = x
        /\ Layout(AsData(m)) = [kind |-> "added", id |-> x, ticker |-> "this",
                                side |-> order.side, price |-> order.price, qty |-> order.qty]
    BY DEF Book!Added, AsData, Layout
  <2>3. PICK last \in Book!Pointer :
          /\ Book!PlacedAfter(limitorders, x, last, order.side, order.price, clock, limitorders')
          /\ limitorders'[x].qty = order.qty
    BY <1>5, <2>1, Assumptions, Book!PlaceOrderFields DEF MarketInv, Book!ConstantAssumption
  <2>4. /\ DOMAIN limitorders' = DOMAIN limitorders \cup {x}
        /\ limitorders'[x].side = order.side /\ limitorders'[x].price = order.price
        /\ \A k \in DOMAIN limitorders :
             /\ limitorders'[k].side = limitorders[k].side
             /\ limitorders'[k].price = limitorders[k].price
             /\ limitorders'[k].qty = limitorders[k].qty
    BY <2>3 DEF Book!PlacedAfter, Book!SameOrder
  <2>5. PICK d \in Seq(Feed!Datagram) :
          /\ Stream' = Stream \o d /\ Len(d) = 1 /\ d[1] = Layout(AsData(m))
          /\ d[1].kind = m.kind /\ d[1].id = m.id
    <3>1. /\ MarketInv /\ MarketInv' /\ UNCHANGED <<platformvars, feed>>
          /\ m.kind \in {"added", "cancelled", "modified"} /\ sent' = Append(sent, m)
      BY <1>1, <2>1, <2>2
    <3>2. /\ <<m>> \in Seq(Book!Message) /\ sent' = sent \o <<m>>
          /\ DOMAIN <<m>> = {1} /\ <<m>>[1] = m
         /\ \E d \in Seq(Feed!Datagram) :
              /\ Stream' = Stream \o d /\ Len(d) = 1 /\ d[1] = Layout(AsData(m))
              /\ d[1].kind = m.kind /\ d[1].id = m.id
      BY ONLY <3>1, OneSent, SMTT(60)
    <3> QED BY ONLY <3>2
  <2>6. CASE i = x
    <3>1. Free(Stream, DOMAIN orders, TRUE, i)
      <4>1. Tracked /\ Lossless = TRUE
        BY DEF Tracked, Lossless
      <4> QED BY <2>1, <2>6, <4>1 DEF StreamOK
    <3>2. /\ d[1].id = i /\ d[1].kind = "added" /\ d[1].ticker = "this"
          /\ d[1].side = order.side /\ d[1].price = order.price /\ d[1].qty = order.qty
      BY <2>2, <2>5, <2>6
    <3>3. /\ i \in DOMAIN limitorders' /\ d[1].side = limitorders'[i].side
          /\ d[1].price = limitorders'[i].price /\ d[1].qty = limitorders'[i].qty
      BY <2>3, <2>4, <2>6, <3>2
    <3>4. limitorders'[i].qty \in Int
      BY <2>1, <2>3, <2>6, Assumptions DEF Book!Order, Book!Qty
    <3> QED BY <1>1, <2>5, <3>1, <3>2, <3>3, <3>4, StreamAnnounces
  <2>7. CASE i # x
    <3> DEFINE new == <<m>>
    <3>1. new \in Seq(Book!Message) /\ sent' = sent \o new /\ DOMAIN new = {1} /\ new[1] = m
      BY <1>1, <2>1, <2>2, OneSent
    <3> HIDE DEF new
    <3>2. /\ \A k \in DOMAIN new : new[k].id # i
          /\ Traded \subseteq Traded'
      BY <2>1, <2>2, <2>7, <3>1
    <3>3. i \in DOMAIN limitorders' <=> i \in DOMAIN limitorders
      BY <2>4, <2>7
    <3> QED BY <1>1, <2>4, <3>1, <3>2, <3>3, BookMirrors
  <2> QED BY <2>6, <2>7
<1> QED BY <1>2, <1>3, <1>4, <1>5 DEF Book!Handler, Book!Return, Book!At
-----------------------------------------------------------------------------
(* A step that moves none of it leaves it right. *)
LEMMA SameMirrors ==
  ASSUME UNCHANGED <<Stream, orders, limitorders, TradedNow, MisstatedNow, faults>>,
         NEW i, Mirrors(i)
  PROVE  Mirrors(i)'
BY DEF Mirrors

(* Publishing turns what the handler recorded into the ghosts. *)
LEMMA PublishMirrors ==
  ASSUME MarketInv, HandlerShape, Publish, NEW i, Mirrors(i)
  PROVE  Mirrors(i)'
<1>1. /\ Stream' = Stream /\ orders' = orders /\ faults' = faults
      /\ sent' = << >> /\ fills' = << >> /\ limitorders' = limitorders
  BY PublishMoves DEF platformvars, clientvars
<1>2. traded' = TradedNow /\ misstated' = MisstatedNow
  BY DEF Publish, TradedNow, MisstatedNow
<1>3. Traded' = {} /\ Restated' = {} /\ Misstated' = {}
  BY <1>1 DEF Traded, Restated, Misstated, SentOf
<1>4. TradedNow' = TradedNow /\ MisstatedNow' = MisstatedNow
  <2>1. TradedNow' = (traded' \ Restated') \cup Traded'
    BY DEF TradedNow
  <2>2. MisstatedNow' = (misstated' \ Restated') \cup Misstated'
    BY DEF MisstatedNow
  <2> QED BY <1>2, <1>3, <2>1, <2>2
<1> QED BY <1>1, <1>4, SameMirrors

(* The other book's order is none of this one's. *)
LEMMA OtherAddsMirrors ==
  ASSUME MarketInv, HandlerShape, pc = "idle", OtherAdds, NEW i, Mirrors(i)
  PROVE  Mirrors(i)'
<1>1. PICK d \in Seq(Feed!Datagram) : /\ Stream' = Stream \o d /\ Len(d) = 1
                                      /\ d[1].kind = "added" /\ d[1].id = OtherOrder
  BY OtherAddsMoves
<1>2. /\ limitorders' = limitorders /\ fills' = fills /\ sent' = sent
      /\ orders' = orders /\ faults' = faults /\ traded' = traded /\ misstated' = misstated
  BY DEF OtherAdds, bookvars, platformvars, clientvars
<1>3. CASE i = OtherOrder
  <2>1. OtherOrder \notin DOMAIN limitorders
    BY Assumptions DEF OtherOrder, MarketInv, Book!TypeOK, Book!IsLimits, Book!OrderId
  <2>2. /\ Len(d) # 0 /\ d[Len(d)].id = i /\ i \notin DOMAIN limitorders'
        /\ d[Len(d)].kind \in {"added", "modified"} => i = OtherOrder
    BY <1>1, <1>2, <1>3, <2>1
  <2> QED BY <1>1, <1>2, <2>2, StreamGone
<1>4. CASE i # OtherOrder
  <2>1. \A k \in DOMAIN d : d[k].id # i
    <3>1. DOMAIN d = {1}
      BY <1>1, LenProperties
    <3> QED BY <1>1, <1>4, <3>1
  <2>2. TradedNow' = TradedNow /\ MisstatedNow' = MisstatedNow
    BY <1>2 DEF TradedNow, MisstatedNow, Traded, Restated, Misstated, SentOf
  <2>3. StaysNow(i)
    BY <1>2, <2>2, StaysWhole
  <2> QED BY <1>1, <1>2, <2>1, <2>3, StreamMirrors
<1> QED BY <1>3, <1>4

(* A handler's fills come in pairs. *)
LEMMA FillsEven ==
  ASSUME MarketInv, [Next]_vars, Len(fills) % 2 = 0
  PROVE  Len(fills') % 2 = 0
<1>1. CASE fills' = fills
  BY <1>1
<1>2. CASE fills' = << >>
  BY <1>2
<1>3. CASE Book!FillResting \/ Book!FillIncoming
  <2>1. Len(fills) \in Nat /\ Len(fills') = Len(fills) + 2
    BY <1>3, MatchAppended DEF MarketInv
  <2> QED BY <2>1
<1>4. CASE Request \/ UserTypes
  <2>1. \/ UNCHANGED bookvars
        \/ \E u, s, p, q : Book!AddOrder(u, s, p, q)
        \/ \E i, u : Book!CancelOrder(i, u)
        \/ \E i, u, s, p, q : Book!ModifyQuantity(i, u, s, p, q) \/ Book!ModifyPrice(i, u, s, p, q)
    BY <1>4, UserIsBooks DEF Request
  <2>2. fills' = fills
    BY <2>1 DEF bookvars, Book!AddOrder, Book!CancelOrder, Book!ModifyQuantity,
       Book!ModifyPrice, Book!matching
  <2> QED BY <1>1, <2>2
<1>5. CASE Handle \/ Publish
  <2>1. Book!Handler
    BY <1>5 DEF Handle, Publish, Book!Handler
  <2>2. \/ fills' = fills \/ fills' = << >> \/ Book!FillResting \/ Book!FillIncoming
    BY <2>1 DEF Book!Handler, Book!StartMatch, Book!NothingToMatch, Book!ReadErasedLimit,
       Book!NextLevel, Book!CommunicateMatchResults, Book!PlaceOrder, Book!Return, Book!matching
  <2> QED BY <1>1, <1>2, <1>3, <2>2
<1>6. CASE UNCHANGED bookvars
  BY <1>1, <1>6 DEF bookvars
<1> QED BY <1>4, <1>5, <1>6 DEF Next, OtherAdds, PlatformReads, PlatformSteps, Deliver, Lose,
           UserSubscribes, FillArrives, vars

(* Nothing is known and nothing is under way at first, *)
LEMMA MirrorInitOK ==
  ASSUME Init PROVE MirrorOK
<1>1. fills = << >> /\ DOMAIN orders = {} /\ DOMAIN limitorders = {}
  BY DEF Init, Book!Init, Feed!FeedInit
<1>2. DOMAIN Stream = {} /\ Len(Stream) = 0
  <2>1. /\ reader = "read" /\ feed = << >> /\ sent = << >> /\ network[Me] = << >>
    BY MarketDataAssumption DEF Init, Book!Init, Platform!PlatformInit
  <2>2. << >> \in Seq(Feed!Datagram)
    BY EmptySeq
  <2>3. InHand = << >> /\ Announced = << >> /\ Laid(<< >>) = << >>
    BY <2>1 DEF InHand, Announced, Laid
  <2>4. << >> \o << >> = << >>
    BY <2>2, ConcatEmptySeq
  <2>5. Stream = << >>
    BY <2>1, <2>3, <2>4 DEF Stream
  <2> QED BY <2>5
<1>3. ASSUME NEW i PROVE Mirrors(i)
  <2>1. \A c \in 0 .. Len(Stream) : c = 0
    BY <1>2
  <2> QED BY <1>1, <2>1 DEF Mirrors, WordOK, PlaceOK, LastWord
<1> QED BY <1>1, <1>3 DEF MirrorOK

(* and every step keeps what the client will know right. *)
LEMMA MirrorStepOK ==
  ASSUME QuantitiesFit, MarketInv, SmallInv, FollowInv, MirrorOK, MarketInv', [Next]_vars
  PROVE  MirrorOK'
<1>1. HandlerShape /\ SolidBook /\ Len(fills) % 2 = 0
  BY DEF FollowInv, SmallInv, MirrorOK
<1>2. faults' = faults
  BY FaultsStay
<1> SUFFICES ASSUME InOrder, Lossless, NEW i PROVE Mirrors(i)'
  BY <1>1, <1>2, FillsEven DEF MirrorOK, InOrder, Lossless
<1>4. Mirrors(i) /\ Subscribed /\ StreamOK
  BY DEF MirrorOK, FollowInv
<1>5. CASE UNCHANGED bookvars /\ UNCHANGED <<platformvars, feed, orders, traded, misstated>>
  <2>1. Stream' = Stream
    BY <1>5, StreamAlone DEF bookvars, Announced
  <2>2. UNCHANGED <<limitorders, TradedNow, MisstatedNow>>
    BY <1>5 DEF bookvars, TradedNow, MisstatedNow, Traded, Restated, Misstated, SentOf
  <2> QED BY <1>2, <1>4, <1>5, <2>1, <2>2, SameMirrors
<1>6. CASE Request \/ UserTypes \/ Handle
  <2>1. UNCHANGED <<platformvars, feed, orders, traded, misstated>>
    BY <1>6 DEF Request, UserTypes, Handle, restvars, clientvars, Feed!GetUserInput
  <2>2. CASE UNCHANGED bookvars
    BY <1>5, <2>1, <2>2
  <2>3. CASE Request \/ (UserTypes /\ ~UNCHANGED bookvars)
    <3>1. \/ \E u, s, p, q : Book!AddOrder(u, s, p, q)
          \/ \E j, u : Book!CancelOrder(j, u)
          \/ \E j, u, s, p, q : \/ Book!ModifyQuantity(j, u, s, p, q)
                                \/ Book!ModifyPrice(j, u, s, p, q)
      BY <2>3, UserIsBooks DEF Request
    <3> QED BY <1>1, <1>4, <2>1, <3>1, RequestMirrors
  <2>4. CASE Handle
    <3>1. Book!Handler /\ pc # "return"
      BY <2>4 DEF Handle
    <3> QED BY <1>1, <1>4, <2>1, <3>1, HandlerMirrors
  <2> QED BY <1>6, <2>2, <2>3, <2>4
<1>7. CASE Publish
  BY <1>1, <1>4, <1>7, PublishMirrors
<1>8. CASE pc = "idle" /\ OtherAdds
  BY <1>1, <1>4, <1>8, OtherAddsMirrors
<1>9. CASE pc = "idle" /\ (PlatformReads \/ PlatformSteps \/ Deliver \/ Lose)
  <2>1. Unmoved \/ LosesOne \/ (Deliver /\ HandsOver)
    BY <1>1, <1>4, <1>9, TransportMoves
  <2>2. UNCHANGED <<bookvars, traded, misstated, faults>>
    BY <1>2, <1>9 DEF PlatformReads, PlatformSteps, Deliver, Lose, restvars
  <2> QED BY <1>1, <1>4, <1>9, <2>1, <2>2, TransportMirrors
<1>10. CASE UserSubscribes \/ FillArrives \/ UNCHANGED vars
  <2>1. /\ UNCHANGED bookvars /\ UNCHANGED platformvars
        /\ UNCHANGED <<orders, feed, traded, misstated>>
    BY <1>10 DEF UserSubscribes, FillArrives, Feed!Subscribe, Feed!InterpretFill, vars, restvars,
       clientvars
  <2> QED BY <1>5, <2>1
<1> QED BY <1>6, <1>7, <1>8, <1>9, <1>10 DEF Next

(* When nothing is under way the last word is what the client holds. *)
LEMMA DrainedAgrees ==
  ASSUME MarketInv, HandlerShape, MirrorOK, InOrder, Lossless, Drained
  PROVE  /\ \A i \in DOMAIN orders \cap DOMAIN limitorders : Agrees(i)
         /\ DOMAIN orders \subseteq DOMAIN limitorders \cup traded \cup {OtherOrder}
         /\ faults = {} => DOMAIN limitorders \subseteq DOMAIN orders
<1>1. /\ sent = << >> /\ fills = << >> /\ feed = << >> /\ network[Me] = << >> /\ reader = "read"
  BY DEF HandlerShape, Drained
<1>2. TradedNow = traded /\ MisstatedNow = misstated
  BY <1>1 DEF TradedNow, MisstatedNow, Traded, Restated, Misstated, SentOf
<1>3. DOMAIN Stream = {} /\ Len(Stream) = 0
  <2>1. << >> \in Seq(Feed!Datagram) /\ << >> \o << >> = << >>
    BY EmptySeq, ConcatEmptySeq
  <2>2. InHand = << >> /\ Announced = << >> /\ Laid(<< >>) = << >>
    BY <1>1 DEF InHand, Announced, Laid
  <2>3. Stream = << >>
    BY <1>1, <2>1, <2>2 DEF Stream
  <2> QED BY <2>3
<1> DEFINE s == Stream
           K == DOMAIN orders
<1>4. /\ \A i \in K : LastWord(s, K, 0, i) /\ Standing(s, K, 0, i)
      /\ \A i : Standing(s, K, 0, i) => i \in K
      /\ 0 \in 0 .. Len(s) /\ \A c \in 0 .. Len(s) : c = 0
  BY <1>3 DEF LastWord, Standing, Announces, Ended
<1>5. \A i : /\ WordOK(s, orders, limitorders, traded, misstated, i)
             /\ PlaceOK(s, orders, limitorders, i)
             /\ faults = {} /\ i \in DOMAIN limitorders => HereOK(s, K, i)
  BY <1>2 DEF MirrorOK, Mirrors
<1>6. \A i \in K : Said(s, orders, 0, i) = orders[i]
  BY DEF Said
<1> HIDE DEF s
<1>7. ASSUME NEW i \in K \cap DOMAIN limitorders PROVE Agrees(i)
  <2>1. /\ orders[i].ticker = "this" /\ orders[i].side = limitorders[i].side
        /\ orders[i].price = limitorders[i].price
    BY <1>4, <1>5, <1>6 DEF PlaceOK
  <2>2. /\ i \notin misstated => orders[i].qty >= limitorders[i].qty
        /\ i \notin misstated \cup traded => orders[i].qty = limitorders[i].qty
    BY <1>4, <1>5, <1>6 DEF WordOK
  <2> QED BY <2>1, <2>2 DEF Agrees
<1>8. ASSUME NEW i \in K PROVE i \in DOMAIN limitorders \cup traded \cup {OtherOrder}
  BY <1>4, <1>5 DEF WordOK
<1>9. ASSUME faults = {}, NEW i \in DOMAIN limitorders PROVE i \in K
  BY <1>4, <1>5, <1>9 DEF HereOK
<1> QED BY <1>7, <1>8, <1>9

(* When all market data has come the client's book is the exchange's but   *)
(* for trades of resting orders, which no message says (the fill data of   *)
(* communicateMatchResults name the incoming order), and for modifications *)
(* announced with another quantity than modifyOrder kept: with any number  *)
(* of users, orders and clients, and also for a client that came late,     *)
(* which misses orders but knows nothing wrong.                            *)
THEOREM MarketDiffersOnlyByTrades == QuantitiesFit => (Spec => []DifferOnlyByTrades)
<1> SUFFICES ASSUME QuantitiesFit PROVE Spec => []DifferOnlyByTrades
  OBVIOUS
<1>1. Init => MarketInv /\ SmallInv /\ FollowInv /\ MirrorOK
  BY MarketInitOK, SmallInitOK, FollowInitOK, MirrorInitOK
<1>2. MarketInv /\ SmallInv /\ FollowInv /\ MirrorOK /\ [Next]_vars
        => (MarketInv /\ SmallInv /\ FollowInv /\ MirrorOK)'
  BY MarketStepOK, SmallStepOK, FollowStepOK, MirrorStepOK
<1>3. MarketInv /\ FollowInv /\ MirrorOK => DifferOnlyByTrades
  BY DrainedAgrees DEF DifferOnlyByTrades, FollowInv, Lossless
<1> QED BY <1>1, <1>2, <1>3, PTL DEF Spec
=============================================================================
