-------------------------- MODULE OrderBookProofs --------------------------
(***************************************************************************)
(* Proofs about OrderBook, for every value of its constants.               *)
(***************************************************************************)
EXTENDS OrderBook, TLAPS, WellFoundedInduction

(***************************************************************************)
(* The data the handlers build: maps of limits and the two sides.          *)
(***************************************************************************)

(* Inserting into limitorders_ keeps its type. *)
LEMMA PutLimit ==
  ASSUME NEW f, IsLimits(f), NEW i \in OrderId, NEW l \in Limit
  PROVE  IsLimits(Put(f, i, l))
<1>1. f \in [DOMAIN f -> Limit] /\ DOMAIN f \subseteq OrderId
  BY DEF IsLimits
<1>2. /\ Put(f, i, l) \in [DOMAIN f \cup {i} -> Limit]
      /\ DOMAIN Put(f, i, l) = DOMAIN f \cup {i}
  BY <1>1 DEF Put
<1> QED BY <1>1, <1>2 DEF IsLimits

(* emplace into bids_ or asks_ adds at most the price it is given. *)
LEMMA PutLevel ==
  ASSUME NEW f, IsSide(f), NEW p \in Price, NEW l \in Level
  PROVE  IsSide(Put(f, p, l)) /\ DOMAIN Put(f, p, l) = DOMAIN f \cup {p}
<1>1. f \in [DOMAIN f -> Level] /\ DOMAIN f \subseteq Price
  BY DEF IsSide
<1>2. /\ Put(f, p, l) \in [DOMAIN f \cup {p} -> Level]
      /\ DOMAIN Put(f, p, l) = DOMAIN f \cup {p}
  BY <1>1 DEF Put
<1> QED BY <1>1, <1>2 DEF IsSide

(* Writing a next or prev pointer keeps a map of limits. *)
LEMMA LinkLimits ==
  ASSUME NEW f, IsLimits(f), NEW i \in Pointer, NEW j \in Pointer
  PROVE  /\ IsLimits(SetNext(f, i, j)) /\ DOMAIN SetNext(f, i, j) = DOMAIN f
         /\ IsLimits(SetPrev(f, i, j)) /\ DOMAIN SetPrev(f, i, j) = DOMAIN f
<1>1. /\ SetNext(f, i, j) \in [DOMAIN f -> Limit]
      /\ DOMAIN SetNext(f, i, j) = DOMAIN f
  BY DEF SetNext, IsLimits, Limit
<1>2. /\ SetPrev(f, i, j) \in [DOMAIN f -> Limit]
      /\ DOMAIN SetPrev(f, i, j) = DOMAIN f
  BY DEF SetPrev, IsLimits, Limit
<1> QED BY <1>1, <1>2 DEF IsLimits

(* Erasing a limit keeps a map of limits. *)
LEMMA DropLimitMap ==
  ASSUME NEW f, IsLimits(f), NEW i
  PROVE  IsLimits(DropLimit(f, i)) /\ DOMAIN DropLimit(f, i) = DOMAIN f \ {i}
BY DEF IsLimits, DropLimit, Restrict

(* Erasing a level only marks limits. *)
LEMMA OrphanMap ==
  ASSUME NEW f, IsLimits(f), NEW s, NEW p
  PROVE  IsLimits(Orphan(f, s, p)) /\ DOMAIN Orphan(f, s, p) = DOMAIN f
BY DEF IsLimits, Orphan, Limit

(* Writing the head or tail of a level keeps the sides, and their prices. *)
LEMMA LinkLevel ==
  ASSUME NEW b, IsBook(b), NEW s \in Side, NEW p, NEW i \in Pointer
  PROVE  /\ IsBook(SetHead(b, s, p, i)) /\ IsBook(SetTail(b, s, p, i))
         /\ \A t \in Side : /\ DOMAIN SetHead(b, s, p, i)[t] = DOMAIN b[t]
                            /\ DOMAIN SetTail(b, s, p, i)[t] = DOMAIN b[t]
<1> DEFINE H == [b[s] EXCEPT ![p].head = i]
           T == [b[s] EXCEPT ![p].tail = i]
<1>1. IsSide(H) /\ DOMAIN H = DOMAIN b[s]
  BY DEF IsBook, IsSide, Level
<1>2. IsSide(T) /\ DOMAIN T = DOMAIN b[s]
  BY DEF IsBook, IsSide, Level
<1>3. SetHead(b, s, p, i) = [b EXCEPT ![s] = H] /\ SetTail(b, s, p, i) = [b EXCEPT ![s] = T]
  BY DEF SetHead, SetTail
<1> HIDE DEF H, T
<1> QED BY <1>1, <1>2, <1>3 DEF IsBook

(* Erasing a level adds no price to a side. *)
LEMMA DropLevelBook ==
  ASSUME NEW b, IsBook(b), NEW s \in Side, NEW p
  PROVE  /\ IsBook(DropLevel(b, s, p))
         /\ \A t \in Side : DOMAIN DropLevel(b, s, p)[t] \subseteq DOMAIN b[t]
BY DEF IsBook, IsSide, DropLevel, Restrict
-----------------------------------------------------------------------------
(***************************************************************************)
(* Type correctness.                                                       *)
(***************************************************************************)

(* cancelOrder keeps the types, whichever place the order has in its level. *)
LEMMA RemoveLimitType ==
  ASSUME TypeOK, NEW i \in Live, RemoveLimit(i)
  PROVE  /\ IsLimits(limitorders') /\ DOMAIN limitorders' = Live \ {i}
         /\ IsBook(book') /\ undefined' \in BOOLEAN
<1> DEFINE l == limitorders[i]
           linked == SetNext(SetPrev(limitorders, l.next, l.prev), l.prev, l.next)
           rest == DropLimit(linked, i)
<1>1. IsLimits(limitorders) /\ IsBook(book) /\ undefined \in BOOLEAN
  BY DEF TypeOK
<1>2. l \in Limit
  BY <1>1 DEF IsLimits, Live
<1>3. /\ l.next \in Pointer /\ l.prev \in Pointer /\ l.side \in Side
      /\ l.current_level \in BOOLEAN
  BY <1>2 DEF Limit
<1>4. IsLimits(linked) /\ DOMAIN linked = Live
  BY <1>1, <1>3, LinkLimits DEF Live
<1>5. IsLimits(rest) /\ DOMAIN rest = Live \ {i}
  BY <1>4, DropLimitMap
<1>6. \/ limitorders' = rest /\ UNCHANGED <<book, undefined>>
      \/ /\ limitorders' = rest
         /\ \/ book' = SetHead(book, l.side, l.price, l.next)
            \/ book' = SetTail(book, l.side, l.price, l.prev)
            \/ book' = book
         /\ undefined' = ~l.current_level
      \/ /\ limitorders' = Orphan(rest, l.side, l.price)
         /\ book' = DropLevel(book, l.side, l.price)
         /\ undefined' = undefined
  BY DEF RemoveLimit
<1> HIDE DEF rest, linked, l
<1>7. IsLimits(limitorders') /\ DOMAIN limitorders' = Live \ {i}
  BY <1>5, <1>6, OrphanMap
<1>8. IsBook(book')
  <2>1. /\ IsBook(SetHead(book, l.side, l.price, l.next))
        /\ IsBook(SetTail(book, l.side, l.price, l.prev))
    BY <1>1, <1>3, LinkLevel
  <2>2. IsBook(DropLevel(book, l.side, l.price))
    BY <1>1, <1>3, DropLevelBook
  <2> QED BY <1>1, <1>6, <2>1, <2>2
<1>9. undefined' \in BOOLEAN
  BY <1>1, <1>3, <1>6
<1> QED BY <1>7, <1>8, <1>9

(* The facts about the order being matched that the fills are built from.  *)
LEMMA MatchedQtyType ==
  ASSUME TypeOK, pc = "fill", book_order \in Live
  PROVE  /\ order \in Order /\ limitorders[book_order] \in Limit
         /\ MatchedQty \in Qty
         /\ MatchedQty <= order.qty
         /\ MatchedQty <= limitorders[book_order].qty
<1>1. order \in Order /\ limitorders[book_order] \in Limit
  BY DEF TypeOK, IsLimits, Live
<1>2. order.qty \in Nat /\ limitorders[book_order].qty \in Nat
  BY <1>1, ConstantAssumption DEF Order, Limit, Qty
<1>3. order.qty \in Qty /\ limitorders[book_order].qty \in Qty
  BY <1>1 DEF Order, Limit
<1> QED BY <1>1, <1>2, <1>3 DEF MatchedQty, LowerQty

LEMMA MatchFillsType ==
  ASSUME TypeOK, pc = "fill", book_order \in Live
  PROVE  fills \o MatchFills \in Seq(FillRecord)
<1> DEFINE l == limitorders[book_order]
<1>1. order \in Order /\ l \in Limit /\ MatchedQty \in Nat
  BY MatchedQtyType, ConstantAssumption DEF Qty
<1>2. MatchedQty % FillWord \in 0 .. FillWord - 1
  BY <1>1, ConstantAssumption
<1>3. \A full \in BOOLEAN :
        /\ Fill(book_order, l.price, MatchedQty, full, l.user, order.user) \in FillRecord
        /\ Fill(order.id, l.price, MatchedQty, full, l.user, order.user) \in FillRecord
  BY <1>1, <1>2 DEF Fill, FillRecord, Order, Limit, TypeOK, IsLimits, Live
<1> DEFINE r == Fill(book_order, l.price, MatchedQty, l.qty = MatchedQty,
                    l.user, order.user)
           o == Fill(order.id, l.price, MatchedQty, order.qty = MatchedQty,
                    l.user, order.user)
<1>4. r \in FillRecord /\ o \in FillRecord
  <2>1. (l.qty = MatchedQty) \in BOOLEAN /\ (order.qty = MatchedQty) \in BOOLEAN
    OBVIOUS
  <2> QED BY <1>3, <2>1, Zenon
<1>5. MatchFills = <<r, o>>
  BY DEF MatchFills
<1> HIDE DEF r, o
<1>6. MatchFills \in Seq(FillRecord)
  BY <1>4, <1>5
<1> QED BY <1>6 DEF TypeOK

(* removeOrderFromBook keeps the types. *)
LEMMA WithoutHeadType ==
  ASSUME TypeOK, pc = "fill", book_order \in Live
  PROVE  /\ IsLimits(WithoutHead(limitorders))
         /\ DOMAIN WithoutHead(limitorders) = Live \ {book_order}
         /\ IsBook(HeadRemoved)
         /\ \A t \in Side : DOMAIN HeadRemoved[t] = DOMAIN book[t]
<1> DEFINE n == limitorders[book_order].next
<1>1. /\ IsLimits(limitorders) /\ IsBook(book) /\ RestingSide \in Side
      /\ n \in Pointer /\ Nil \in Pointer
  BY MatchedQtyType DEF TypeOK, Limit, RestingSide, Other, Side, Pointer
<1>2. IsLimits(SetPrev(limitorders, n, Nil)) /\ DOMAIN SetPrev(limitorders, n, Nil) = Live
  BY <1>1, LinkLimits DEF Live
<1>3. /\ IsLimits(WithoutHead(limitorders))
      /\ DOMAIN WithoutHead(limitorders) = Live \ {book_order}
  BY <1>2, DropLimitMap DEF WithoutHead
<1>4. /\ IsBook(HeadRemoved)
      /\ \A t \in Side : DOMAIN HeadRemoved[t] = DOMAIN book[t]
  BY <1>1, LinkLevel DEF HeadRemoved
<1> QED BY <1>3, <1>4

LEMMA TypeInit == Init => TypeOK
<1> SUFFICES ASSUME Init PROVE TypeOK
  OBVIOUS
<1>1. IsLimits(limitorders)
  BY DEF Init, IsLimits
<1>2. IsBook(book)
  BY DEF Init, IsBook, IsSide
<1>3. fills \in Seq(FillRecord) /\ sent \in Seq(Message)
  BY DEF Init
<1>4. orderid \in 0 .. MaxOrders /\ clock \in Nat
  BY ConstantAssumption DEF Init
<1>5. /\ pc \in {"idle", "add", "fill", "report", "place", "return"}
      /\ pc \notin {"add", "fill", "report", "place"}
      /\ order \in Order \cup {NoOrder}
  BY DEF Init
<1>6. /\ book_itr \in Price \cup {End} /\ book_order \in Pointer
      /\ detached \in BOOLEAN /\ undefined \in BOOLEAN
  BY DEF Init, Pointer
<1> QED BY <1>1, <1>2, <1>3, <1>4, <1>5, <1>6, Zenon DEF TypeOK

(* One rejection, or none, is a sequence of messages. *)
LEMMA RejectionType ==
  ASSUME NEW why \in Reason
  PROVE  /\ <<Reject(why)>> \in Seq(Message)
         /\ \A c : ErrorIf(c, why) \in Seq(Message)
<1>1. Reject(why) \in Message
  BY DEF Reject, Message
<1>2. \A m \in Message : <<m>> \in Seq(Message)
  OBVIOUS
<1>3. << >> \in Seq(Message)
  OBVIOUS
<1>4. <<Reject(why)>> \in Seq(Message)
  BY <1>1, <1>2, Zenon
<1> QED BY <1>3, <1>4, Zenon DEF ErrorIf

(* The requests: what they leave in the book, the order they hand over and *)
(* what they send.                                                         *)
LEMMA TypeRequest ==
  ASSUME TypeOK, Request
  PROVE  TypeOK'
<1>1. ASSUME NEW u \in User, NEW s \in Side, NEW p \in Price, NEW q \in Quantity,
             AddOrder(u, s, p, q)
      PROVE  TypeOK'
  <2>1. orderid + 1 \in OrderId /\ orderid' \in 0 .. MaxOrders
    BY <1>1, ConstantAssumption DEF AddOrder, TypeOK, OrderId
  <2>2. order' \in Order
    BY <1>1, <2>1, ConstantAssumption DEF AddOrder, Order, Qty
  <2> QED BY <1>1, <2>1, <2>2 DEF AddOrder, TypeOK
<1>2. ASSUME NEW errors \in Seq(Message), Refuse(errors)
      PROVE  TypeOK'
  <2>1. sent' \in Seq(Message)
    BY <1>2 DEF Refuse
  <2> QED BY <1>2, <2>1 DEF Refuse, TypeOK, matching
<1>3. ASSUME NEW i \in OrderId, NEW u \in User, CancelOrder(i, u)
      PROVE  TypeOK'
  <2>1. i \in Live
    BY <1>3 DEF CancelOrder, CancelErrors, Live
  <2>2. IsLimits(limitorders') /\ IsBook(book') /\ undefined' \in BOOLEAN
    BY <1>3, <2>1, RemoveLimitType DEF CancelOrder
  <2>3. sent' \in Seq(Message)
    BY <1>3 DEF CancelOrder, Cancelled, Message
  <2> QED BY <1>3, <2>2, <2>3 DEF CancelOrder, TypeOK, matching
<1>4. ASSUME NEW i \in OrderId, NEW u \in User, NEW s \in Side, NEW p \in Price,
             NEW q \in NewQuantity, ModifyQuantity(i, u, s, p, q)
      PROVE  TypeOK'
  <2>1. i \in Live
    BY <1>4 DEF ModifyQuantity, ModifyErrors, Live
  <2>2. q \in Qty /\ limitorders[i] \in Limit
    BY <2>1, ConstantAssumption DEF TypeOK, IsLimits, Live, Qty
  <2>3. ModifiedQty(limitorders[i], q) \in Qty
    BY <2>2, ConstantAssumption DEF ModifiedQty, Limit, Qty
  <2>4. IsLimits(limitorders')
    BY <1>4, <2>3 DEF ModifyQuantity, TypeOK, IsLimits, Limit
  <2>5. sent' \in Seq(Message)
    BY <1>4, <2>2 DEF ModifyQuantity, Modified, Message
  <2> QED BY <1>4, <2>4, <2>5 DEF ModifyQuantity, TypeOK, matching
<1>5. ASSUME NEW i \in OrderId, NEW u \in User, NEW s \in Side, NEW p \in Price,
             NEW q \in NewQuantity, ModifyPrice(i, u, s, p, q)
      PROVE  TypeOK'
  <2>1. i \in Live
    BY <1>5 DEF ModifyPrice, ModifyErrors, Live
  <2>2. IsLimits(limitorders') /\ IsBook(book') /\ undefined' \in BOOLEAN
    BY <1>5, <2>1, RemoveLimitType DEF ModifyPrice
  <2>3. sent' \in Seq(Message)
    BY <1>5 DEF ModifyPrice, Cancelled, Message
  <2>4. order' \in Order
    BY <1>5, ConstantAssumption DEF ModifyPrice, Order, Qty
  <2> QED BY <1>5, <2>2, <2>3, <2>4 DEF ModifyPrice, TypeOK
<1>6. ASSUME NEW i \in OrderId, NEW u \in User
      PROVE  /\ <<Reject("order_id_already_present")>> \in Seq(Message)
             /\ CancelErrors(i, u) \in Seq(Message)
  <2>1. /\ "order_id_already_present" \in Reason /\ "order_not_found" \in Reason
        /\ "wrong_user_id" \in Reason
    BY DEF Reason
  <2>2. << >> \in Seq(Message)
    OBVIOUS
  <2> QED BY <2>1, <2>2, RejectionType, Zenon DEF CancelErrors
<1>7. ASSUME NEW i \in OrderId, NEW u \in User, NEW s \in Side, NEW p \in Price,
             NEW q \in NewQuantity
      PROVE  ModifyErrors(i, u, s, p, q) \in Seq(Message)
  <2> DEFINE l == limitorders[i]
             e1 == ErrorIf(l.side # s, "modify_wrong_side")
             e2 == ErrorIf(l.user # u, "wrong_user_id")
             e3 == ErrorIf(l.price = p /\ l.qty = q, "modification_trivial")
  <2>1. /\ "order_not_found" \in Reason /\ "modify_wrong_side" \in Reason
        /\ "wrong_user_id" \in Reason /\ "modification_trivial" \in Reason
    BY DEF Reason
  <2>2. e1 \in Seq(Message) /\ e2 \in Seq(Message) /\ e3 \in Seq(Message)
    BY <2>1, RejectionType, Zenon
  <2>3. e1 \o e2 \o e3 \in Seq(Message)
    <3> HIDE DEF e1, e2, e3
    <3> QED BY <2>2
  <2>4. /\ <<Reject("order_not_found")>> \in Seq(Message)
        /\ <<Reject("modification_trivial")>> \in Seq(Message)
    BY <2>1, RejectionType, Zenon
  <2> QED BY <2>3, <2>4, Zenon DEF ModifyErrors
<1> QED BY <1>1, <1>2, <1>3, <1>4, <1>5, <1>6, <1>7, Zenon
        DEF Request, RefuseAdd, RefuseCancel, RefuseModify

(* The first price of a side, if there is one, is a price of the side. *)
LEMMA BestType ==
  ASSUME NEW prices, NEW s
  PROVE  Best(prices, s) = End \/ IsBest(prices, s, Best(prices, s))
BY Zenon DEF Best

LEMMA FillMessagesType ==
  ASSUME TypeOK, order \in Order
  PROVE  FillMessages(order) \in Seq(Message)
<1>1. fills \in Seq(FillRecord)
  BY DEF TypeOK
<1> DEFINE m(k) == [kind |-> "fill", to |-> fills[k].connection, id |-> order.id,
                    qty |-> fills[k].qty, full |-> fills[k].full]
<1>2. ASSUME NEW k \in 1 .. Len(fills)
      PROVE  m(k) \in Message
  <2>1. fills[k] \in FillRecord
    BY <1>1
  <2> QED BY <2>1 DEF FillRecord, Message, Order
<1> HIDE DEF m
<1>3. [k \in 1 .. Len(fills) |-> m(k)] \in Seq(Message)
  BY <1>1, <1>2
<1> QED BY <1>3 DEF FillMessages, m

(* The steps of a handler. *)
LEMMA TypeHandler ==
  ASSUME TypeOK, Handler
  PROVE  TypeOK'
<1>1. CASE StartMatch
  <2> DEFINE best == Best(DOMAIN book[RestingSide], RestingSide)
  <2>1. order \in Order /\ RestingSide \in Side
    BY <1>1 DEF StartMatch, At, TypeOK, RestingSide, Other, Side
  <2>2. best \in DOMAIN book[RestingSide]
    BY <1>1, BestType, Zenon DEF StartMatch, MatchesAt, IsBest
  <2>3. best \in Price /\ book[RestingSide][best].head \in Pointer
    BY <2>1, <2>2 DEF TypeOK, IsBook, IsSide, Level
  <2> HIDE DEF best
  <2>4. book_itr' = best /\ book_order' = book[RestingSide][best].head
    BY <1>1 DEF StartMatch, best
  <2> QED BY <1>1, <2>1, <2>3, <2>4 DEF StartMatch, TypeOK
<1>2. CASE NothingToMatch
  BY <1>2 DEF NothingToMatch, At, TypeOK, matching
<1>3. CASE ReadErasedLimit
  BY <1>3 DEF ReadErasedLimit, TypeOK, matching
<1>4. CASE FillResting
  <2>1. pc = "fill" /\ book_order \in Live
    BY <1>4 DEF FillResting, At, Live
  <2>2. IsLimits(limitorders') /\ IsBook(book')
    BY <1>4, <2>1, WithoutHeadType DEF FillResting
  <2>3. order' \in Order
    <3>1. /\ order \in Order /\ order.qty \in Qty /\ MatchedQty \in Qty
          /\ MatchedQty <= order.qty
      BY <2>1, MatchedQtyType DEF Order
    <3>2. order.qty - MatchedQty \in Qty
      BY <3>1, ConstantAssumption DEF Qty
    <3>3. order' = [order EXCEPT !.qty = order.qty - MatchedQty]
      BY <1>4 DEF FillResting
    <3> QED BY <3>1, <3>2, <3>3 DEF Order
  <2>4. fills' \in Seq(FillRecord)
    BY <1>4, <2>1, MatchFillsType DEF FillResting
  <2>5. book_order' \in Pointer
    BY <1>4, <2>1, MatchedQtyType DEF FillResting, Limit
  <2> QED BY <1>4, <2>2, <2>3, <2>4, <2>5 DEF FillResting, TypeOK
<1>5. CASE FillIncoming
  <2> DEFINE both == limitorders[book_order].qty = MatchedQty
             lims == IF both THEN WithoutHead(limitorders)
                     ELSE [limitorders EXCEPT ![book_order].qty = @ - MatchedQty]
             levels == IF both THEN HeadRemoved ELSE book
  <2>1. pc = "fill" /\ book_order \in Live
    BY <1>5 DEF FillIncoming, At, Live
  <2>2. /\ order \in Order /\ limitorders[book_order] \in Limit
        /\ RestingSide \in Side
    BY <2>1, MatchedQtyType DEF RestingSide, Other, Side
  <2>3. IsLimits([limitorders EXCEPT ![book_order].qty = @ - MatchedQty])
    <3>1. /\ MatchedQty \in Qty /\ limitorders[book_order].qty \in Qty
          /\ MatchedQty <= limitorders[book_order].qty
      BY <2>1, <2>2, MatchedQtyType DEF Limit
    <3>2. limitorders[book_order].qty - MatchedQty \in Qty
      BY <3>1, ConstantAssumption DEF Qty
    <3> QED BY <2>1, <2>2, <3>2 DEF TypeOK, IsLimits, Limit, Live
  <2>4. IsLimits(lims) /\ IsBook(levels)
    BY <2>1, <2>3, WithoutHeadType DEF TypeOK
  <2>5. /\ limitorders' = lims \/ limitorders' = Orphan(lims, RestingSide, book_itr)
        /\ book' = levels \/ book' = DropLevel(levels, RestingSide, book_itr)
    BY <1>5 DEF FillIncoming
  <2> HIDE DEF lims, levels
  <2>6. IsLimits(limitorders') /\ IsBook(book')
    <3>1. IsLimits(Orphan(lims, RestingSide, book_itr))
      BY <2>4, OrphanMap, Zenon
    <3>2. IsBook(DropLevel(levels, RestingSide, book_itr))
      BY <2>2, <2>4, DropLevelBook, Zenon
    <3> QED BY <2>4, <2>5, <3>1, <3>2, Zenon
  <2>7. order' \in Order
    BY <1>5, <2>2, ConstantAssumption DEF FillIncoming, Order, Qty
  <2>8. fills' \in Seq(FillRecord)
    BY <1>5, <2>1, MatchFillsType DEF FillIncoming
  <2>9. book_order' \in Pointer
    BY <1>5, <2>1, <2>2 DEF FillIncoming, Limit, TypeOK
  <2> QED BY <1>5, <2>6, <2>7, <2>8, <2>9 DEF FillIncoming, TypeOK
<1>6. CASE NextLevel
  <2> DEFINE worse == {p \in DOMAIN book[RestingSide] : Better(RestingSide, book_itr, p)}
             next == Best(worse, RestingSide)
  <2>1. pc = "fill" /\ order \in Order /\ RestingSide \in Side
    BY <1>6 DEF NextLevel, At, TypeOK, RestingSide, Other, Side
  <2>2. IsLimits(limitorders')
    BY <1>6, OrphanMap DEF NextLevel, TypeOK
  <2>3. IsBook(book')
    BY <1>6, <2>1, DropLevelBook DEF NextLevel, TypeOK
  <2>4. next = End \/ next \in DOMAIN book[RestingSide]
    BY BestType, Zenon DEF IsBest
  <2>5. /\ next \in Price \cup {End}
        /\ next # End => book[RestingSide][next].head \in Pointer
    BY <2>1, <2>4 DEF TypeOK, IsBook, IsSide, Level
  <2>6. book_itr' = next
        /\ \/ next # End /\ book_order' = book[RestingSide][next].head /\ pc' = pc
           \/ book_order' = book_order /\ pc' = "report"
    BY <1>6 DEF NextLevel, MatchesAt
  <2> HIDE DEF next, worse
  <2>7. book_order' \in Pointer
    BY <2>5, <2>6 DEF TypeOK
  <2> QED BY <1>6, <2>1, <2>2, <2>3, <2>5, <2>6, <2>7 DEF NextLevel, TypeOK
<1>7. CASE CommunicateMatchResults
  <2>1. order \in Order
    BY <1>7 DEF CommunicateMatchResults, At, TypeOK
  <2>2. sent' \in Seq(Message)
    BY <1>7, <2>1, FillMessagesType DEF CommunicateMatchResults, TypeOK
  <2>3. pc' \in {"return", "place"}
    BY <1>7 DEF CommunicateMatchResults
  <2> QED BY <1>7, <2>1, <2>2, <2>3 DEF CommunicateMatchResults, TypeOK, matching
<1>8. CASE PlaceOrder
  <2> DEFINE levels == book[order.side]
             first  == order.price \notin DOMAIN levels
             last   == IF first THEN Nil ELSE levels[order.price].tail
             limit  == [user |-> order.user, side |-> order.side,
                        price |-> order.price, qty |-> order.qty,
                        next |-> Nil, prev |-> last,
                        current_level |-> TRUE, time |-> clock]
             level  == [head |-> IF first THEN order.id ELSE levels[order.price].head,
                        tail |-> order.id]
  <2>1. order \in Order
    BY <1>8 DEF PlaceOrder, At, TypeOK
  <2>2. IsSide(levels) /\ order.side \in Side /\ order.price \in Price
    BY <2>1 DEF TypeOK, IsBook, Order
  <2>3. last \in Pointer /\ level \in Level
    BY <2>1, <2>2 DEF IsSide, Level, Pointer, Order
  <2>4. limit \in Limit
    BY <2>1, <2>3 DEF Limit, Order, TypeOK, Pointer
  <2>5. /\ limitorders' = Put(SetNext(limitorders, last, order.id), order.id, limit)
        /\ book' = [book EXCEPT ![order.side] = Put(levels, order.price, level)]
        /\ sent' = Append(sent, Added(order))
    BY <1>8 DEF PlaceOrder
  <2> HIDE DEF last, level, limit, levels
  <2>6. order.id \in OrderId /\ order.id \in Pointer
    BY <2>1 DEF Order, Pointer
  <2>7. IsLimits(limitorders')
    <3>1. IsLimits(SetNext(limitorders, last, order.id))
      BY <2>3, <2>6, LinkLimits DEF TypeOK
    <3> QED BY <3>1, <2>4, <2>5, <2>6, PutLimit, Zenon
  <2>8. IsBook(book')
    <3>1. IsSide(Put(levels, order.price, level))
      BY <2>2, <2>3, PutLevel, Zenon
    <3> QED BY <3>1, <2>2, <2>5 DEF IsBook, TypeOK
  <2>9. sent' \in Seq(Message)
    BY <2>1, <2>5 DEF TypeOK, Added, Message, Order
  <2> QED BY <1>8, <2>7, <2>8, <2>9 DEF PlaceOrder, TypeOK, matching
<1>9. CASE Return
  <2>1. fills' \in Seq(FillRecord) /\ sent' \in Seq(Message)
    BY <1>9 DEF Return
  <2> QED BY <1>9, <2>1 DEF Return, TypeOK, Pointer
<1> QED BY <1>1, <1>2, <1>3, <1>4, <1>5, <1>6, <1>7, <1>8, <1>9 DEF Handler

(* Every variable always has its type: no handler stores a quantity beyond *)
(* its width, a price or a pointer that is not one.                        *)
THEOREM TypeCorrect == Spec => []TypeOK
<1>1. TypeOK /\ [Next]_vars => TypeOK'
  <2> SUFFICES ASSUME TypeOK, [Next]_vars PROVE TypeOK'
    OBVIOUS
  <2>1. CASE UNCHANGED vars
    BY <2>1 DEF vars, TypeOK
  <2> QED BY <2>1, TypeRequest, TypeHandler DEF Next
<1> QED BY <1>1, TypeInit, PTL DEF Spec
-----------------------------------------------------------------------------
(***************************************************************************)
(* The book is never crossed.  NotCrossed is not inductive: that what      *)
(* PlaceOrder puts in the book crosses nothing depends on how FIFOMatch    *)
(* ended (RestCannotMatch), and that on FIFOMatch having gone through the  *)
(* levels from the best one (MatcherAtBest).                               *)
(***************************************************************************)
BookInv == TypeOK /\ NotCrossed /\ MatcherAtBest /\ RestCannotMatch

Less == {xy \in Nat \X Nat : xy[1] < xy[2]}

(* A set of prices has a lowest one: the first ask.                        *)
LEMMA LeastElement ==
  ASSUME NEW T, T \subseteq Nat, T # {}
  PROVE  \E x \in T : \A y \in T : x <= y
<1>1. IsWellFoundedOn(Less, Nat)
  BY NatLessThanWellFounded DEF OpToRel, Less
<1>2. PICK x \in T : \A y \in T : <<y, x>> \notin Less
  BY <1>1, WFMin, Zenon
<1>3. ASSUME NEW y \in T
      PROVE  x <= y
  <2>1. x \in Nat /\ y \in Nat
    OBVIOUS
  <2>2. <<y, x>> \notin Less
    BY <1>2
  <2>3. ~(y < x)
    BY <2>1, <2>2 DEF Less
  <2> QED BY <2>1, <2>3
<1> QED BY <1>3

(* A bounded set of prices has a highest one: the first bid.               *)
LEMMA GreatestElement ==
  ASSUME NEW n \in Nat, NEW T, T \subseteq 0 .. n, T # {}
  PROVE  \E x \in T : \A y \in T : x >= y
<1> DEFINE D == {m \in Nat : \E x \in T : m = n - x}
<1>1. PICK x0 \in T : TRUE
  OBVIOUS
<1>2. x0 \in 0 .. n
  BY <1>1
<1>3. n - x0 \in Nat
  BY <1>2
<1>4. n - x0 \in D
  BY <1>1, <1>3
<1>5. D \subseteq Nat /\ D # {}
  BY <1>4
<1>6. PICK d \in D : \A e \in D : d <= e
  <2> HIDE DEF D
  <2> QED BY <1>5, LeastElement, Zenon
<1>7. PICK x \in T : d = n - x
  OBVIOUS
<1>8. ASSUME NEW y \in T
      PROVE  x >= y
  <2>1. y \in 0 .. n /\ x \in 0 .. n
    OBVIOUS
  <2>2. n - y \in Nat
    BY <2>1
  <2>3. n - y \in D
    BY <2>2
  <2>4. d <= n - y
    BY <1>6, <2>3
  <2> QED BY <1>7, <2>1, <2>4
<1> QED BY <1>8

(* A side that has levels has a first one, and begin() finds it. *)
LEMMA BestExists ==
  ASSUME NEW prices, prices \subseteq Price, prices # {}, NEW s \in Side
  PROVE  IsBest(prices, s, Best(prices, s))
<1>1. \E p \in prices : IsBest(prices, s, p)
  <2>1. CASE s = "buy"
    <3>1. PICK x \in prices : \A y \in prices : x >= y
      BY GreatestElement, ConstantAssumption DEF Price
    <3>2. \A y \in prices \ {x} : x > y
      BY <3>1, ConstantAssumption DEF Price
    <3> QED BY <2>1, <3>1, <3>2 DEF IsBest, Better
  <2>2. CASE s = "sell"
    <3>1. PICK x \in prices : \A y \in prices : x <= y
      <4>1. prices \subseteq Nat
        BY ConstantAssumption DEF Price
      <4> QED BY <4>1, LeastElement
    <3>2. \A y \in prices \ {x} : x < y
      BY <3>1, ConstantAssumption DEF Price
    <3> QED BY <2>2, <3>1, <3>2 DEF IsBest, Better
  <2> QED BY <2>1, <2>2 DEF Side
<1> QED BY <1>1, Zenon DEF Best

(* If the first level of a side does not cross an order, none does. *)
LEMMA NoneCrosses ==
  ASSUME NEW prices, prices \subseteq Price, NEW o \in Order,
         ~MatchesAt(o, Best(prices, Other(o.side)))
  PROVE  \A p \in prices : ~Crosses(o.side, o.price, p)
<1> SUFFICES ASSUME NEW p \in prices, Crosses(o.side, o.price, p) PROVE FALSE
  OBVIOUS
<1> DEFINE best == Best(prices, Other(o.side))
<1>1. o.side \in Side /\ Other(o.side) \in Side /\ o.price \in Price
  BY DEF Order, Other, Side
<1>2. IsBest(prices, Other(o.side), best)
  BY <1>1, BestExists
<1>3. best \in prices /\ (p = best \/ Better(Other(o.side), best, p))
  BY <1>2 DEF IsBest
<1> HIDE DEF best
<1>4. best \in Nat /\ p \in Nat /\ o.price \in Nat /\ best # End
  BY <1>1, <1>3, ConstantAssumption DEF Price, End
<1>5. Crosses(o.side, o.price, best)
  BY <1>1, <1>3, <1>4 DEF Crosses, Better, Other, Side
<1> QED BY <1>4, <1>5 DEF MatchesAt, best

(* No side has a price it did not have. *)
NoNewPrice == \A t \in Side : DOMAIN book'[t] \subseteq DOMAIN book[t]

(* Taking levels away does not cross the book. *)
LEMMA StaysUncrossed ==
  ASSUME NotCrossed, NoNewPrice
  PROVE  NotCrossed'
<1>1. DOMAIN book'["buy"] \subseteq DOMAIN book["buy"]
  BY DEF NoNewPrice, Side
<1>2. DOMAIN book'["sell"] \subseteq DOMAIN book["sell"]
  BY DEF NoNewPrice, Side
<1> QED BY <1>1, <1>2 DEF NotCrossed

(* cancelOrder adds no level. *)
LEMMA RemoveLimitSides ==
  ASSUME TypeOK, NEW i \in Live, RemoveLimit(i)
  PROVE  NoNewPrice
<1> DEFINE l == limitorders[i]
<1>1. IsBook(book) /\ l \in Limit
  BY DEF TypeOK, IsLimits, Live
<1>2. l.side \in Side /\ l.next \in Pointer /\ l.prev \in Pointer
  BY <1>1 DEF Limit
<1>3. \/ book' = book
      \/ book' = SetHead(book, l.side, l.price, l.next)
      \/ book' = SetTail(book, l.side, l.price, l.prev)
      \/ book' = DropLevel(book, l.side, l.price)
  BY DEF RemoveLimit
<1> HIDE DEF l
<1>4. /\ \A t \in Side : DOMAIN SetHead(book, l.side, l.price, l.next)[t] = DOMAIN book[t]
      /\ \A t \in Side : DOMAIN SetTail(book, l.side, l.price, l.prev)[t] = DOMAIN book[t]
  BY <1>1, <1>2, LinkLevel
<1>5. \A t \in Side :
        DOMAIN DropLevel(book, l.side, l.price)[t] \subseteq DOMAIN book[t]
  BY <1>1, <1>2, DropLevelBook, Zenon
<1> QED BY <1>3, <1>4, <1>5 DEF NoNewPrice

(* A request adds no level and starts no match. *)
LEMMA UncrossedRequest ==
  ASSUME BookInv, Request
  PROVE  NotCrossed' /\ MatcherAtBest' /\ RestCannotMatch'
<1>1. pc' \in {"add", "return"}
  BY DEF Request, AddOrder, RefuseAdd, RefuseCancel, CancelOrder, RefuseModify,
         ModifyQuantity, ModifyPrice, Refuse
<1>2. NoNewPrice
  <2>1. \/ book' = book
        \/ \E i \in Live : RemoveLimit(i)
    BY DEF Request, AddOrder, RefuseAdd, RefuseCancel, CancelOrder, RefuseModify,
           ModifyQuantity, ModifyPrice, Refuse, CancelErrors, ModifyErrors, Live
  <2> QED BY <2>1, RemoveLimitSides DEF BookInv, NoNewPrice
<1>3. NotCrossed'
  BY <1>2, StaysUncrossed DEF BookInv
<1> QED BY <1>1, <1>3 DEF MatcherAtBest, RestCannotMatch

LEMMA UncrossedHandler ==
  ASSUME BookInv, Handler
  PROVE  NotCrossed' /\ MatcherAtBest' /\ RestCannotMatch'
<1> USE DEF BookInv
<1> DEFINE resting == DOMAIN book[RestingSide]
<1>a. ASSUME order \in Order
      PROVE  /\ RestingSide \in Side /\ resting \subseteq Price
             /\ RestingSide = Other(order.side) /\ order.side \in Side
             /\ order.price \in Price
  BY <1>a DEF TypeOK, IsBook, IsSide, RestingSide, Other, Side, Order
<1>1. CASE StartMatch
  <2>1. order \in Order /\ pc' = "fill" /\ book' = book /\ order' = order
    BY <1>1 DEF StartMatch, At, TypeOK
  <2>2. book_itr' = Best(resting, RestingSide) /\ Best(resting, RestingSide) # End
    BY <1>1 DEF StartMatch, MatchesAt
  <2>3. IsBest(resting, RestingSide, book_itr')
    BY <2>2, BestType, Zenon
  <2>4. MatcherAtBest'
    BY <2>1, <2>3 DEF MatcherAtBest, RestingSide
  <2>5. NotCrossed'
    BY <2>1 DEF NotCrossed
  <2> QED BY <2>1, <2>4, <2>5 DEF RestCannotMatch
<1>2. CASE NothingToMatch
  <2>1. order \in Order /\ pc' = "place" /\ book' = book /\ order' = order
    BY <1>2 DEF NothingToMatch, At, TypeOK, matching
  <2>2. ~MatchesAt(order, Best(resting, Other(order.side)))
    BY <1>2 DEF NothingToMatch, RestingSide
  <2>3. \A p \in resting : ~Crosses(order.side, order.price, p)
    BY <1>a, <2>1, <2>2, NoneCrosses
  <2>4. RestCannotMatch'
    BY <2>1, <2>3 DEF RestCannotMatch, RestingSide
  <2>5. NotCrossed'
    BY <2>1 DEF NotCrossed
  <2> QED BY <2>1, <2>4, <2>5 DEF MatcherAtBest
<1>3. CASE ReadErasedLimit
  BY <1>3 DEF ReadErasedLimit, matching, NotCrossed, MatcherAtBest,
              RestCannotMatch, RestingSide
<1>4. CASE FillResting
  <2>1. pc = "fill" /\ pc' = "fill" /\ book_order \in Live /\ order \in Order
    BY <1>4 DEF FillResting, At, Live, TypeOK
  <2>2. \A t \in Side : DOMAIN book'[t] = DOMAIN book[t]
    BY <1>4, <2>1, WithoutHeadType DEF FillResting
  <2>3. order'.side = order.side /\ book_itr' = book_itr
    BY <1>4, <2>1 DEF FillResting, Order
  <2>4. RestingSide' = RestingSide
    BY <2>3 DEF RestingSide
  <2>5. MatcherAtBest'
    BY <1>a, <2>1, <2>2, <2>3, <2>4 DEF MatcherAtBest
  <2>6. NotCrossed'
    BY <2>2, StaysUncrossed DEF NoNewPrice
  <2> QED BY <2>1, <2>5, <2>6 DEF RestCannotMatch
<1>5. CASE FillIncoming
  <2> DEFINE both == limitorders[book_order].qty = MatchedQty
             levels == IF both THEN HeadRemoved ELSE book
  <2>1. /\ pc = "fill" /\ pc' = "report" /\ book_order \in Live
        /\ order \in Order /\ RestingSide \in Side
    BY <1>5, <1>a DEF FillIncoming, At, Live, TypeOK
  <2>2. IsBook(levels) /\ \A t \in Side : DOMAIN levels[t] = DOMAIN book[t]
    BY <2>1, WithoutHeadType DEF TypeOK
  <2>3. book' = levels \/ book' = DropLevel(levels, RestingSide, book_itr)
    BY <1>5 DEF FillIncoming
  <2> HIDE DEF levels
  <2>4. \A t \in Side :
          DOMAIN DropLevel(levels, RestingSide, book_itr)[t] \subseteq DOMAIN levels[t]
    BY <2>1, <2>2, DropLevelBook, Zenon
  <2>5. NotCrossed'
    BY <2>2, <2>3, <2>4, StaysUncrossed DEF NoNewPrice
  <2>6. order'.qty = 0
    BY <1>5, <2>1 DEF FillIncoming, Order
  <2> QED BY <2>1, <2>5, <2>6 DEF MatcherAtBest, RestCannotMatch
<1>6. CASE NextLevel
  <2> DEFINE worse == {p \in resting : Better(RestingSide, book_itr, p)}
             next  == Best(worse, RestingSide)
  <2>1. /\ pc = "fill" /\ order \in Order /\ order' = order
        /\ book_itr' = next
        /\ book' = DropLevel(book, RestingSide, book_itr)
    BY <1>6 DEF NextLevel, At, TypeOK
  <2>2. /\ RestingSide \in Side /\ RestingSide' = RestingSide
        /\ IsBest(resting, RestingSide, book_itr)
    BY <1>a, <2>1 DEF MatcherAtBest, RestingSide
  <2>3. worse = resting \ {book_itr}
    <3>1. book_itr \in Nat
      BY <1>a, <2>1, <2>2, ConstantAssumption DEF IsBest, Price
    <3> QED BY <2>2, <3>1 DEF IsBest, Better
  <2>4. DOMAIN book'[RestingSide] = worse /\ NoNewPrice
    <3>1. IsBook(book) /\ RestingSide \in Side
      BY <2>2 DEF TypeOK
    <3>2. DOMAIN DropLevel(book, RestingSide, book_itr)[RestingSide]
            = DOMAIN book[RestingSide] \ {book_itr}
      BY <3>1 DEF DropLevel, Restrict, IsBook
    <3>3. \A t \in Side : DOMAIN DropLevel(book, RestingSide, book_itr)[t]
                            \subseteq DOMAIN book[t]
      BY <3>1, DropLevelBook, Zenon
    <3> QED BY <2>1, <2>3, <3>2, <3>3 DEF NoNewPrice
  <2>5. NotCrossed'
    BY <2>4, StaysUncrossed
  <2>6. CASE MatchesAt(order, next)
    <3>1. pc' = "fill" /\ next # End
      BY <1>6, <2>1, <2>6 DEF NextLevel, MatchesAt
    <3>2. IsBest(worse, RestingSide, next)
      BY <3>1, BestType, Zenon
    <3>3. MatcherAtBest'
      BY <2>1, <2>2, <2>4, <3>2 DEF MatcherAtBest
    <3> QED BY <2>5, <3>1, <3>3 DEF RestCannotMatch
  <2>7. CASE ~MatchesAt(order, next)
    <3>1. pc' = "report"
      BY <1>6, <2>7 DEF NextLevel
    <3>2. \A p \in worse : ~Crosses(order.side, order.price, p)
      BY <1>a, <2>1, <2>7, NoneCrosses
    <3>3. RestCannotMatch'
      BY <2>1, <2>2, <2>4, <3>2 DEF RestCannotMatch
    <3> QED BY <2>5, <3>1, <3>3 DEF MatcherAtBest
  <2> QED BY <2>6, <2>7
<1>7. CASE CommunicateMatchResults
  <2>1. /\ pc = "report" /\ pc' \in {"return", "place"} /\ book' = book /\ order' = order
        /\ pc' = "place" => order.qty # 0
    BY <1>7 DEF CommunicateMatchResults, At, matching
  <2> QED BY <2>1 DEF NotCrossed, MatcherAtBest, RestCannotMatch, RestingSide
<1>8. CASE PlaceOrder
  <2> DEFINE level == book'[order.side][order.price]
  <2>1. pc = "place" /\ pc' = "return" /\ order \in Order
    BY <1>8 DEF PlaceOrder, At, TypeOK
  <2>2. \A p \in resting : ~Crosses(order.side, order.price, p)
    BY <2>1 DEF RestCannotMatch
  <2>3. \A t \in Side : DOMAIN book'[t] = IF t = order.side
                                          THEN DOMAIN book[t] \cup {order.price}
                                          ELSE DOMAIN book[t]
    BY <1>8, <1>a, <2>1 DEF PlaceOrder, Put, TypeOK, IsBook
  <2>4. /\ DOMAIN book["buy"] \subseteq Nat /\ DOMAIN book["sell"] \subseteq Nat
        /\ order.price \in Nat
    BY <1>a, <2>1, ConstantAssumption DEF TypeOK, IsBook, IsSide, Side, Price
  <2>5. NotCrossed'
    <3>1. CASE order.side = "buy"
      <4>1. \A q \in DOMAIN book["sell"] : order.price < q
        BY <3>1, <2>2, <2>4 DEF RestingSide, Other, Crosses
      <4> QED BY <3>1, <4>1, <2>3 DEF NotCrossed, Side
    <3>2. CASE order.side = "sell"
      <4>1. \A p \in DOMAIN book["buy"] : p < order.price
        BY <3>2, <2>2, <2>4 DEF RestingSide, Other, Crosses
      <4> QED BY <3>2, <4>1, <2>3 DEF NotCrossed, Side
    <3> QED BY <1>a, <2>1, <3>1, <3>2 DEF Side
  <2> QED BY <2>1, <2>5 DEF MatcherAtBest, RestCannotMatch
<1>9. CASE Return
  BY <1>9 DEF Return, NotCrossed, MatcherAtBest, RestCannotMatch
<1> QED BY <1>1, <1>2, <1>3, <1>4, <1>5, <1>6, <1>7, <1>8, <1>9 DEF Handler

(* BookInv is inductive: it holds at first *)
LEMMA BookInvInit == Init => BookInv
<1>1. Init => NotCrossed /\ MatcherAtBest /\ RestCannotMatch
  BY DEF Init, NotCrossed, MatcherAtBest, RestCannotMatch, Side
<1> QED BY <1>1, TypeInit DEF BookInv

(* and every step keeps it. *)
LEMMA BookInvStep ==
  ASSUME BookInv, [Next]_vars
  PROVE  BookInv'
<1>1. CASE UNCHANGED vars
  BY <1>1 DEF vars, BookInv, TypeOK, NotCrossed, MatcherAtBest,
              RestCannotMatch, RestingSide
<1>2. CASE Request
  BY <1>2, TypeRequest, UncrossedRequest DEF BookInv
<1>3. CASE Handler
  BY <1>3, TypeHandler, UncrossedHandler DEF BookInv
<1> QED BY <1>1, <1>2, <1>3 DEF Next

(* The strengthened invariant holds in every state. *)
THEOREM BookInvariant == Spec => []BookInv
BY BookInvInit, BookInvStep, PTL DEF Spec

(* The best bid is always below the best ask, in the middle of a match as  *)
(* between requests.                                                       *)
THEOREM NeverCrossed == Spec => []NotCrossed
<1>1. BookInv => NotCrossed
  BY DEF BookInv
<1> QED BY <1>1, BookInvariant, PTL

(* FIFOMatch is always at the best level of the side it matches against:   *)
(* no level before its iterator is left behind.                            *)
THEOREM MatchesFromBest == Spec => []MatcherAtBest
<1>1. BookInv => MatcherAtBest
  BY DEF BookInv
<1> QED BY <1>1, BookInvariant, PTL

(* What FIFOMatch leaves of an order, and placeOrderInBook is about to put *)
(* in the book, crosses no level of the other side.                        *)
THEOREM RestsUncrossed == Spec => []RestCannotMatch
<1>1. BookInv => RestCannotMatch
  BY DEF BookInv
<1> QED BY <1>1, BookInvariant, PTL
-----------------------------------------------------------------------------
(***************************************************************************)
(* The fills account for an order.  Matched is a recursive function; what  *)
(* it computes is shown by the least number for which it would fail, since *)
(* a set of numbers without a least one is empty.                          *)
(***************************************************************************)

(* g[n] is the sum of the quantities of the first n pairs of fills of f. *)
IsSum(g, f, N) == g = [n \in 0 .. N |-> IF n = 0 THEN 0 ELSE g[n - 1] + f[2 * n].qty]

(* The sum over all of f, as Matched computes it for fills. *)
Total(f) == (CHOOSE g : IsSum(g, f, Len(f) \div 2))[Len(f) \div 2]

(* Induction: a set of failures that does not begin anywhere is empty. *)
LEMMA FirstFailure ==
  ASSUME NEW T, T \subseteq Nat, 0 \notin T, \A n \in T : n - 1 \in T \/ n = 0
  PROVE  T = {}
<1> SUFFICES ASSUME T # {} PROVE FALSE
  OBVIOUS
<1>1. PICK x \in T : \A y \in T : x <= y
  BY LeastElement
<1>2. x \in Nat /\ x - 1 \in T
  BY <1>1
<1> QED BY <1>1, <1>2

(* There is such a g, so the recursion is defined. *)
LEMMA SumExists ==
  ASSUME NEW f, NEW N \in Nat
  PROVE  \E g : IsSum(g, f, N)
<1> DEFINE T == {n \in Nat : ~\E g : IsSum(g, f, n)}
<1>1. 0 \notin T
  <2>1. IsSum([n \in 0 .. 0 |-> 0], f, 0)
    BY DEF IsSum
  <2> QED BY <2>1
<1>2. ASSUME NEW n \in Nat, n # 0, NEW g, IsSum(g, f, n - 1)
      PROVE  \E h : IsSum(h, f, n)
  <2> DEFINE x == g[n - 1] + f[2 * n].qty
             h == [k \in 0 .. n |-> IF k = n THEN x ELSE g[k]]
  <2>1. \A k \in 0 .. n - 1 : g[k] = IF k = 0 THEN 0 ELSE g[k - 1] + f[2 * k].qty
    BY <1>2 DEF IsSum
  <2>2. \A k \in 0 .. n : h[k] = IF k = n THEN x ELSE g[k]
    OBVIOUS
  <2>3. ASSUME NEW k \in 0 .. n
        PROVE  h[k] = IF k = 0 THEN 0 ELSE h[k - 1] + f[2 * k].qty
    <3> HIDE DEF h
    <3>1. CASE k = n
      <4>1. n - 1 \in 0 .. n /\ n - 1 # n
        BY <1>2
      <4>2. h[n - 1] = g[n - 1]
        BY <2>2, <4>1
      <4> QED BY <1>2, <2>2, <3>1, <4>2
    <3>2. CASE k # n
      <4>1. k \in 0 .. n - 1 /\ (k # 0 => k - 1 \in 0 .. n /\ k - 1 # n)
        BY <1>2, <3>2
      <4> QED BY <2>1, <2>2, <2>3, <3>2, <4>1
    <3> QED BY <3>1, <3>2
  <2>4. h = [k \in 0 .. n |-> h[k]]
    OBVIOUS
  <2> HIDE DEF h
  <2>5. IsSum(h, f, n)
    BY <2>3, <2>4 DEF IsSum
  <2> QED BY <2>5
<1>3. \A n \in T : n - 1 \in T \/ n = 0
  <2> SUFFICES ASSUME NEW n \in T, n # 0 PROVE n - 1 \in T
    OBVIOUS
  <2>1. n \in Nat /\ n - 1 \in Nat
    OBVIOUS
  <2> QED BY <1>2, <2>1
<1>4. T \subseteq Nat
  OBVIOUS
<1> HIDE DEF T
<1>5. T = {}
  BY <1>1, <1>3, <1>4, FirstFailure
<1> QED BY <1>5 DEF T

LEMMA SumSteps ==
  ASSUME NEW f, NEW N \in Nat, NEW g, IsSum(g, f, N)
  PROVE  /\ g[0] = 0
         /\ \A n \in 1 .. N : g[n] = g[n - 1] + f[2 * n].qty
<1>1. \A n \in 0 .. N : g[n] = IF n = 0 THEN 0 ELSE g[n - 1] + f[2 * n].qty
  BY DEF IsSum
<1> QED BY <1>1

LEMMA SumIsNat ==
  ASSUME NEW f, NEW N \in Nat, NEW g, IsSum(g, f, N),
         \A n \in 1 .. N : f[2 * n].qty \in Nat
  PROVE  \A n \in 0 .. N : g[n] \in Nat
<1> DEFINE T == {n \in 0 .. N : g[n] \notin Nat}
<1>1. g[0] = 0 /\ \A n \in 1 .. N : g[n] = g[n - 1] + f[2 * n].qty
  BY SumSteps
<1>2. \A n \in T : n - 1 \in T \/ n = 0
  <2> SUFFICES ASSUME NEW n \in 0 .. N, n # 0, g[n - 1] \in Nat PROVE g[n] \in Nat
    OBVIOUS
  <2>1. n \in 1 .. N
    OBVIOUS
  <2> QED BY <1>1, <2>1
<1>3. T \subseteq Nat /\ 0 \notin T
  BY <1>1
<1> HIDE DEF T
<1>4. T = {}
  BY <1>2, <1>3, FirstFailure
<1> QED BY <1>4 DEF T

(* Sums of fills that begin alike begin alike. *)
LEMMA SumAgrees ==
  ASSUME NEW f, NEW N \in Nat, NEW g, IsSum(g, f, N),
         NEW e, NEW M \in Nat, NEW h, IsSum(h, e, M), N <= M,
         \A n \in 1 .. N : e[2 * n].qty = f[2 * n].qty
  PROVE  \A n \in 0 .. N : h[n] = g[n]
<1> DEFINE T == {n \in 0 .. N : h[n] # g[n]}
<1>1. g[0] = 0 /\ \A n \in 1 .. N : g[n] = g[n - 1] + f[2 * n].qty
  BY SumSteps
<1>2. h[0] = 0 /\ \A n \in 1 .. M : h[n] = h[n - 1] + e[2 * n].qty
  BY SumSteps
<1>3. \A n \in T : n - 1 \in T \/ n = 0
  <2> SUFFICES ASSUME NEW n \in 0 .. N, n # 0, h[n - 1] = g[n - 1] PROVE h[n] = g[n]
    OBVIOUS
  <2>1. n \in 1 .. N /\ n \in 1 .. M
    OBVIOUS
  <2> QED BY <1>1, <1>2, <2>1
<1>4. T \subseteq Nat /\ 0 \notin T
  BY <1>1, <1>2
<1> HIDE DEF T
<1>5. T = {}
  BY <1>3, <1>4, FirstFailure
<1> QED BY <1>5 DEF T

(* The sum of no fills, and of two fills more. *)
LEMMA TotalNone == Total(<< >>) = 0
<1>1. Len(<< >>) \div 2 = 0
  OBVIOUS
<1>2. PICK h : IsSum(h, << >>, 0)
  BY SumExists
<1> DEFINE g == CHOOSE g : IsSum(g, << >>, 0)
<1>3. IsSum(g, << >>, 0)
  BY <1>2
<1> HIDE DEF g
<1>4. g[0] = 0
  BY <1>3, SumSteps
<1> QED BY <1>1, <1>4 DEF Total, g

LEMMA TotalMore ==
  ASSUME NEW f \in Seq(FillRecord), NEW n \in Nat, Len(f) = 2 * n,
         NEW a \in FillRecord, NEW b \in FillRecord
  PROVE  /\ Total(f) \in Nat
         /\ Total(f \o <<a, b>>) = Total(f) + b.qty
         /\ Len(f \o <<a, b>>) = 2 * (n + 1)
<1> DEFINE e == f \o <<a, b>>
           g == CHOOSE g : IsSum(g, f, n)
           h == CHOOSE h : IsSum(h, e, n + 1)
<1>1. /\ e \in Seq(FillRecord) /\ Len(e) = 2 * (n + 1)
      /\ \A k \in 1 .. 2 * n : e[k] = f[k]
      /\ e[2 * (n + 1)] = b
  OBVIOUS
<1>2. Len(f) \div 2 = n /\ Len(e) \div 2 = n + 1
  BY <1>1
<1> HIDE DEF e
<1>3. IsSum(g, f, n)
  <2>1. \E x : IsSum(x, f, n)
    BY SumExists
  <2> QED BY <2>1
<1>4. IsSum(h, e, n + 1)
  <2>1. n + 1 \in Nat
    OBVIOUS
  <2>2. \E x : IsSum(x, e, n + 1)
    BY <2>1, SumExists
  <2> QED BY <2>2
<1>5. Total(f) = g[n] /\ Total(e) = h[n + 1]
  BY <1>2 DEF Total
<1> HIDE DEF g, h
<1>6. \A k \in 1 .. n : 2 * k \in 1 .. 2 * n /\ e[2 * k].qty = f[2 * k].qty
  BY <1>1
<1>7. h[n] = g[n]
  <2>1. \A k \in 0 .. n : h[k] = g[k]
    <3>1. n + 1 \in Nat /\ n <= n + 1
      OBVIOUS
    <3>2. \A k \in 1 .. n : e[2 * k].qty = f[2 * k].qty
      BY <1>6
    <3> QED BY <1>3, <1>4, <3>1, <3>2, SumAgrees
  <2> QED BY <2>1
<1>8. g[n] \in Nat
  <2>1. \A k \in 1 .. n : f[2 * k].qty \in Nat
    <3>1. \A k \in 1 .. n : f[2 * k] \in FillRecord
      BY <1>6
    <3>2. \A r \in FillRecord : r.qty \in Nat
      BY ConstantAssumption DEF FillRecord
    <3> QED BY <3>1, <3>2
  <2>2. \A k \in 0 .. n : g[k] \in Nat
    BY <1>3, <2>1, SumIsNat
  <2> QED BY <2>2
<1>9. h[n + 1] = h[n] + b.qty
  <2>1. \A k \in 1 .. n + 1 : h[k] = h[k - 1] + e[2 * k].qty
    BY <1>4, SumSteps
  <2> QED BY <1>1, <2>1
<1> QED BY <1>1, <1>5, <1>7, <1>8, <1>9 DEF e
-----------------------------------------------------------------------------
(* Quantities fit the 16 bits in which a fill reports one. *)
QuantitiesFit == Quantity \cup NewQuantity \subseteq 0 .. FillWord - 1

(* No message says that an order was added. *)
NothingAdded(s) == \A k \in DOMAIN s : s[k].kind # "added"

(* A message that an order was added is about the order placed last. *)
AddedIsOrder ==
  \A k \in DOMAIN sent :
    sent[k].kind = "added" =>
      /\ order # NoOrder /\ sent[k].id = order.id /\ sent[k].qty = order.qty
      /\ limitorders[order.id].qty = order.qty

Accounted == /\ \E n \in Nat : Len(fills) = 2 * n
             /\ order # NoOrder => /\ order.init = order.qty + Matched
                                   /\ order.init < FillWord

AccountInv == /\ pc = "idle" => order = NoOrder /\ fills = << >> /\ sent = << >>
              /\ Accounted
              /\ pc # "return" => NothingAdded(sent)
              /\ AddedIsOrder

(* A rejection is no such message. *)
LEMMA ErrorsAreRejections ==
  /\ \A why : NothingAdded(<<Reject(why)>>)
  /\ \A i, u : NothingAdded(CancelErrors(i, u))
  /\ \A i, u, s, p, q : NothingAdded(ModifyErrors(i, u, s, p, q))
<1> DEFINE R == [kind : {"reject"}, why : Reason]
<1>1. ASSUME NEW f \in Seq(R)
      PROVE  NothingAdded(f)
  <2>1. \A r \in R : r.kind # "added"
    OBVIOUS
  <2> HIDE DEF R
  <2>2. \A k \in DOMAIN f : f[k] \in R
    OBVIOUS
  <2> QED BY <2>1, <2>2 DEF NothingAdded
<1>2. \A why : NothingAdded(<<Reject(why)>>)
  BY DEF NothingAdded, Reject
<1>3. NothingAdded(<< >>)
  BY DEF NothingAdded
<1>4. \A i, u : NothingAdded(CancelErrors(i, u))
  BY <1>2, <1>3 DEF CancelErrors
<1>5. \A why \in Reason : \A c : ErrorIf(c, why) \in Seq(R)
  <2>1. \A why \in Reason : Reject(why) \in R
    BY DEF Reject
  <2>2. \A m \in R : <<m>> \in Seq(R)
    OBVIOUS
  <2>3. << >> \in Seq(R)
    OBVIOUS
  <2> HIDE DEF R
  <2> QED BY <2>1, <2>2, <2>3 DEF ErrorIf
<1>6. \A i, u, s, p, q : NothingAdded(ModifyErrors(i, u, s, p, q))
  <2> TAKE i, u, s, p, q
  <2> DEFINE l == limitorders[i]
             e1 == ErrorIf(l.side # s, "modify_wrong_side")
             e2 == ErrorIf(l.user # u, "wrong_user_id")
             e3 == ErrorIf(l.price = p /\ l.qty = q, "modification_trivial")
  <2>1. e1 \in Seq(R) /\ e2 \in Seq(R) /\ e3 \in Seq(R)
    BY <1>5 DEF Reason
  <2>2. \/ \E why : ModifyErrors(i, u, s, p, q) = <<Reject(why)>>
        \/ ModifyErrors(i, u, s, p, q) = e1 \o e2 \o e3
    BY DEF ModifyErrors
  <2> HIDE DEF e1, e2, e3, R
  <2>3. e1 \o e2 \o e3 \in Seq(R)
    BY <2>1
  <2> QED BY <1>1, <1>2, <2>2, <2>3
<1> QED BY <1>2, <1>4, <1>6

(* A number that fits a word does not wrap. *)
LEMMA NoWrap ==
  ASSUME NEW w \in Nat \ {0}, NEW x \in Nat, x < w
  PROVE  x % w = x
OBVIOUS

(* A match takes from the order what its fill reports. *)
LEMMA MatchAccounted ==
  ASSUME TypeOK, Accounted, pc = "fill", book_order \in Live,
         fills' = fills \o MatchFills,
         order' = [order EXCEPT !.qty = order.qty - MatchedQty]
  PROVE  Accounted' /\ order' # NoOrder
<1> DEFINE l == limitorders[book_order]
           a == Fill(book_order, l.price, MatchedQty, l.qty = MatchedQty, l.user, order.user)
           b == Fill(order.id, l.price, MatchedQty, order.qty = MatchedQty, l.user, order.user)
<1>1. /\ order \in Order /\ MatchedQty \in Nat /\ MatchedQty <= order.qty
      /\ order.qty \in Nat /\ order.init \in Nat /\ FillWord \in Nat \ {0}
  BY MatchedQtyType, ConstantAssumption DEF Order, Qty
<1>2. order # NoOrder /\ order' # NoOrder
  <2>1. DOMAIN << >> = {}
    OBVIOUS
  <2>2. DOMAIN order = {"id", "user", "side", "price", "qty", "init"}
    BY <1>1 DEF Order
  <2>3. DOMAIN order' = DOMAIN order
    OBVIOUS
  <2> QED BY <2>1, <2>2, <2>3 DEF NoOrder
<1>3. order'.qty = order.qty - MatchedQty /\ order'.init = order.init
  BY <1>1 DEF Order
<1>4. order.init = order.qty + Matched /\ order.init < FillWord
  BY <1>2 DEF Accounted
<1>5. PICK n \in Nat : Len(fills) = 2 * n
  BY DEF Accounted
<1>6. fills' = fills \o <<a, b>> /\ b.qty = MatchedQty % FillWord
  BY DEF MatchFills, Fill
<1>7. a \in FillRecord /\ b \in FillRecord /\ fills \in Seq(FillRecord)
  <2>1. fills \in Seq(FillRecord) /\ fills' \in Seq(FillRecord)
    BY MatchFillsType DEF TypeOK
  <2>2. ASSUME NEW S, NEW f \in Seq(S), NEW x, NEW y, f \o <<x, y>> \in Seq(S)
        PROVE  x \in S /\ y \in S
    <3> DEFINE g == f \o <<x, y>>
    <3>1. /\ Len(g) = Len(f) + 2 /\ Len(f) \in Nat
          /\ g[Len(f) + 1] = x /\ g[Len(f) + 2] = y
      OBVIOUS
    <3>2. g \in Seq(S)
      BY <2>2
    <3> HIDE DEF g
    <3>3. \A k \in 1 .. Len(g) : g[k] \in S
      BY <3>2
    <3>4. Len(f) + 1 \in 1 .. Len(g) /\ Len(f) + 2 \in 1 .. Len(g)
      BY <3>1
    <3> QED BY <3>1, <3>3, <3>4
  <2> HIDE DEF a, b
  <2> QED BY <1>6, <2>1, <2>2
<1> HIDE DEF a, b
<1>8. /\ Total(fills) \in Nat
      /\ Total(fills \o <<a, b>>) = Total(fills) + b.qty
      /\ Len(fills \o <<a, b>>) = 2 * (n + 1)
  BY <1>5, <1>7, TotalMore
<1>9. Matched = Total(fills) /\ Matched' = Total(fills')
  BY DEF Matched, Total, IsSum
<1>10. MatchedQty % FillWord = MatchedQty
  <2>1. MatchedQty < FillWord
    BY <1>1, <1>4, <1>8, <1>9
  <2> QED BY <1>1, <2>1, NoWrap
<1>11. Matched' = Matched + MatchedQty /\ Matched \in Nat
  BY <1>6, <1>8, <1>9, <1>10
<1>12. order'.init = order'.qty + Matched'
  BY <1>1, <1>3, <1>4, <1>11
<1>13. \E m \in Nat : Len(fills') = 2 * m
  <2>1. n + 1 \in Nat /\ Len(fills') = 2 * (n + 1)
    BY <1>6, <1>8
  <2> QED BY <2>1
<1> QED BY <1>2, <1>3, <1>4, <1>12, <1>13 DEF Accounted

(* No fills report nothing. *)
LEMMA NoFillsYet ==
  ASSUME fills' = << >>
  PROVE  Matched' = 0 /\ \E n \in Nat : Len(fills') = 2 * n
<1>1. Matched' = Total(fills')
  BY DEF Matched, Total, IsSum
<1>2. Len(<< >>) = 2 * 0
  OBVIOUS
<1> QED BY <1>1, <1>2, TotalNone

(* The fills, the order and what was sent are as they were. *)
LEMMA SameAccount ==
  ASSUME Accounted, fills' = fills, order' = order
  PROVE  Accounted'
BY DEF Accounted, Matched

LEMMA AccountRequest ==
  ASSUME QuantitiesFit, TypeOK, AccountInv, Request
  PROVE  AccountInv'
<1>1. pc = "idle" /\ order = NoOrder /\ fills = << >> /\ sent = << >> /\ Accounted
  <2>1. pc = "idle"
    BY DEF Request, AddOrder, RefuseAdd, RefuseCancel, CancelOrder, RefuseModify,
           ModifyQuantity, ModifyPrice, Idle
  <2> QED BY <2>1 DEF AccountInv
<1>2. ASSUME NEW i, NEW u, NEW s, NEW p, NEW q \in Quantity \cup NewQuantity,
             order' = [id |-> i, user |-> u, side |-> s, price |-> p,
                       qty |-> q, init |-> q],
             fills' = fills, pc' = "add", NothingAdded(sent')
      PROVE  AccountInv'
  <2>1. q \in Nat /\ q < FillWord
    BY ConstantAssumption DEF QuantitiesFit
  <2>2. order'.qty = q /\ order'.init = q
    BY <1>2
  <2>3. Accounted'
    BY <1>1, <1>2, <2>1, <2>2, NoFillsYet DEF Accounted
  <2>4. AddedIsOrder'
    BY <1>2 DEF AddedIsOrder, NothingAdded
  <2> QED BY <1>2, <2>3, <2>4 DEF AccountInv
<1>3. ASSUME order' = order, fills' = fills, pc' = "return", NothingAdded(sent')
      PROVE  AccountInv'
  <2>1. AddedIsOrder'
    BY <1>3 DEF AddedIsOrder, NothingAdded
  <2> QED BY <1>1, <1>3, <2>1, SameAccount DEF AccountInv
<1>4. ASSUME NEW u \in User, NEW s \in Side, NEW p \in Price, NEW q \in Quantity,
             AddOrder(u, s, p, q)
      PROVE  AccountInv'
  <2>1. /\ order' = [id |-> orderid + 1, user |-> u, side |-> s, price |-> p,
                     qty |-> q, init |-> q]
        /\ fills' = fills /\ pc' = "add" /\ sent' = << >>
    BY <1>1, <1>4 DEF AddOrder
  <2>2. NothingAdded(sent')
    BY <2>1 DEF NothingAdded
  <2> QED BY <1>2, <2>1, <2>2
<1>5. ASSUME NEW errors, Refuse(errors), NothingAdded(errors)
      PROVE  AccountInv'
  BY <1>3, <1>5 DEF Refuse, matching
<1>6. ASSUME NEW i, NEW u, CancelOrder(i, u)
      PROVE  AccountInv'
  <2>1. order' = order /\ fills' = fills /\ pc' = "return" /\ sent' = <<Cancelled(i)>>
    BY <1>6 DEF CancelOrder, matching
  <2>2. NothingAdded(sent')
    BY <2>1 DEF NothingAdded, Cancelled
  <2> QED BY <1>3, <2>1, <2>2
<1>7. ASSUME NEW i, NEW u, NEW s, NEW p, NEW q, ModifyQuantity(i, u, s, p, q)
      PROVE  AccountInv'
  <2>1. order' = order /\ fills' = fills /\ pc' = "return" /\ sent' = <<Modified(i, q)>>
    BY <1>7 DEF ModifyQuantity, matching
  <2>2. NothingAdded(sent')
    BY <2>1 DEF NothingAdded, Modified
  <2> QED BY <1>3, <2>1, <2>2
<1>8. ASSUME NEW i, NEW u, NEW s, NEW p, NEW q \in NewQuantity, ModifyPrice(i, u, s, p, q)
      PROVE  AccountInv'
  <2>1. /\ order' = [id |-> i, user |-> u, side |-> s, price |-> p,
                     qty |-> q, init |-> q]
        /\ fills' = fills /\ pc' = "add" /\ sent' = <<Cancelled(i)>>
    BY <1>8 DEF ModifyPrice
  <2>2. NothingAdded(sent')
    BY <2>1 DEF NothingAdded, Cancelled
  <2> QED BY <1>2, <2>1, <2>2
<1> QED BY <1>4, <1>5, <1>6, <1>7, <1>8, ErrorsAreRejections
        DEF Request, RefuseAdd, RefuseCancel, RefuseModify

LEMMA AccountHandler ==
  ASSUME TypeOK, AccountInv, Handler
  PROVE  AccountInv'
<1>1. ASSUME order' = order, fills' = fills, NothingAdded(sent), sent' = sent,
             pc' \notin {"idle", "return"}
      PROVE  AccountInv'
  <2>1. AddedIsOrder'
    BY <1>1 DEF AddedIsOrder, NothingAdded
  <2>2. NothingAdded(sent')
    BY <1>1
  <2> QED BY <1>1, <2>1, <2>2, SameAccount DEF AccountInv
<1>2. CASE StartMatch \/ NothingToMatch \/ ReadErasedLimit \/ NextLevel
  <2>1. /\ order' = order /\ fills' = fills /\ sent' = sent
        /\ pc \in {"add", "fill"} /\ pc' \in {"fill", "place", "report"}
    BY <1>2 DEF StartMatch, NothingToMatch, ReadErasedLimit, NextLevel, At, matching
  <2> QED BY <1>1, <2>1 DEF AccountInv
<1>3. CASE FillResting \/ FillIncoming
  <2>1. /\ pc = "fill" /\ book_order \in Live /\ pc' \in {"fill", "report"}
        /\ fills' = fills \o MatchFills /\ sent' = sent
    BY <1>3 DEF FillResting, FillIncoming, At, Live
  <2>2. order' = [order EXCEPT !.qty = order.qty - MatchedQty]
    <3>1. CASE FillResting
      BY <3>1 DEF FillResting
    <3>2. CASE FillIncoming
      <4>1. order' = [order EXCEPT !.qty = 0] /\ order.qty = MatchedQty
        BY <3>2 DEF FillIncoming
      <4>2. order.qty - MatchedQty = 0
        BY <2>1, <4>1, MatchedQtyType, ConstantAssumption DEF Qty
      <4> QED BY <4>1, <4>2
    <3> QED BY <1>3, <3>1, <3>2
  <2>3. Accounted'
    BY <2>1, <2>2, MatchAccounted DEF AccountInv
  <2>4. NothingAdded(sent')
    BY <2>1 DEF AccountInv
  <2>5. AddedIsOrder'
    BY <2>4 DEF AddedIsOrder, NothingAdded
  <2> QED BY <2>1, <2>3, <2>4, <2>5 DEF AccountInv
<1>4. CASE CommunicateMatchResults
  <2>1. /\ pc = "report" /\ pc' \in {"return", "place"} /\ order' = order
        /\ fills' = fills /\ sent' = sent \o FillMessages(order)
    BY <1>4 DEF CommunicateMatchResults, At, matching
  <2>2. sent \in Seq(Message) /\ FillMessages(order) \in Seq(Message)
    BY <2>1, FillMessagesType DEF TypeOK
  <2>3. NothingAdded(sent) /\ NothingAdded(FillMessages(order))
    BY <2>1 DEF AccountInv, NothingAdded, FillMessages
  <2>4. NothingAdded(sent')
    <3> DEFINE m == FillMessages(order)
    <3> HIDE DEF m
    <3>1. /\ sent \in Seq(Message) /\ m \in Seq(Message) /\ sent' = sent \o m
          /\ NothingAdded(sent) /\ NothingAdded(m)
      BY <2>1, <2>2, <2>3 DEF m
    <3> QED BY <3>1 DEF NothingAdded
  <2>5. AddedIsOrder'
    BY <2>4 DEF AddedIsOrder, NothingAdded
  <2> QED BY <2>1, <2>4, <2>5, SameAccount DEF AccountInv
<1>5. CASE PlaceOrder
  <2>1. /\ pc = "place" /\ pc' = "return" /\ order' = order /\ fills' = fills
        /\ sent' = Append(sent, Added(order)) /\ sent \in Seq(Message)
        /\ NothingAdded(sent) /\ order \in Order
    BY <1>5 DEF PlaceOrder, At, matching, AccountInv, TypeOK
  <2>2. order # NoOrder
    <3>1. DOMAIN order = {"id", "user", "side", "price", "qty", "init"} /\ DOMAIN << >> = {}
      BY <2>1 DEF Order
    <3> QED BY <3>1 DEF NoOrder
  <2>3. limitorders'[order.id].qty = order.qty
    BY <1>5 DEF PlaceOrder, Put
  <2>4. ASSUME NEW k \in DOMAIN sent', sent'[k].kind = "added"
        PROVE  sent'[k] = Added(order)
    <3> DEFINE m == Added(order)
    <3>1. sent' = Append(sent, m)
      BY <2>1
    <3> HIDE DEF m
    <3> QED BY <2>1, <2>4, <3>1 DEF NothingAdded, m
  <2>5. AddedIsOrder'
    <3>1. Added(order).id = order.id /\ Added(order).qty = order.qty
      BY DEF Added
    <3> QED BY <2>1, <2>2, <2>3, <2>4, <3>1 DEF AddedIsOrder
  <2> QED BY <2>1, <2>5, SameAccount DEF AccountInv
<1>6. CASE Return
  <2>1. order' = NoOrder /\ fills' = << >> /\ sent' = << >> /\ pc' = "idle"
    BY <1>6 DEF Return
  <2>2. Accounted'
    BY <2>1, NoFillsYet DEF Accounted
  <2>3. NothingAdded(sent') /\ AddedIsOrder'
    BY <2>1 DEF NothingAdded, AddedIsOrder
  <2> QED BY <2>1, <2>2, <2>3 DEF AccountInv
<1> QED BY <1>2, <1>3, <1>4, <1>5, <1>6 DEF Handler

(***************************************************************************)
(* An order's quantity is what was ordered less what its fills report, and *)
(* what is announced as added is the rest and is in the book, if the       *)
(* quantities fit a fill's 16 bits.                                        *)
(***************************************************************************)
THEOREM FillsAddUp == QuantitiesFit => (Spec => []FillsAccountForOrder)
<1> SUFFICES ASSUME QuantitiesFit PROVE Spec => []FillsAccountForOrder
  OBVIOUS
<1>1. Init => AccountInv
  <2> SUFFICES ASSUME Init PROVE AccountInv
    OBVIOUS
  <2>1. order = NoOrder /\ fills = << >> /\ sent = << >>
    BY DEF Init
  <2>2. Len(<< >>) = 2 * 0
    OBVIOUS
  <2> QED BY <2>1, <2>2 DEF AccountInv, Accounted, NothingAdded, AddedIsOrder
<1>2. TypeOK /\ AccountInv /\ [Next]_vars => AccountInv'
  <2> SUFFICES ASSUME TypeOK, AccountInv, [Next]_vars PROVE AccountInv'
    OBVIOUS
  <2>1. CASE UNCHANGED vars
    BY <2>1 DEF vars, AccountInv, Accounted, Matched, NothingAdded, AddedIsOrder
  <2>2. CASE Request
    BY <2>2, AccountRequest
  <2>3. CASE Handler
    BY <2>3, AccountHandler
  <2> QED BY <2>1, <2>2, <2>3 DEF Next
<1>3. TypeOK /\ AccountInv => FillsAccountForOrder
  BY DEF AccountInv, Accounted, AddedIsOrder, FillsAccountForOrder
<1> QED BY <1>1, <1>2, <1>3, TypeCorrect, PTL DEF Spec
=============================================================================
