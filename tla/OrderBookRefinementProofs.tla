--------------------- MODULE OrderBookRefinementProofs ---------------------
(***************************************************************************)
(* Proofs about the lists of OrderBook: the orders of a level are linked   *)
(* in order of arrival, so FIFOMatch takes them by price and then by time. *)
(* And, from them, that OrderBook loses no order and implements FIFOBook,  *)
(* as long as its counters and quantities do not wrap.                     *)
(***************************************************************************)
EXTENDS OrderBookProofs, FiniteSetTheorems

(***************************************************************************)
(* The links of the limits.  Neighbours point at each other, in one level  *)
(* or in what is left of one that was erased, the older one first.         *)
(***************************************************************************)
SameLevel(f, i, k) == /\ f[k].side = f[i].side
                      /\ f[k].price = f[i].price
                      /\ f[k].current_level = f[i].current_level

Chained(f) ==
  \A i \in DOMAIN f :
    /\ f[i].next # Nil => /\ f[i].next \in DOMAIN f
                          /\ f[f[i].next].prev = i
                          /\ SameLevel(f, i, f[i].next)
                          /\ f[i].time < f[f[i].next].time
    /\ f[i].prev # Nil => f[i].prev \in DOMAIN f /\ f[f[i].prev].next = i

(* In a level the order with no next is the last to have come, the one     *)
(* with no prev the first, and nothing came between two neighbours.        *)
Ordered(f) ==
  \A i, k \in DOMAIN f :
    f[i].current_level /\ SameLevel(f, i, k) =>
      /\ f[i].next = Nil => f[k].time <= f[i].time
      /\ f[i].prev = Nil => f[i].time <= f[k].time
      /\ f[i].next # Nil /\ f[i].time < f[k].time
           => f[f[i].next].time <= f[k].time

(* Each order was placed at a time of its own before n. *)
Timed(f, n) ==
  \A i, k \in DOMAIN f : f[i].time < n /\ (f[i].time = f[k].time => i = k)

Lists(f, n) == Chained(f) /\ Ordered(f) /\ Timed(f, n)

(***************************************************************************)
(* A level v of side s at price p.  Its tail is the last order of the list *)
(* there.  Its head, an id of K, is the first one if it has not been       *)
(* erased: FIFOMatch leaves the head of every level but its first stale.   *)
(***************************************************************************)
TailOK(f, v, s, p) == v.tail \in InLevel(f, s, p) /\ f[v.tail].next = Nil
HeadOK(f, v, s, p) ==
  v.head \in DOMAIN f => v.head \in InLevel(f, s, p) /\ f[v.head].prev = Nil
LevelOK(f, v, s, p, K) == TailOK(f, v, s, p) /\ HeadOK(f, v, s, p) /\ v.head \in K

(* Every level is so, or every level but the one of side s at price p. *)
LevelsOK(f, b, K) ==
  \A s \in Side : \A p \in DOMAIN b[s] : LevelOK(f, b[s][p], s, p, K)
OthersOK(f, b, s, p, K) ==
  \A t \in Side : \A q \in DOMAIN b[t] :
    t # s \/ q # p => LevelOK(f, b[t][q], t, q, K)

(* An order linked in a level is in a level of the book. *)
HasLevel(f, b) ==
  \A i \in DOMAIN f : f[i].current_level => f[i].price \in DOMAIN b[f[i].side]
-----------------------------------------------------------------------------
(***************************************************************************)
(* What the writes of a handler do to the fields of limits and levels.     *)
(***************************************************************************)
SameOrder(l, m) == /\ m.user = l.user /\ m.side = l.side /\ m.price = l.price
                   /\ m.time = l.time
SameLinks(l, m) == m.next = l.next /\ m.prev = l.prev

(* g is f without i, whose neighbours are linked to each other. *)
Unlinked(f, i, g) ==
  /\ DOMAIN g = DOMAIN f \ {i}
  /\ \A k \in DOMAIN g :
       /\ g[k].next = IF k = f[i].prev THEN f[i].next ELSE f[k].next
       /\ g[k].prev = IF k = f[i].next THEN f[i].prev ELSE f[k].prev
       /\ SameOrder(f[k], g[k]) /\ g[k].qty = f[k].qty
       /\ g[k].current_level = f[k].current_level

(* SetNext writes one field of one limit, and SetPrev another. *)
LEMMA LinkFields ==
  ASSUME NEW f, IsLimits(f), NEW i \in Pointer, NEW j \in Pointer, NEW k \in DOMAIN f
  PROVE  /\ SetNext(f, i, j)[k].next = IF k = i THEN j ELSE f[k].next
         /\ SetNext(f, i, j)[k].prev = f[k].prev
         /\ SameOrder(f[k], SetNext(f, i, j)[k])
         /\ SetNext(f, i, j)[k].qty = f[k].qty
         /\ SetNext(f, i, j)[k].current_level = f[k].current_level
         /\ SetPrev(f, i, j)[k].prev = IF k = i THEN j ELSE f[k].prev
         /\ SetPrev(f, i, j)[k].next = f[k].next
         /\ SameOrder(f[k], SetPrev(f, i, j)[k])
         /\ SetPrev(f, i, j)[k].qty = f[k].qty
         /\ SetPrev(f, i, j)[k].current_level = f[k].current_level
<1>1. f \in [DOMAIN f -> Limit] /\ k \in OrderId /\ f[k] \in Limit
  BY DEF IsLimits
<1>2. k # Nil
  BY <1>1, ConstantAssumption DEF OrderId, Nil
<1>3. SetNext(f, i, j)[k] = IF k = i THEN [f[k] EXCEPT !.next = j] ELSE f[k]
  BY <1>1, <1>2 DEF SetNext
<1>4. SetPrev(f, i, j)[k] = IF k = i THEN [f[k] EXCEPT !.prev = j] ELSE f[k]
  BY <1>1, <1>2 DEF SetPrev
<1> QED BY <1>1, <1>3, <1>4 DEF Limit, SameOrder

(* Erasing a limit leaves the others as they are. *)
LEMMA DropFields ==
  ASSUME NEW f, NEW i, NEW k \in DOMAIN f \ {i}
  PROVE  DropLimit(f, i)[k] = f[k]
BY DEF DropLimit, Restrict

(* Unlinking, as cancelOrder does it. *)
LEMMA UnlinkFields ==
  ASSUME NEW f, IsLimits(f), NEW i \in DOMAIN f
  PROVE  Unlinked(f, i, DropLimit(SetNext(SetPrev(f, f[i].next, f[i].prev),
                                          f[i].prev, f[i].next), i))
<1> DEFINE a == SetPrev(f, f[i].next, f[i].prev)
           c == SetNext(a, f[i].prev, f[i].next)
           g == DropLimit(c, i)
<1>1. f[i].next \in Pointer /\ f[i].prev \in Pointer
  BY DEF IsLimits, Limit
<1>2. IsLimits(a) /\ DOMAIN a = DOMAIN f
  BY <1>1, LinkLimits
<1>3. IsLimits(c) /\ DOMAIN c = DOMAIN f
  BY <1>1, <1>2, LinkLimits
<1>4. DOMAIN g = DOMAIN f \ {i}
  BY <1>3, DropLimitMap
<1>5. ASSUME NEW k \in DOMAIN g
      PROVE  /\ g[k].next = IF k = f[i].prev THEN f[i].next ELSE f[k].next
             /\ g[k].prev = IF k = f[i].next THEN f[i].prev ELSE f[k].prev
             /\ SameOrder(f[k], g[k]) /\ g[k].qty = f[k].qty
             /\ g[k].current_level = f[k].current_level
  <2>1. k \in DOMAIN f /\ k \in DOMAIN a
    BY <1>2, <1>4
  <2>2. g[k] = c[k]
    BY <1>3, <1>4, DropFields
  <2>3. /\ a[k].prev = IF k = f[i].next THEN f[i].prev ELSE f[k].prev
        /\ a[k].next = f[k].next /\ SameOrder(f[k], a[k])
        /\ a[k].qty = f[k].qty /\ a[k].current_level = f[k].current_level
    BY <1>1, <2>1, LinkFields
  <2> HIDE DEF a
  <2>4. /\ c[k].next = IF k = f[i].prev THEN f[i].next ELSE a[k].next
        /\ c[k].prev = a[k].prev /\ SameOrder(a[k], c[k])
        /\ c[k].qty = a[k].qty /\ c[k].current_level = a[k].current_level
    BY <1>1, <1>2, <2>1, LinkFields
  <2> HIDE DEF c, g
  <2> QED BY <2>2, <2>3, <2>4 DEF SameOrder
<1> QED BY <1>4, <1>5 DEF Unlinked

(* Unlinking, as removeOrderFromBook does it for an order that is first. *)
LEMMA UnlinkHeadFields ==
  ASSUME NEW f, IsLimits(f), NEW i \in DOMAIN f, f[i].prev = Nil
  PROVE  Unlinked(f, i, DropLimit(SetPrev(f, f[i].next, Nil), i))
<1>1. SetNext(SetPrev(f, f[i].next, f[i].prev), f[i].prev, f[i].next)
        = SetPrev(f, f[i].next, Nil)
  BY DEF SetNext
<1> QED BY <1>1, UnlinkFields

(* Erasing a level marks its limits and no others. *)
LEMMA OrphanFields ==
  ASSUME NEW f, IsLimits(f), NEW s, NEW p, NEW k \in DOMAIN f
  PROVE  /\ SameOrder(f[k], Orphan(f, s, p)[k]) /\ SameLinks(f[k], Orphan(f, s, p)[k])
         /\ Orphan(f, s, p)[k].qty = f[k].qty
         /\ Orphan(f, s, p)[k].current_level
              = (f[k].current_level /\ k \notin InLevel(f, s, p))
<1>1. f[k] \in Limit
  BY DEF IsLimits
<1>2. Orphan(f, s, p)[k] = IF k \in InLevel(f, s, p)
                           THEN [f[k] EXCEPT !.current_level = FALSE] ELSE f[k]
  BY DEF Orphan
<1>3. k \in InLevel(f, s, p) => f[k].current_level
  BY DEF InLevel
<1>4. f[k].current_level \in BOOLEAN
  BY <1>1 DEF Limit
<1> QED BY <1>1, <1>2, <1>3, <1>4 DEF Limit, SameOrder, SameLinks

(* A write of a head or a tail changes that level alone. *)
LEMMA LevelFields ==
  ASSUME NEW b, IsBook(b), NEW s \in Side, NEW p \in DOMAIN b[s], NEW i,
         NEW t \in Side, NEW q \in DOMAIN b[t]
  PROVE  /\ t # s \/ q # p => /\ SetHead(b, s, p, i)[t][q] = b[t][q]
                              /\ SetTail(b, s, p, i)[t][q] = b[t][q]
         /\ SetHead(b, s, p, i)[s][p].head = i
         /\ SetHead(b, s, p, i)[s][p].tail = b[s][p].tail
         /\ SetTail(b, s, p, i)[s][p].tail = i
         /\ SetTail(b, s, p, i)[s][p].head = b[s][p].head
<1>1. b = [r \in Side |-> b[r]] /\ b[s] \in [DOMAIN b[s] -> Level] /\ b[s][p] \in Level
  BY DEF IsBook, IsSide
<1>2. /\ SetHead(b, s, p, i)[s] = [b[s] EXCEPT ![p].head = i]
      /\ SetTail(b, s, p, i)[s] = [b[s] EXCEPT ![p].tail = i]
      /\ t # s => SetHead(b, s, p, i)[t] = b[t] /\ SetTail(b, s, p, i)[t] = b[t]
  BY <1>1 DEF SetHead, SetTail
<1>3. /\ SetHead(b, s, p, i)[s][p] = [b[s][p] EXCEPT !.head = i]
      /\ SetTail(b, s, p, i)[s][p] = [b[s][p] EXCEPT !.tail = i]
      /\ t = s /\ q # p => /\ SetHead(b, s, p, i)[t][q] = b[t][q]
                           /\ SetTail(b, s, p, i)[t][q] = b[t][q]
  BY <1>1, <1>2
<1> QED BY <1>1, <1>2, <1>3 DEF Level

(* Erasing a level leaves the others as they are. *)
LEMMA DropLevelPrices ==
  ASSUME NEW b, IsBook(b), NEW s \in Side, NEW p, NEW t \in Side
  PROVE  \A q : q \in DOMAIN DropLevel(b, s, p)[t]
                 <=> q \in DOMAIN b[t] /\ (t # s \/ q # p)
BY DEF IsBook, DropLevel, Restrict

LEMMA DropLevelFields ==
  ASSUME NEW b, IsBook(b), NEW s \in Side, NEW p, NEW t \in Side,
         NEW q \in DOMAIN DropLevel(b, s, p)[t]
  PROVE  DropLevel(b, s, p)[t][q] = b[t][q]
<1>1. b = [r \in Side |-> b[r]]
  BY DEF IsBook
<1>2. DropLevel(b, s, p)[t] = IF t = s THEN Restrict(b[t], DOMAIN b[t] \ {p}) ELSE b[t]
  BY <1>1 DEF DropLevel
<1> QED BY <1>2 DEF Restrict
-----------------------------------------------------------------------------
(***************************************************************************)
(* What those writes do to the lists.                                      *)
(***************************************************************************)

(* Ids are never nullptr, and times are numbers. *)
LEMMA LimitFacts ==
  ASSUME NEW f, IsLimits(f), NEW k \in DOMAIN f
  PROVE  /\ k # Nil /\ k \in OrderId /\ f[k].time \in Nat
         /\ f[k].side \in Side /\ f[k].price \in Price
         /\ f[k].current_level \in BOOLEAN
         /\ f[k].next \in Pointer /\ f[k].prev \in Pointer
<1>1. k \in OrderId /\ f[k] \in Limit
  BY DEF IsLimits
<1>2. k # Nil
  BY <1>1, ConstantAssumption DEF OrderId, Nil
<1> QED BY <1>1, <1>2 DEF Limit

(* Unlinking an order leaves the others linked. *)
LEMMA UnlinkChained ==
  ASSUME NEW f, IsLimits(f), NEW i \in DOMAIN f, NEW g,
         Chained(f), Unlinked(f, i, g)
  PROVE  Chained(g)
<1> DEFINE n == f[i].next
           m == f[i].prev
<1>1. i # Nil /\ \A k \in DOMAIN f : k # Nil /\ f[k].time \in Nat
  BY LimitFacts
<1>2. DOMAIN g = DOMAIN f \ {i}
  BY DEF Unlinked
<1>3. \A k \in DOMAIN g : /\ g[k].next = IF k = m THEN n ELSE f[k].next
                          /\ g[k].prev = IF k = n THEN m ELSE f[k].prev
  BY DEF Unlinked
<1>4. \A k \in DOMAIN g : g[k].time = f[k].time
  BY DEF Unlinked, SameOrder
<1>5. \A k, j \in DOMAIN g : SameLevel(g, k, j) <=> SameLevel(f, k, j)
  BY DEF Unlinked, SameOrder, SameLevel
<1>6. n # Nil => n \in DOMAIN g /\ f[n].prev = i /\ SameLevel(f, i, n) /\ f[i].time < f[n].time
  BY <1>1, <1>2 DEF Chained
<1>7. m # Nil => m \in DOMAIN g /\ f[m].next = i /\ SameLevel(f, m, i) /\ f[m].time < f[i].time
  BY <1>1, <1>2 DEF Chained
<1> HIDE DEF n, m
<1>8. ASSUME NEW k \in DOMAIN g, g[k].next # Nil
      PROVE  /\ g[k].next \in DOMAIN g
             /\ g[g[k].next].prev = k
             /\ SameLevel(g, k, g[k].next)
             /\ g[k].time < g[g[k].next].time
  <2>1. CASE k = m
    <3>1. g[k].next = n /\ k # Nil
      BY <1>1, <1>2, <1>3, <2>1
    <3>2. n \in DOMAIN g /\ SameLevel(f, k, i) /\ SameLevel(f, i, n) /\ f[k].time < f[n].time
      BY <1>1, <1>2, <1>6, <1>7, <1>8, <2>1, <3>1
    <3>3. SameLevel(f, k, n)
      BY <3>2 DEF SameLevel
    <3> QED BY <1>3, <1>4, <1>5, <2>1, <3>1, <3>2, <3>3
  <2>2. CASE k # m
    <3> DEFINE j == f[k].next
    <3>1. g[k].next = j /\ j # Nil
      BY <1>3, <1>8, <2>2
    <3>2. j \in DOMAIN f /\ f[j].prev = k /\ SameLevel(f, k, j) /\ f[k].time < f[j].time
      BY <1>2, <3>1 DEF Chained
    <3>3. j # i
      BY <2>2, <3>2 DEF m
    <3>4. j # n
      BY <1>2, <1>6, <3>1, <3>2
    <3> HIDE DEF j
    <3>5. j \in DOMAIN g /\ g[j].prev = k
      BY <1>2, <1>3, <3>2, <3>3, <3>4
    <3> QED BY <1>4, <1>5, <3>1, <3>2, <3>5
  <2> QED BY <2>1, <2>2
<1>9. ASSUME NEW k \in DOMAIN g, g[k].prev # Nil
      PROVE  g[k].prev \in DOMAIN g /\ g[g[k].prev].next = k
  <2>1. CASE k = n
    <3>1. g[k].prev = m
      BY <1>3, <2>1
    <3> QED BY <1>3, <1>7, <1>9, <2>1, <3>1
  <2>2. CASE k # n
    <3> DEFINE j == f[k].prev
    <3>1. g[k].prev = j /\ j # Nil
      BY <1>3, <1>9, <2>2
    <3>2. j \in DOMAIN f /\ f[j].next = k
      BY <1>2, <3>1 DEF Chained
    <3>3. j # i
      BY <2>2, <3>2 DEF n
    <3>4. j # m
      BY <1>2, <1>7, <3>1, <3>2
    <3> HIDE DEF j
    <3> QED BY <1>2, <1>3, <3>1, <3>2, <3>3, <3>4
  <2> QED BY <2>1, <2>2
<1> QED BY <1>8, <1>9 DEF Chained

(* Unlinking an order leaves the others in order of arrival: what it stood *)
(* between are neighbours now.                                             *)
LEMMA UnlinkOrdered ==
  ASSUME NEW f, IsLimits(f), NEW i \in DOMAIN f, NEW g, NEW c,
         Lists(f, c), Unlinked(f, i, g)
  PROVE  Lists(g, c)
<1> DEFINE n == f[i].next
           m == f[i].prev
<1>1. Chained(f) /\ Ordered(f) /\ Timed(f, c)
  BY DEF Lists
<1>2. i # Nil /\ \A k \in DOMAIN f : k # Nil /\ f[k].time \in Nat
  BY LimitFacts
<1>3. DOMAIN g = DOMAIN f \ {i}
  BY DEF Unlinked
<1>4. \A k \in DOMAIN g : /\ g[k].next = IF k = m THEN n ELSE f[k].next
                          /\ g[k].prev = IF k = n THEN m ELSE f[k].prev
  BY DEF Unlinked
<1>5. \A k \in DOMAIN g : g[k].time = f[k].time /\ g[k].current_level = f[k].current_level
  BY DEF Unlinked, SameOrder
<1>6. \A k, j \in DOMAIN g : SameLevel(g, k, j) <=> SameLevel(f, k, j)
  BY DEF Unlinked, SameOrder, SameLevel
<1>7. n # Nil => n \in DOMAIN g /\ SameLevel(f, i, n) /\ f[i].time < f[n].time
  BY <1>1, <1>2, <1>3 DEF Chained
<1>8. m # Nil => m \in DOMAIN g /\ f[m].next = i /\ SameLevel(f, m, i) /\ f[m].time < f[i].time
  BY <1>1, <1>2, <1>3 DEF Chained
<1>9. Timed(g, c)
  BY <1>1, <1>3, <1>5 DEF Timed
<1>10. Chained(g)
  BY <1>1, UnlinkChained
<1>11. ASSUME NEW a \in DOMAIN g, NEW k \in DOMAIN g,
              g[a].current_level, SameLevel(g, a, k)
       PROVE  /\ g[a].next = Nil => g[k].time <= g[a].time
              /\ g[a].prev = Nil => g[a].time <= g[k].time
              /\ g[a].next # Nil /\ g[a].time < g[k].time
                   => g[g[a].next].time <= g[k].time
  <2>1. /\ a \in DOMAIN f /\ k \in DOMAIN f /\ k # i /\ a # i
        /\ f[a].current_level /\ SameLevel(f, a, k)
        /\ g[a].time = f[a].time /\ g[k].time = f[k].time
        /\ f[a].time \in Nat /\ f[k].time \in Nat /\ f[i].time \in Nat
        /\ f[k].time # f[i].time
    BY <1>1, <1>2, <1>3, <1>5, <1>6, <1>11 DEF Timed
  <2>2. /\ f[a].next = Nil => f[k].time <= f[a].time
        /\ f[a].prev = Nil => f[a].time <= f[k].time
        /\ f[a].next # Nil /\ f[a].time < f[k].time => f[f[a].next].time <= f[k].time
    BY <1>1, <2>1 DEF Ordered
  <2>3. f[i].current_level /\ SameLevel(f, i, k) =>
          /\ n = Nil => f[k].time <= f[i].time
          /\ m = Nil => f[i].time <= f[k].time
          /\ n # Nil /\ f[i].time < f[k].time => f[n].time <= f[k].time
    BY <1>1, <2>1 DEF Ordered
  <2>4. a = m => /\ f[i].current_level /\ SameLevel(f, i, k)
                 /\ f[a].next = i /\ f[a].time < f[i].time /\ g[a].next = n
    BY <1>2, <1>4, <1>8, <2>1 DEF SameLevel
  <2>5. a = n => /\ f[i].current_level /\ SameLevel(f, i, k)
                 /\ f[i].time < f[a].time /\ g[a].prev = m
    BY <1>2, <1>4, <1>7, <2>1 DEF SameLevel
  <2>6. a # m => g[a].next = f[a].next
    BY <1>4
  <2>7. a # n => g[a].prev = f[a].prev
    BY <1>4
  <2>8. g[a].next # Nil => g[a].next \in DOMAIN g
    BY <1>10 DEF Chained
  <2>9. g[a].next # Nil => g[g[a].next].time = f[g[a].next].time /\ f[g[a].next].time \in Nat
    BY <1>2, <1>3, <1>5, <2>8
  <2>10. g[a].next = Nil => g[k].time <= g[a].time
    <3>1. CASE a = m
      BY <1>2, <2>1, <2>2, <2>3, <2>4, <3>1
    <3> QED BY <2>1, <2>2, <2>6, <3>1
  <2>11. g[a].prev = Nil => g[a].time <= g[k].time
    <3>1. CASE a = n
      BY <1>2, <2>1, <2>2, <2>3, <2>5, <3>1
    <3> QED BY <2>1, <2>2, <2>7, <3>1
  <2>12. g[a].next # Nil /\ g[a].time < g[k].time => g[g[a].next].time <= g[k].time
    <3>1. CASE a = m
      BY <1>2, <2>1, <2>2, <2>3, <2>4, <2>9, <3>1
    <3> QED BY <2>1, <2>2, <2>6, <2>9, <3>1
  <2> QED BY <2>10, <2>11, <2>12
<1>12. Ordered(g)
  BY <1>11 DEF Ordered
<1> QED BY <1>9, <1>10, <1>12 DEF Lists

(* Writes of quantities, and the marks left by an erased level, keep the   *)
(* lists.  Fewer limits share a level, and whole levels are marked.        *)
LEMMA MarkedLists ==
  ASSUME NEW f, NEW g, NEW c, Lists(f, c), DOMAIN g = DOMAIN f,
         \A k \in DOMAIN f : SameOrder(f[k], g[k]) /\ SameLinks(f[k], g[k]),
         \A k \in DOMAIN f : g[k].current_level => f[k].current_level,
         \A j, k \in DOMAIN f : SameLevel(f, j, k) =>
                                  g[k].current_level = g[j].current_level,
         \A k \in DOMAIN f : {f[k].current_level, g[k].current_level} \subseteq BOOLEAN
  PROVE  Lists(g, c)
<1>1. Chained(f) /\ Ordered(f) /\ Timed(f, c)
  BY DEF Lists
<1>2. \A k \in DOMAIN f : /\ g[k].time = f[k].time /\ g[k].side = f[k].side
                          /\ g[k].price = f[k].price
                          /\ g[k].next = f[k].next /\ g[k].prev = f[k].prev
  BY DEF SameOrder, SameLinks
<1>3. ASSUME NEW j \in DOMAIN f, NEW k \in DOMAIN f, SameLevel(f, j, k)
      PROVE  SameLevel(g, j, k)
  BY <1>2, <1>3 DEF SameLevel
<1>4. ASSUME NEW j \in DOMAIN f, NEW k \in DOMAIN f, SameLevel(g, j, k), g[j].current_level
      PROVE  SameLevel(f, j, k)
  BY <1>2, <1>4 DEF SameLevel
<1>5. Timed(g, c)
  BY <1>1, <1>2 DEF Timed
<1>6. Chained(g)
  BY <1>1, <1>2, <1>3 DEF Chained
<1>7. Ordered(g)
  <2> SUFFICES ASSUME NEW i \in DOMAIN f, NEW k \in DOMAIN f,
                      g[i].current_level, SameLevel(g, i, k)
               PROVE  /\ g[i].next = Nil => g[k].time <= g[i].time
                      /\ g[i].prev = Nil => g[i].time <= g[k].time
                      /\ g[i].next # Nil /\ g[i].time < g[k].time
                           => g[g[i].next].time <= g[k].time
    BY DEF Ordered
  <2>1. f[i].current_level /\ SameLevel(f, i, k)
    BY <1>4
  <2>2. /\ f[i].next = Nil => f[k].time <= f[i].time
        /\ f[i].prev = Nil => f[i].time <= f[k].time
        /\ f[i].next # Nil /\ f[i].time < f[k].time => f[f[i].next].time <= f[k].time
    BY <1>1, <2>1 DEF Ordered
  <2>3. f[i].next # Nil => f[i].next \in DOMAIN f
    BY <1>1 DEF Chained
  <2> QED BY <1>2, <2>2, <2>3
<1> QED BY <1>5, <1>6, <1>7 DEF Lists

(* Erasing a level keeps the lists. *)
LEMMA OrphanLists ==
  ASSUME NEW f, IsLimits(f), NEW c, Lists(f, c), NEW s, NEW p
  PROVE  Lists(Orphan(f, s, p), c)
<1> DEFINE g == Orphan(f, s, p)
<1>1. DOMAIN g = DOMAIN f /\ IsLimits(g)
  BY OrphanMap
<1>2. \A k \in DOMAIN f :
        /\ SameOrder(f[k], g[k]) /\ SameLinks(f[k], g[k])
        /\ g[k].current_level = (f[k].current_level /\ k \notin InLevel(f, s, p))
  BY OrphanFields
<1>3. \A k \in DOMAIN f : {f[k].current_level, g[k].current_level} \subseteq BOOLEAN
  BY <1>1, LimitFacts
<1>4. \A j, k \in DOMAIN f : SameLevel(f, j, k) => (k \in InLevel(f, s, p) <=> j \in InLevel(f, s, p))
  BY DEF SameLevel, InLevel
<1> HIDE DEF g
<1>5. \A j, k \in DOMAIN f : SameLevel(f, j, k) => g[k].current_level = g[j].current_level
  BY <1>2, <1>3, <1>4 DEF SameLevel
<1>6. Lists(g, c)
  BY <1>1, <1>2, <1>3, <1>5, MarkedLists
<1> QED BY <1>6 DEF g

(* g is f with order i put after last, at time c. *)
PlacedAfter(f, i, last, s, p, c, g) ==
  /\ DOMAIN g = DOMAIN f \cup {i}
  /\ g[i].side = s /\ g[i].price = p /\ g[i].time = c /\ g[i].current_level
  /\ g[i].next = Nil /\ g[i].prev = last
  /\ \A k \in DOMAIN f :
       /\ g[k].next = IF k = last THEN i ELSE f[k].next
       /\ g[k].prev = f[k].prev
       /\ SameOrder(f[k], g[k])
       /\ g[k].qty = f[k].qty
       /\ g[k].current_level = f[k].current_level

(* An order put at the end of its level, or alone in a new one, keeps the  *)
(* lists.                                                                  *)
LEMMA PlaceLists ==
  ASSUME NEW f, IsLimits(f), NEW g, NEW c \in Nat, Lists(f, c),
         NEW i \in OrderId, i \notin DOMAIN f, NEW last, NEW s, NEW p,
         PlacedAfter(f, i, last, s, p, c, g),
         last = Nil => InLevel(f, s, p) = {},
         last # Nil => last \in InLevel(f, s, p) /\ f[last].next = Nil
  PROVE  Lists(g, c + 1)
<1>1. Chained(f) /\ Ordered(f) /\ Timed(f, c)
  BY DEF Lists
<1>2. \A k \in DOMAIN f : /\ k # Nil /\ f[k].time \in Nat /\ f[k].time < c
                          /\ f[k].current_level \in BOOLEAN
  BY <1>1, LimitFacts DEF Timed
<1>3. i # Nil
  BY ConstantAssumption DEF OrderId, Nil
<1>4. /\ DOMAIN g = DOMAIN f \cup {i} /\ g[i].time = c /\ g[i].next = Nil
      /\ g[i].prev = last /\ g[i].current_level /\ g[i].side = s /\ g[i].price = p
  BY DEF PlacedAfter
<1>5. \A k \in DOMAIN f :
        /\ g[k].next = IF k = last THEN i ELSE f[k].next
        /\ g[k].prev = f[k].prev
        /\ g[k].time = f[k].time
        /\ g[k].current_level = f[k].current_level
        /\ g[k].side = f[k].side /\ g[k].price = f[k].price
  BY DEF PlacedAfter, SameOrder
<1>6. \A j, k \in DOMAIN f : SameLevel(g, j, k) <=> SameLevel(f, j, k)
  BY <1>5 DEF SameLevel
<1>7. \A k \in InLevel(f, s, p) :
        /\ k \in DOMAIN f /\ f[k].side = s /\ f[k].price = p /\ f[k].current_level
  BY DEF InLevel
<1>8. ASSUME NEW k \in DOMAIN f, g[k].current_level, SameLevel(g, k, i) \/ SameLevel(g, i, k)
      PROVE  k \in InLevel(f, s, p)
  BY <1>4, <1>5, <1>8 DEF SameLevel, InLevel
<1>9. Timed(g, c + 1)
  <2> SUFFICES ASSUME NEW j \in DOMAIN g, NEW k \in DOMAIN g
               PROVE  g[j].time < c + 1 /\ (g[j].time = g[k].time => j = k)
    BY DEF Timed
  <2>1. /\ j \in DOMAIN f => g[j].time = f[j].time /\ f[j].time < c /\ f[j].time \in Nat
        /\ k \in DOMAIN f => g[k].time = f[k].time /\ f[k].time < c /\ f[k].time \in Nat
    BY <1>2, <1>5
  <2>2. j \in DOMAIN f /\ k \in DOMAIN f /\ f[j].time = f[k].time => j = k
    BY <1>1 DEF Timed
  <2> QED BY <1>4, <2>1, <2>2
<1>10. ASSUME NEW k \in DOMAIN g, g[k].next # Nil
       PROVE  /\ g[k].next \in DOMAIN g
              /\ g[g[k].next].prev = k
              /\ SameLevel(g, k, g[k].next)
              /\ g[k].time < g[g[k].next].time
  <2>1. k \in DOMAIN f
    BY <1>4, <1>10
  <2>2. CASE k = last
    <3>1. g[k].next = i /\ k # Nil
      BY <1>2, <1>5, <2>1, <2>2
    <3>2. k \in InLevel(f, s, p)
      BY <2>2, <3>1
    <3>3. SameLevel(g, k, i)
      BY <1>4, <1>5, <1>7, <2>1, <3>2 DEF SameLevel
    <3> QED BY <1>2, <1>4, <1>5, <2>1, <2>2, <3>1, <3>3
  <2>3. CASE k # last
    <3>1. g[k].next = f[k].next
      BY <1>5, <2>1, <2>3
    <3>2. /\ f[k].next \in DOMAIN f /\ f[f[k].next].prev = k
          /\ SameLevel(f, k, f[k].next) /\ f[k].time < f[f[k].next].time
      BY <1>1, <1>10, <2>1, <3>1 DEF Chained
    <3> QED BY <1>4, <1>5, <1>6, <2>1, <3>1, <3>2
  <2> QED BY <2>2, <2>3
<1>11. ASSUME NEW k \in DOMAIN g, g[k].prev # Nil
       PROVE  g[k].prev \in DOMAIN g /\ g[g[k].prev].next = k
  <2>1. CASE k = i
    <3>1. last \in DOMAIN f
      BY <1>4, <1>7, <1>11, <2>1
    <3> QED BY <1>4, <1>5, <2>1, <3>1
  <2>2. CASE k # i
    <3>1. k \in DOMAIN f /\ g[k].prev = f[k].prev
      BY <1>4, <1>5, <2>2
    <3>2. f[k].prev \in DOMAIN f /\ f[f[k].prev].next = k
      BY <1>1, <1>11, <3>1 DEF Chained
    <3>3. f[k].prev # last
      BY <1>2, <3>1, <3>2
    <3> QED BY <1>4, <1>5, <3>1, <3>2, <3>3
  <2> QED BY <2>1, <2>2
<1>12. Chained(g)
  BY <1>10, <1>11 DEF Chained
<1>13. ASSUME NEW a \in DOMAIN g, NEW k \in DOMAIN g,
              g[a].current_level, SameLevel(g, a, k)
       PROVE  /\ g[a].next = Nil => g[k].time <= g[a].time
              /\ g[a].prev = Nil => g[a].time <= g[k].time
              /\ g[a].next # Nil /\ g[a].time < g[k].time
                   => g[g[a].next].time <= g[k].time
  <2>1. CASE a = i
    <3>1. g[k].time <= c
      BY <1>2, <1>4, <1>5
    <3>2. g[a].prev = Nil => k = i
      <4>1. k \in DOMAIN f => k \in InLevel(f, s, p)
        BY <1>8, <1>13, <2>1 DEF SameLevel
      <4> QED BY <1>4, <2>1, <4>1
    <3> QED BY <1>4, <2>1, <3>1, <3>2
  <2>2. CASE a # i /\ k = i
    <3>1. a \in DOMAIN f /\ a \in InLevel(f, s, p)
      BY <1>4, <1>8, <1>13, <2>2
    <3>2. last # Nil /\ last \in InLevel(f, s, p) /\ f[last].next = Nil /\ last \in DOMAIN f
      BY <1>7, <3>1
    <3>3. SameLevel(f, a, last) /\ SameLevel(f, last, a) /\ f[a].current_level
      BY <1>2, <1>7, <3>1, <3>2 DEF SameLevel
    <3>4. f[a].next = Nil => a = last
      <4>1. f[a].time <= f[last].time /\ (f[a].next = Nil => f[last].time <= f[a].time)
        BY <1>1, <1>7, <3>1, <3>2, <3>3 DEF Ordered
      <4>2. f[a].next = Nil => f[a].time = f[last].time
        BY <1>2, <3>1, <3>2, <4>1
      <4> QED BY <1>1, <3>1, <3>2, <4>2 DEF Timed
    <3>5. g[a].next # Nil
      BY <1>3, <1>5, <3>1, <3>4
    <3>6. g[g[a].next].time <= c
      <4>1. g[a].next \in DOMAIN g
        BY <3>5, <1>12 DEF Chained
      <4> QED BY <1>2, <1>4, <1>5, <4>1
    <3> QED BY <1>2, <1>4, <1>5, <2>2, <3>1, <3>5, <3>6
  <2>3. CASE a # i /\ k # i
    <3>1. a \in DOMAIN f /\ k \in DOMAIN f /\ f[a].current_level /\ SameLevel(f, a, k)
      BY <1>4, <1>5, <1>6, <1>13, <2>3
    <3>2. /\ f[a].next = Nil => f[k].time <= f[a].time
          /\ f[a].prev = Nil => f[a].time <= f[k].time
          /\ f[a].next # Nil /\ f[a].time < f[k].time => f[f[a].next].time <= f[k].time
      BY <1>1, <3>1 DEF Ordered
    <3>3. CASE a = last
      <4>1. f[a].next = Nil
        BY <1>2, <3>1, <3>3
      <4> QED BY <1>2, <1>3, <1>5, <3>1, <3>2, <3>3, <4>1
    <3>4. CASE a # last
      <4>1. g[a].next = f[a].next
        BY <1>5, <3>1, <3>4
      <4>2. f[a].next # Nil => f[a].next \in DOMAIN f
        BY <1>1, <3>1 DEF Chained
      <4> QED BY <1>5, <3>1, <3>2, <4>1, <4>2
    <3> QED BY <3>3, <3>4
  <2> QED BY <2>1, <2>2, <2>3
<1>14. Ordered(g)
  BY <1>13 DEF Ordered
<1> QED BY <1>9, <1>12, <1>14 DEF Lists
-----------------------------------------------------------------------------
(***************************************************************************)
(* What the writes do to a level v of side s at price p.                   *)
(***************************************************************************)

(* Unlinking an order that is not last in the level keeps its tail, one    *)
(* that is not first its head, and a head that is erased is stale.         *)
LEMMA UnlinkLevel ==
  ASSUME NEW f, IsLimits(f), NEW i \in DOMAIN f, NEW g, Chained(f),
         Unlinked(f, i, g), NEW v, NEW s, NEW p
  PROVE  /\ TailOK(f, v, s, p) /\ v.tail # i => TailOK(g, v, s, p)
         /\ HeadOK(f, v, s, p) => HeadOK(g, v, s, p)
<1> DEFINE n == f[i].next
           m == f[i].prev
<1>1. i # Nil
  BY LimitFacts
<1>2. DOMAIN g = DOMAIN f \ {i}
  BY DEF Unlinked
<1>3. \A k \in DOMAIN g : /\ g[k].next = IF k = m THEN n ELSE f[k].next
                          /\ g[k].prev = IF k = n THEN m ELSE f[k].prev
  BY DEF Unlinked
<1>4. InLevel(g, s, p) = InLevel(f, s, p) \ {i}
  BY DEF Unlinked, InLevel, SameOrder
<1>5. n # Nil => f[n].prev = i
  BY DEF Chained
<1>6. m # Nil => f[m].next = i
  BY DEF Chained
<1>7. \A k \in DOMAIN f : k # Nil
  BY LimitFacts
<1> HIDE DEF n, m
<1>8. ASSUME TailOK(f, v, s, p), v.tail # i
      PROVE  TailOK(g, v, s, p)
  <2>1. v.tail \in InLevel(f, s, p) /\ f[v.tail].next = Nil
    BY <1>8 DEF TailOK
  <2>2. v.tail \in InLevel(g, s, p) /\ v.tail \in DOMAIN g
    BY <1>4, <1>8, <2>1 DEF InLevel
  <2>3. v.tail # m
    BY <1>1, <1>2, <1>6, <1>7, <2>1, <2>2
  <2> QED BY <1>3, <2>1, <2>2, <2>3 DEF TailOK
<1>9. ASSUME HeadOK(f, v, s, p), v.head \in DOMAIN g
      PROVE  v.head \in InLevel(g, s, p) /\ g[v.head].prev = Nil
  <2>1. v.head \in InLevel(f, s, p) /\ f[v.head].prev = Nil /\ v.head # i
    BY <1>2, <1>9 DEF HeadOK
  <2>2. v.head # n
    BY <1>1, <1>2, <1>5, <1>7, <1>9, <2>1
  <2> QED BY <1>3, <1>4, <1>9, <2>1, <2>2
<1> QED BY <1>8, <1>9 DEF HeadOK

(* The neighbours of an unlinked order take its place at the ends. *)
LEMMA UnlinkEnds ==
  ASSUME NEW f, IsLimits(f), NEW i \in DOMAIN f, NEW g, Chained(f),
         Unlinked(f, i, g), f[i].current_level
  PROVE  /\ f[i].next # Nil => /\ f[i].next \in InLevel(g, f[i].side, f[i].price)
                               /\ g[f[i].next].prev = f[i].prev
                               /\ f[i].next # i
         /\ f[i].prev # Nil => /\ f[i].prev \in InLevel(g, f[i].side, f[i].price)
                               /\ g[f[i].prev].next = f[i].next
                               /\ f[i].prev # i
<1>1. \A k \in DOMAIN f : f[k].time \in Nat
  BY LimitFacts
<1>2. f[i].next # Nil => /\ f[i].next \in DOMAIN f /\ SameLevel(f, i, f[i].next)
                         /\ f[i].next # i
  BY <1>1 DEF Chained
<1>3. f[i].prev # Nil => /\ f[i].prev \in DOMAIN f /\ SameLevel(f, f[i].prev, i)
                         /\ f[i].prev # i
  <2>1. i # Nil /\ (f[i].prev # Nil => f[i].prev \in DOMAIN f /\ f[f[i].prev].next = i)
    BY LimitFacts DEF Chained
  <2>2. \A k \in DOMAIN f : f[k].next = i => SameLevel(f, k, i) /\ f[k].time < f[i].time
    BY <2>1 DEF Chained
  <2> QED BY <1>1, <2>1, <2>2
<1> QED BY <1>2, <1>3 DEF Unlinked, SameLevel, SameOrder, InLevel

(* Other writes that keep the links of the orders of a level keep it. *)
LEMMA KeptLevel ==
  ASSUME NEW f, NEW g, DOMAIN g = DOMAIN f, NEW s, NEW p,
         \A k \in DOMAIN f : SameLinks(f[k], g[k]),
         InLevel(g, s, p) = InLevel(f, s, p), NEW v
  PROVE  /\ TailOK(f, v, s, p) => TailOK(g, v, s, p)
         /\ HeadOK(f, v, s, p) => HeadOK(g, v, s, p)
<1>1. \A k \in InLevel(f, s, p) : k \in DOMAIN f
  BY DEF InLevel
<1> QED BY <1>1 DEF TailOK, HeadOK, SameLinks

(* The orders of the other levels keep theirs when one is erased. *)
LEMMA OrphanOthers ==
  ASSUME NEW f, IsLimits(f), NEW s, NEW p, NEW t, NEW q
  PROVE  InLevel(Orphan(f, s, p), t, q)
           = IF t = s /\ q = p THEN {} ELSE InLevel(f, t, q)
<1> DEFINE g == Orphan(f, s, p)
<1>1. DOMAIN g = DOMAIN f
  BY OrphanMap
<1>2. \A k \in DOMAIN f :
        /\ g[k].side = f[k].side /\ g[k].price = f[k].price
        /\ g[k].current_level = (f[k].current_level /\ k \notin InLevel(f, s, p))
  BY OrphanFields DEF SameOrder
<1> HIDE DEF g
<1>3. InLevel(g, t, q) = IF t = s /\ q = p THEN {} ELSE InLevel(f, t, q)
  BY <1>1, <1>2 DEF InLevel
<1> QED BY <1>3 DEF g

(* Erasing a level and leaving its orders, if any, without one. *)
LEMMA EraseLevel ==
  ASSUME NEW f, IsLimits(f), NEW b, IsBook(b), NEW c, Lists(f, c), HasLevel(f, b),
         NEW s \in Side, NEW p, NEW K, OthersOK(f, b, s, p, K)
  PROVE  /\ Lists(Orphan(f, s, p), c)
         /\ HasLevel(Orphan(f, s, p), DropLevel(b, s, p))
         /\ LevelsOK(Orphan(f, s, p), DropLevel(b, s, p), K)
<1> DEFINE g == Orphan(f, s, p)
           d == DropLevel(b, s, p)
<1>1. DOMAIN g = DOMAIN f /\ IsLimits(g)
  BY OrphanMap
<1>2. \A k \in DOMAIN f :
        /\ SameOrder(f[k], g[k]) /\ SameLinks(f[k], g[k])
        /\ g[k].current_level = (f[k].current_level /\ k \notin InLevel(f, s, p))
  BY OrphanFields
<1>3. \A t, q : t # s \/ q # p => InLevel(g, t, q) = InLevel(f, t, q)
  BY OrphanOthers
<1>4. ASSUME NEW t \in Side, NEW q
      PROVE  q \in DOMAIN d[t] <=> q \in DOMAIN b[t] /\ (t # s \/ q # p)
  BY DropLevelPrices
<1>5. ASSUME NEW t \in Side, NEW q \in DOMAIN d[t]
      PROVE  d[t][q] = b[t][q]
  BY <1>5, DropLevelFields
<1>6. Lists(g, c)
  BY OrphanLists
<1> HIDE DEF g, d
<1>7. ASSUME NEW k \in DOMAIN g, g[k].current_level
      PROVE  g[k].price \in DOMAIN d[g[k].side]
  <2>1. /\ k \in DOMAIN f /\ f[k].current_level /\ k \notin InLevel(f, s, p)
        /\ g[k].price = f[k].price /\ g[k].side = f[k].side /\ f[k].side \in Side
    BY <1>1, <1>2, <1>7, LimitFacts DEF SameOrder
  <2>2. f[k].price \in DOMAIN b[f[k].side]
    BY <2>1 DEF HasLevel
  <2>3. f[k].side # s \/ f[k].price # p
    BY <2>1 DEF InLevel
  <2> QED BY <1>4, <2>1, <2>2, <2>3
<1>8. ASSUME NEW t \in Side, NEW q \in DOMAIN d[t]
      PROVE  LevelOK(g, d[t][q], t, q, K)
  <2>1. q \in DOMAIN b[t] /\ (t # s \/ q # p) /\ d[t][q] = b[t][q]
    BY <1>4, <1>5, <1>8
  <2>2. LevelOK(f, b[t][q], t, q, K)
    BY <2>1 DEF OthersOK
  <2>3. InLevel(g, t, q) = InLevel(f, t, q)
    BY <1>3, <2>1
  <2>4. /\ TailOK(f, b[t][q], t, q) => TailOK(g, b[t][q], t, q)
        /\ HeadOK(f, b[t][q], t, q) => HeadOK(g, b[t][q], t, q)
    BY <1>1, <1>2, <2>3, KeptLevel
  <2> QED BY <2>1, <2>2, <2>4 DEF LevelOK
<1>9. HasLevel(g, d) /\ LevelsOK(g, d, K)
  BY <1>7, <1>8 DEF HasLevel, LevelsOK
<1> QED BY <1>6, <1>9 DEF g, d
-----------------------------------------------------------------------------
(***************************************************************************)
(* The inductive invariant.  The one level that may have no orders is the  *)
(* one FIFOMatch has just used up and is about to erase.                   *)
(***************************************************************************)
Active == {"add", "fill", "report", "place"}

(* The ids a level's head may hold: those handed out, but for the order    *)
(* being added.  A stale head never names an order that comes back.        *)
Known == {i \in 1 .. orderid : pc \in Active => i # order.id}

LevelsKept ==
  IF pc = "fill" /\ book_order = Nil
  THEN OthersOK(limitorders, book, RestingSide, book_itr, Known)
  ELSE LevelsOK(limitorders, book, Known)

(* The order FIFOMatch is at, if it is not a stale head, is the first of   *)
(* its level; it is nullptr only when the level has no orders left.        *)
MatcherAtHead ==
  pc = "fill" =>
    /\ book_order \in Live => /\ book_order \in InLevel(limitorders, RestingSide, book_itr)
                              /\ limitorders[book_order].prev = Nil
    /\ book_order = Nil => InLevel(limitorders, RestingSide, book_itr) = {}

IdsKnown == Live \subseteq Known /\ (pc \in Active => order.id \in 1 .. orderid)

ListInv == /\ Lists(limitorders, clock)
           /\ HasLevel(limitorders, book)
           /\ LevelsKept
           /\ MatcherAtHead
           /\ IdsKnown

(* cancelOrder: whichever place the order had, the lists stay in order,    *)
(* the levels keep their ends, and no head names the order any more.       *)
LEMMA RemoveLimitLists ==
  ASSUME TypeOK, ListInv, pc = "idle", NEW i \in Live, RemoveLimit(i)
  PROVE  /\ Lists(limitorders', clock)
         /\ HasLevel(limitorders', book')
         /\ LevelsOK(limitorders', book', (1 .. orderid) \ {i})
<1> DEFINE f == limitorders
           l == limitorders[i]
           g == DropLimit(SetNext(SetPrev(limitorders, l.next, l.prev),
                                  l.prev, l.next), i)
           K == 1 .. orderid
<1>1. IsLimits(f) /\ IsBook(book) /\ i \in DOMAIN f /\ IsSide(book["buy"]) /\ IsSide(book["sell"])
  BY DEF TypeOK, Live, IsBook, Side
<1>2. /\ l.side \in Side /\ l.price \in Price /\ l.current_level \in BOOLEAN
      /\ l.next \in Pointer /\ l.prev \in Pointer /\ i # Nil
  BY <1>1, LimitFacts
<1>3. Unlinked(f, i, g)
  BY <1>1, UnlinkFields
<1>4. IsLimits(g)
  <2>1. IsLimits(SetPrev(f, l.next, l.prev))
    BY <1>1, <1>2, LinkLimits
  <2>2. IsLimits(SetNext(SetPrev(f, l.next, l.prev), l.prev, l.next))
    BY <1>2, <2>1, LinkLimits
  <2> QED BY <2>2, DropLimitMap
<1>5. \/ l.next # Nil /\ l.prev # Nil /\ limitorders' = g /\ book' = book
      \/ /\ l.next # Nil /\ l.prev = Nil /\ limitorders' = g
         /\ book' = IF l.current_level
                    THEN SetHead(book, l.side, l.price, l.next) ELSE book
      \/ /\ l.next = Nil /\ l.prev # Nil /\ limitorders' = g
         /\ book' = IF l.current_level
                    THEN SetTail(book, l.side, l.price, l.prev) ELSE book
      \/ /\ l.next = Nil /\ l.prev = Nil
         /\ limitorders' = Orphan(g, l.side, l.price)
         /\ book' = DropLevel(book, l.side, l.price)
  BY DEF RemoveLimit
<1> HIDE DEF g
<1>6. Lists(f, clock) /\ Chained(f) /\ HasLevel(f, book)
  BY DEF ListInv, Lists
<1>7. Lists(g, clock)
  BY <1>1, <1>3, <1>6, UnlinkOrdered
<1>8. \A s \in Side : \A p \in DOMAIN book[s] :
        /\ TailOK(f, book[s][p], s, p) /\ HeadOK(f, book[s][p], s, p)
        /\ book[s][p].head \in K
  <2>1. LevelsOK(f, book, Known)
    BY DEF ListInv, LevelsKept
  <2> QED BY <2>1 DEF LevelsOK, LevelOK, Known
<1>9. \A s \in Side : \A p \in DOMAIN book[s] :
        /\ book[s][p].tail # i => TailOK(g, book[s][p], s, p)
        /\ HeadOK(g, book[s][p], s, p)
  BY <1>1, <1>3, <1>6, <1>8, UnlinkLevel
<1>10. \A s \in Side : \A p \in DOMAIN book[s] :
         /\ book[s][p].tail = i =>
              l.current_level /\ s = l.side /\ p = l.price /\ l.next = Nil
         /\ book[s][p].head = i =>
              l.current_level /\ s = l.side /\ p = l.price /\ l.prev = Nil
  BY <1>1, <1>8 DEF TailOK, HeadOK, InLevel
<1>11. HasLevel(g, book)
  BY <1>3, <1>6 DEF HasLevel, Unlinked, SameOrder
<1>12. l.current_level =>
         /\ l.price \in DOMAIN book[l.side]
         /\ l.next # Nil => /\ l.next \in InLevel(g, l.side, l.price)
                            /\ g[l.next].prev = l.prev /\ l.next # i
         /\ l.prev # Nil => /\ l.prev \in InLevel(g, l.side, l.price)
                            /\ g[l.prev].next = l.next /\ l.prev # i
  BY <1>1, <1>3, <1>6, UnlinkEnds DEF HasLevel
<1>13. DOMAIN g \subseteq K
  BY <1>1, <1>3 DEF ListInv, IdsKnown, Known, Live, Unlinked
<1> HIDE DEF l, K
<1>14. CASE limitorders' = g /\ book' = book /\ (l.current_level => l.next # Nil /\ l.prev # Nil)
  <2>1. \A s \in Side : \A p \in DOMAIN book[s] : LevelOK(g, book[s][p], s, p, K \ {i})
    BY <1>8, <1>9, <1>10, <1>14 DEF LevelOK
  <2> QED BY <1>7, <1>11, <1>14, <2>1 DEF K, LevelsOK
<1>15. CASE /\ l.current_level /\ l.next # Nil /\ l.prev = Nil /\ limitorders' = g
            /\ book' = SetHead(book, l.side, l.price, l.next)
  <2>1. \A s \in Side : DOMAIN book'[s] = DOMAIN book[s]
    BY <1>1, <1>2, <1>15, LinkLevel
  <2>2. /\ book'[l.side][l.price].head = l.next
        /\ book'[l.side][l.price].tail = book[l.side][l.price].tail
    BY <1>1, <1>2, <1>12, <1>15, LevelFields
  <2>3. \A s \in Side : \A p \in DOMAIN book[s] :
          s # l.side \/ p # l.price => book'[s][p] = book[s][p]
    BY <1>1, <1>2, <1>12, <1>15, LevelFields
  <2>4. LevelOK(g, book'[l.side][l.price], l.side, l.price, K \ {i})
    <3>1. TailOK(g, book[l.side][l.price], l.side, l.price)
      BY <1>2, <1>9, <1>10, <1>12, <1>15
    <3>2. TailOK(g, book'[l.side][l.price], l.side, l.price)
      BY <2>2, <3>1 DEF TailOK
    <3>3. l.next \in InLevel(g, l.side, l.price) /\ g[l.next].prev = Nil /\ l.next # i
      BY <1>12, <1>15
    <3>4. l.next \in K
      BY <1>13, <3>3 DEF InLevel
    <3> QED BY <2>2, <3>2, <3>3, <3>4 DEF LevelOK, HeadOK
  <2>5. ASSUME NEW s \in Side, NEW p \in DOMAIN book[s]
        PROVE  LevelOK(g, book'[s][p], s, p, K \ {i})
    <3>1. CASE s = l.side /\ p = l.price
      BY <2>4, <3>1
    <3>2. CASE s # l.side \/ p # l.price
      BY <1>8, <1>9, <1>10, <2>3, <3>2 DEF LevelOK
    <3> QED BY <3>1, <3>2
  <2>6. HasLevel(g, book')
    BY <1>3, <1>4, <1>11, <2>1, LimitFacts DEF HasLevel
  <2> QED BY <1>7, <1>15, <2>1, <2>5, <2>6 DEF K, LevelsOK
<1>16. CASE /\ l.current_level /\ l.next = Nil /\ l.prev # Nil /\ limitorders' = g
            /\ book' = SetTail(book, l.side, l.price, l.prev)
  <2>1. \A s \in Side : DOMAIN book'[s] = DOMAIN book[s]
    BY <1>1, <1>2, <1>16, LinkLevel
  <2>2. /\ book'[l.side][l.price].tail = l.prev
        /\ book'[l.side][l.price].head = book[l.side][l.price].head
    BY <1>1, <1>2, <1>12, <1>16, LevelFields
  <2>3. \A s \in Side : \A p \in DOMAIN book[s] :
          s # l.side \/ p # l.price => book'[s][p] = book[s][p]
    BY <1>1, <1>2, <1>12, <1>16, LevelFields
  <2>4. LevelOK(g, book'[l.side][l.price], l.side, l.price, K \ {i})
    <3>1. /\ HeadOK(g, book[l.side][l.price], l.side, l.price)
          /\ book[l.side][l.price].head \in K \ {i}
      BY <1>2, <1>8, <1>9, <1>10, <1>12, <1>16
    <3>2. HeadOK(g, book'[l.side][l.price], l.side, l.price)
      BY <2>2, <3>1 DEF HeadOK
    <3>3. l.prev \in InLevel(g, l.side, l.price) /\ g[l.prev].next = Nil
      BY <1>12, <1>16
    <3> QED BY <2>2, <3>1, <3>2, <3>3 DEF LevelOK, TailOK
  <2>5. ASSUME NEW s \in Side, NEW p \in DOMAIN book[s]
        PROVE  LevelOK(g, book'[s][p], s, p, K \ {i})
    <3>1. CASE s = l.side /\ p = l.price
      BY <2>4, <3>1
    <3>2. CASE s # l.side \/ p # l.price
      BY <1>8, <1>9, <1>10, <2>3, <3>2 DEF LevelOK
    <3> QED BY <3>1, <3>2
  <2>6. HasLevel(g, book')
    BY <1>3, <1>4, <1>11, <2>1, LimitFacts DEF HasLevel
  <2> QED BY <1>7, <1>16, <2>1, <2>5, <2>6 DEF K, LevelsOK
<1>17. CASE /\ l.next = Nil /\ l.prev = Nil
            /\ limitorders' = Orphan(g, l.side, l.price)
            /\ book' = DropLevel(book, l.side, l.price)
  <2>1. OthersOK(g, book, l.side, l.price, K \ {i})
    BY <1>8, <1>9, <1>10 DEF OthersOK, LevelOK
  <2> QED BY <1>1, <1>2, <1>4, <1>7, <1>11, <1>17, <2>1, EraseLevel DEF K
<1> QED BY <1>2, <1>5, <1>14, <1>15, <1>16, <1>17

(* A write of a quantity. *)
Requantified(f, g) ==
  /\ DOMAIN g = DOMAIN f
  /\ \A k \in DOMAIN f : /\ SameOrder(f[k], g[k]) /\ SameLinks(f[k], g[k])
                         /\ g[k].current_level = f[k].current_level

LEMMA QtyFields ==
  ASSUME NEW f, IsLimits(f), NEW i \in DOMAIN f, NEW q \in Qty
  PROVE  /\ Requantified(f, [f EXCEPT ![i].qty = q])
         /\ IsLimits([f EXCEPT ![i].qty = q])
         /\ [f EXCEPT ![i].qty = q][i].qty = q
         /\ \A k \in DOMAIN f \ {i} : [f EXCEPT ![i].qty = q][k] = f[k]
<1>1. f \in [DOMAIN f -> Limit]
  BY DEF IsLimits
<1>2. \A k \in DOMAIN f : [f EXCEPT ![i].qty = q][k]
                            = IF k = i THEN [f[k] EXCEPT !.qty = q] ELSE f[k]
  BY <1>1
<1>3. Requantified(f, [f EXCEPT ![i].qty = q])
  BY <1>1, <1>2 DEF Requantified, SameOrder, SameLinks, Limit
<1>4. IsLimits([f EXCEPT ![i].qty = q])
  BY <1>1 DEF IsLimits, Limit
<1> QED BY <1>1, <1>2, <1>3, <1>4 DEF Limit

(* It keeps the lists and the levels. *)
LEMMA QtyLists ==
  ASSUME NEW f, IsLimits(f), NEW g, Requantified(f, g), NEW c, Lists(f, c),
         NEW b, HasLevel(f, b), NEW K, LevelsOK(f, b, K)
  PROVE  /\ Lists(g, c) /\ HasLevel(g, b) /\ LevelsOK(g, b, K)
         /\ \A s, p : InLevel(g, s, p) = InLevel(f, s, p)
<1>1. /\ DOMAIN g = DOMAIN f
      /\ \A k \in DOMAIN f : /\ SameOrder(f[k], g[k]) /\ SameLinks(f[k], g[k])
                             /\ g[k].current_level = f[k].current_level
  BY DEF Requantified
<1>2. \A k \in DOMAIN f : f[k].current_level \in BOOLEAN
  BY LimitFacts
<1>3. Lists(g, c)
  <2>1. \A k \in DOMAIN f : {f[k].current_level, g[k].current_level} \subseteq BOOLEAN
    BY <1>1, <1>2
  <2>2. \A j, k \in DOMAIN f : SameLevel(f, j, k) => g[k].current_level = g[j].current_level
    BY <1>1 DEF SameLevel
  <2> QED BY <1>1, <2>1, <2>2, MarkedLists
<1>4. \A s, p : InLevel(g, s, p) = InLevel(f, s, p)
  BY <1>1 DEF InLevel, SameOrder
<1>5. HasLevel(g, b)
  BY <1>1 DEF HasLevel, SameOrder
<1>6. ASSUME NEW s \in Side, NEW p \in DOMAIN b[s]
      PROVE  LevelOK(g, b[s][p], s, p, K)
  <2>1. LevelOK(f, b[s][p], s, p, K)
    BY <1>6 DEF LevelsOK
  <2>2. /\ TailOK(f, b[s][p], s, p) => TailOK(g, b[s][p], s, p)
        /\ HeadOK(f, b[s][p], s, p) => HeadOK(g, b[s][p], s, p)
    BY <1>1, <1>4, KeptLevel
  <2> QED BY <2>1, <2>2 DEF LevelOK
<1>7. LevelsOK(g, b, K)
  BY <1>6 DEF LevelsOK
<1> QED BY <1>3, <1>4, <1>5, <1>7

(* removeOrderFromBook: the first order of the level leaves, and the next  *)
(* one, if there is one, is the first.  If book_lvl is a copy, the level   *)
(* of the book keeps its head, which is stale now.                         *)
LEMMA WithoutHeadLists ==
  ASSUME TypeOK, MatcherAtBest, ListInv, pc = "fill", book_order \in Live
  PROVE  /\ RestingSide \in Side /\ book_itr \in DOMAIN book[RestingSide]
         /\ Lists(WithoutHead(limitorders), clock)
         /\ HasLevel(WithoutHead(limitorders), HeadRemoved)
         /\ OthersOK(WithoutHead(limitorders), HeadRemoved, RestingSide, book_itr, Known)
         /\ limitorders[book_order].next # Nil =>
              /\ LevelsOK(WithoutHead(limitorders), HeadRemoved, Known)
              /\ limitorders[book_order].next
                   \in InLevel(WithoutHead(limitorders), RestingSide, book_itr)
              /\ WithoutHead(limitorders)[limitorders[book_order].next].prev = Nil
         /\ limitorders[book_order].next = Nil =>
              InLevel(WithoutHead(limitorders), RestingSide, book_itr) = {}
<1> DEFINE f == limitorders
           i == book_order
           g == WithoutHead(limitorders)
           n == limitorders[book_order].next
           b == HeadRemoved
           S == RestingSide
<1>1. /\ IsLimits(f) /\ IsBook(book) /\ i \in DOMAIN f /\ order \in Order
      /\ Lists(f, clock) /\ Chained(f) /\ Ordered(f) /\ Timed(f, clock) /\ HasLevel(f, book)
  BY DEF TypeOK, Live, ListInv, Lists
<1>2. i # Nil /\ n \in Pointer /\ \A k \in DOMAIN f : f[k].time \in Nat /\ f[k].side \in Side
  BY <1>1, LimitFacts
<1>3. S \in Side /\ book_itr \in DOMAIN book[S]
  BY <1>1 DEF RestingSide, Other, Side, Order, MatcherAtBest, IsBest
<1>4. f[i].prev = Nil /\ i \in InLevel(f, S, book_itr)
  BY DEF ListInv, MatcherAtHead
<1>5. f[i].current_level /\ f[i].side = S /\ f[i].price = book_itr
  BY <1>4 DEF InLevel
<1>6. Unlinked(f, i, g)
  BY <1>1, <1>4, UnlinkHeadFields DEF WithoutHead
<1>7. IsLimits(g) /\ DOMAIN g = Live \ {i} /\ \A t \in Side : DOMAIN b[t] = DOMAIN book[t]
  BY WithoutHeadType
<1>8. /\ detached => b = book
      /\ ~detached => b = SetHead(book, S, book_itr, n)
  BY DEF HeadRemoved
<1> HIDE DEF g, b, S
<1>9. Lists(g, clock)
  BY <1>1, <1>6, UnlinkOrdered
<1>10. HasLevel(g, b)
  <2> SUFFICES ASSUME NEW k \in DOMAIN g, g[k].current_level
               PROVE  g[k].price \in DOMAIN b[g[k].side]
    BY DEF HasLevel
  <2>1. k \in DOMAIN f /\ f[k].current_level /\ g[k].price = f[k].price /\ g[k].side = f[k].side
    BY <1>6 DEF Unlinked, SameOrder
  <2> QED BY <1>1, <1>2, <1>7, <2>1 DEF HasLevel
<1>11. LevelsOK(f, book, Known)
  BY <1>2 DEF ListInv, LevelsKept
<1>12. ASSUME NEW t \in Side, NEW q \in DOMAIN book[t]
       PROVE  /\ book[t][q].head \in Known
              /\ HeadOK(g, book[t][q], t, q)
              /\ book[t][q].tail # i => TailOK(g, book[t][q], t, q)
              /\ book[t][q].tail = i => t = S /\ q = book_itr /\ n = Nil
  <2>1. /\ TailOK(f, book[t][q], t, q) /\ HeadOK(f, book[t][q], t, q)
        /\ book[t][q].head \in Known
    BY <1>11, <1>12 DEF LevelsOK, LevelOK
  <2>2. book[t][q].tail = i => t = S /\ q = book_itr /\ n = Nil
    BY <1>5, <2>1 DEF TailOK, InLevel
  <2> QED BY <1>1, <1>6, <2>1, <2>2, UnlinkLevel
<1>13. ASSUME NEW t \in Side, NEW q \in DOMAIN book[t], t # S \/ q # book_itr
       PROVE  LevelOK(g, b[t][q], t, q, Known)
  <2>1. b[t][q] = book[t][q]
    BY <1>1, <1>3, <1>8, <1>13, LevelFields DEF TypeOK
  <2> QED BY <1>12, <1>13, <2>1 DEF LevelOK
<1>14. OthersOK(g, b, S, book_itr, Known)
  BY <1>7, <1>13 DEF OthersOK
<1>15. ASSUME n # Nil
       PROVE  n \in InLevel(g, S, book_itr) /\ g[n].prev = Nil
  BY <1>1, <1>4, <1>5, <1>6, <1>15, UnlinkEnds
<1>16. ASSUME n # Nil
       PROVE  LevelOK(g, b[S][book_itr], S, book_itr, Known)
  <2>1. /\ HeadOK(g, book[S][book_itr], S, book_itr) /\ book[S][book_itr].head \in Known
        /\ TailOK(g, book[S][book_itr], S, book_itr)
    BY <1>3, <1>12, <1>16
  <2>2. CASE detached
    BY <1>8, <2>1, <2>2 DEF LevelOK
  <2>3. CASE ~detached
    <3>1. b[S][book_itr].head = n /\ b[S][book_itr].tail = book[S][book_itr].tail
      BY <1>1, <1>3, <1>8, <2>3, LevelFields
    <3>2. n \in Known
      BY <1>7, <1>15, <1>16 DEF ListInv, IdsKnown, InLevel
    <3> QED BY <1>15, <1>16, <2>1, <3>1, <3>2 DEF LevelOK, HeadOK, TailOK
  <2> QED BY <2>2, <2>3 DEF TypeOK
<1>17. ASSUME n # Nil
       PROVE  LevelsOK(g, b, Known)
  BY <1>7, <1>13, <1>16, <1>17 DEF LevelsOK
<1>18. ASSUME n = Nil, NEW k \in InLevel(g, S, book_itr)
       PROVE  FALSE
  <2>1. k \in DOMAIN f /\ k # i /\ SameLevel(f, i, k)
    BY <1>5, <1>6, <1>18 DEF InLevel, Unlinked, SameOrder, SameLevel
  <2>2. f[k].time <= f[i].time /\ f[i].time <= f[k].time
    BY <1>1, <1>4, <1>5, <1>18, <2>1 DEF Ordered
  <2>3. f[k].time = f[i].time
    BY <1>1, <1>2, <2>1, <2>2
  <2> QED BY <1>1, <2>1, <2>3 DEF Timed
<1> QED BY <1>3, <1>9, <1>10, <1>14, <1>15, <1>17, <1>18 DEF g, b, S
-----------------------------------------------------------------------------
(***************************************************************************)
(* The steps of the handlers.                                              *)
(***************************************************************************)

(* What is known of a step that leaves no match under way. *)
LEMMA Settled ==
  ASSUME NEW K, Lists(limitorders', clock'), HasLevel(limitorders', book'),
         LevelsOK(limitorders', book', K), K \subseteq Known', pc' # "fill", IdsKnown'
  PROVE  ListInv'
<1>1. LevelsOK(limitorders', book', Known')
  BY DEF LevelsOK, LevelOK
<1>2. LevelsKept'
  BY <1>1 DEF LevelsKept
<1>3. MatcherAtHead'
  BY DEF MatcherAtHead
<1> QED BY <1>2, <1>3 DEF ListInv

(* A step that leaves the book as it is, matches nothing and adds ids to   *)
(* those known.                                                            *)
LEMMA BookUntouched ==
  ASSUME ListInv, UNCHANGED <<limitorders, book, clock>>,
         Known \subseteq Known', pc # "fill", pc' # "fill",
         pc' \in Active => order'.id \in 1 .. orderid'
  PROVE  ListInv'
<1>1. /\ Lists(limitorders', clock') /\ HasLevel(limitorders', book')
      /\ LevelsOK(limitorders', book', Known)
  BY DEF ListInv, LevelsKept
<1>2. IdsKnown'
  BY DEF ListInv, IdsKnown, Live
<1> QED BY <1>1, <1>2, Settled

LEMMA ListRequest ==
  ASSUME TypeOK, ListInv, Request
  PROVE  ListInv'
<1>1. pc = "idle" /\ Known = 1 .. orderid /\ orderid \in Nat
  BY ConstantAssumption
     DEF Request, AddOrder, RefuseAdd, RefuseCancel, CancelOrder, RefuseModify,
         ModifyQuantity, ModifyPrice, Idle, Known, Active, TypeOK
<1>2. ASSUME NEW u \in User, NEW s \in Side, NEW p \in Price, NEW q \in Quantity,
             AddOrder(u, s, p, q)
      PROVE  ListInv'
  <2>1. /\ UNCHANGED <<limitorders, book, clock>> /\ pc' = "add"
        /\ orderid' = orderid + 1 /\ order'.id = orderid + 1
    BY <1>2 DEF AddOrder
  <2>2. Known \subseteq Known' /\ order'.id \in 1 .. orderid'
    BY <1>1, <2>1 DEF Known
  <2> QED BY <1>1, <2>1, <2>2, BookUntouched
<1>3. ASSUME NEW errors, Refuse(errors)
      PROVE  ListInv'
  <2>1. UNCHANGED <<limitorders, book, clock, orderid>> /\ pc' = "return"
    BY <1>3 DEF Refuse
  <2>2. Known \subseteq Known' /\ pc' \notin Active
    BY <1>1, <2>1 DEF Known, Active
  <2> QED BY <1>1, <2>1, <2>2, BookUntouched
<1>4. ASSUME NEW i \in OrderId, NEW u \in User, CancelOrder(i, u)
      PROVE  ListInv'
  <2>1. /\ i \in Live /\ RemoveLimit(i) /\ pc' = "return"
        /\ UNCHANGED <<orderid, clock>>
    BY <1>4 DEF CancelOrder, CancelErrors, Live
  <2>2. /\ Lists(limitorders', clock') /\ HasLevel(limitorders', book')
        /\ LevelsOK(limitorders', book', (1 .. orderid) \ {i})
    BY <1>1, <2>1, RemoveLimitLists
  <2>3. Known' = 1 .. orderid
    BY <2>1 DEF Known, Active
  <2>4. Live' = Live \ {i}
    BY <2>1, RemoveLimitType DEF Live
  <2>5. IdsKnown'
    BY <1>1, <2>1, <2>3, <2>4 DEF ListInv, IdsKnown, Active
  <2> QED BY <2>1, <2>2, <2>3, <2>5, Settled
<1>5. ASSUME NEW i \in OrderId, NEW u \in User, NEW s \in Side, NEW p \in Price,
             NEW q \in NewQuantity, ModifyQuantity(i, u, s, p, q)
      PROVE  ListInv'
  <2>1. i \in Live
    BY <1>5 DEF ModifyQuantity, ModifyErrors, Live
  <2>2. q \in Qty /\ limitorders[i] \in Limit /\ IsLimits(limitorders)
    BY <2>1, ConstantAssumption DEF TypeOK, IsLimits, Live, Qty
  <2>3. ModifiedQty(limitorders[i], q) \in Qty
    BY <2>2, ConstantAssumption DEF ModifiedQty, Limit, Qty
  <2>4. /\ limitorders' = [limitorders EXCEPT ![i].qty = ModifiedQty(limitorders[i], q)]
        /\ pc' = "return" /\ UNCHANGED <<book, orderid, clock>>
    BY <1>5 DEF ModifyQuantity
  <2>5. Requantified(limitorders, limitorders')
    BY <2>1, <2>2, <2>3, <2>4, QtyFields DEF Live
  <2>6. /\ Lists(limitorders', clock') /\ HasLevel(limitorders', book')
        /\ LevelsOK(limitorders', book', Known)
    BY <1>1, <2>2, <2>4, <2>5, QtyLists DEF ListInv, LevelsKept
  <2>7. Known' = Known /\ Live' = Live
    BY <1>1, <2>4, <2>5 DEF Known, Active, Live, Requantified
  <2>8. IdsKnown'
    BY <2>4, <2>7 DEF ListInv, IdsKnown, Active
  <2> QED BY <2>4, <2>6, <2>7, <2>8, Settled
<1>6. ASSUME NEW i \in OrderId, NEW u \in User, NEW s \in Side, NEW p \in Price,
             NEW q \in NewQuantity, ModifyPrice(i, u, s, p, q)
      PROVE  ListInv'
  <2>1. /\ i \in Live /\ RemoveLimit(i) /\ pc' = "add" /\ order'.id = i
        /\ UNCHANGED <<orderid, clock>>
    BY <1>6 DEF ModifyPrice, ModifyErrors, Live
  <2>2. /\ Lists(limitorders', clock') /\ HasLevel(limitorders', book')
        /\ LevelsOK(limitorders', book', (1 .. orderid) \ {i})
    BY <1>1, <2>1, RemoveLimitLists
  <2>3. Known' = (1 .. orderid) \ {i}
    BY <2>1 DEF Known, Active
  <2>4. Live' = Live \ {i}
    BY <2>1, RemoveLimitType DEF Live
  <2>5. IdsKnown'
    BY <1>1, <2>1, <2>3, <2>4 DEF ListInv, IdsKnown
  <2> QED BY <2>1, <2>2, <2>3, <2>5, Settled
<1> QED BY <1>2, <1>3, <1>4, <1>5, <1>6
        DEF Request, RefuseAdd, RefuseCancel, RefuseModify

(* A step after which FIFOMatch is at h, the head of a level. *)
LEMMA AtHead ==
  ASSUME Lists(limitorders', clock'), HasLevel(limitorders', book'),
         LevelsOK(limitorders', book', Known'), IdsKnown',
         RestingSide' \in Side, book_itr' \in DOMAIN book'[RestingSide'],
         book_order' = book'[RestingSide'][book_itr'].head
  PROVE  ListInv'
<1>1. LevelOK(limitorders', book'[RestingSide'][book_itr'], RestingSide', book_itr', Known')
  BY DEF LevelsOK
<1>2. book_order' # Nil
  BY <1>1 DEF LevelOK, Known, Nil
<1>3. LevelsKept'
  BY <1>2 DEF LevelsKept
<1>4. MatcherAtHead'
  BY <1>1, <1>2 DEF MatcherAtHead, LevelOK, HeadOK, Live
<1> QED BY <1>3, <1>4 DEF ListInv

(* placeOrderInBook puts the order after the tail of its level. *)
LEMMA PlaceOrderFields ==
  ASSUME TypeOK, PlaceOrder, order.id \notin Live
  PROVE  /\ order \in Order /\ order.side \in Side /\ order.price \in Price
         /\ \E last \in Pointer :
              /\ last = IF order.price \notin DOMAIN book[order.side] THEN Nil
                        ELSE book[order.side][order.price].tail
              /\ PlacedAfter(limitorders, order.id, last, order.side, order.price,
                             clock, limitorders')
              /\ limitorders'[order.id].qty = order.qty
              /\ limitorders'[order.id].user = order.user
         /\ \A s \in Side : \A p :
              p \in DOMAIN book'[s] <=> p \in DOMAIN book[s] \/ (s = order.side /\ p = order.price)
         /\ \A s \in Side : \A p \in DOMAIN book[s] :
              s # order.side \/ p # order.price => book'[s][p] = book[s][p]
         /\ book'[order.side][order.price].tail = order.id
         /\ book'[order.side][order.price].head
              = IF order.price \notin DOMAIN book[order.side] THEN order.id
                ELSE book[order.side][order.price].head
<1> DEFINE levels == book[order.side]
           first  == order.price \notin DOMAIN levels
           last   == IF first THEN Nil ELSE levels[order.price].tail
           limit  == [user |-> order.user, side |-> order.side, price |-> order.price,
                      qty |-> order.qty, next |-> Nil, prev |-> last,
                      current_level |-> TRUE, time |-> clock]
           level  == [head |-> IF first THEN order.id ELSE levels[order.price].head,
                      tail |-> order.id]
           linked == SetNext(limitorders, last, order.id)
<1>1. order \in Order
  BY DEF PlaceOrder, At, TypeOK
<1>2. order.side \in Side /\ order.price \in Price /\ order.id \in OrderId /\ order.id \in Pointer
  BY <1>1 DEF Order, Pointer
<1>3. IsLimits(limitorders) /\ IsBook(book) /\ IsSide(levels)
  BY <1>2 DEF TypeOK, IsBook
<1>4. last \in Pointer
  BY <1>3 DEF IsSide, Level, Pointer
<1>5. limitorders' = Put(linked, order.id, limit)
  BY DEF PlaceOrder
<1>6. book' = [book EXCEPT ![order.side] = Put(@, order.price, level)]
  BY DEF PlaceOrder
<1>7. DOMAIN linked = Live
  BY <1>2, <1>3, <1>4, LinkLimits DEF Live
<1>8. ASSUME NEW k \in Live
      PROVE  /\ linked[k].next = IF k = last THEN order.id ELSE limitorders[k].next
             /\ linked[k].prev = limitorders[k].prev
             /\ SameOrder(limitorders[k], linked[k])
             /\ linked[k].qty = limitorders[k].qty
             /\ linked[k].current_level = limitorders[k].current_level
  BY <1>2, <1>3, <1>4, LinkFields DEF Live
<1>9. /\ limit.side = order.side /\ limit.price = order.price /\ limit.time = clock
      /\ limit.current_level /\ limit.next = Nil /\ limit.prev = last
      /\ limit.qty = order.qty /\ limit.user = order.user
  OBVIOUS
<1>10. level.tail = order.id /\ level.head = IF first THEN order.id ELSE levels[order.price].head
  OBVIOUS
<1>11. \A s \in Side : book'[s] = IF s = order.side THEN Put(book[s], order.price, level)
                                  ELSE book[s]
  BY <1>2, <1>3, <1>6 DEF IsBook
<1> HIDE DEF linked, limit, level, last
<1>12. /\ DOMAIN limitorders' = Live \cup {order.id} /\ limitorders'[order.id] = limit
       /\ \A k \in Live : k # order.id => limitorders'[k] = linked[k]
  BY <1>5, <1>7 DEF Put
<1>13. PlacedAfter(limitorders, order.id, last, order.side, order.price, clock, limitorders')
  BY <1>8, <1>9, <1>12 DEF PlacedAfter, Live
<1>14. /\ \A s \in Side : \A p :
            p \in DOMAIN book'[s] <=> p \in DOMAIN book[s] \/ (s = order.side /\ p = order.price)
       /\ \A s \in Side : \A p \in DOMAIN book[s] :
            s # order.side \/ p # order.price => book'[s][p] = book[s][p]
       /\ book'[order.side][order.price] = level
  <2>1. ASSUME NEW F
        PROVE  /\ \A p : p \in DOMAIN Put(F, order.price, level)
                           <=> p \in DOMAIN F \/ p = order.price
               /\ Put(F, order.price, level)[order.price] = level
               /\ \A p \in DOMAIN F : p # order.price =>
                    Put(F, order.price, level)[p] = F[p]
    BY DEF Put
  <2>2. ASSUME NEW s \in Side
        PROVE  /\ \A p : p \in DOMAIN book'[s]
                           <=> p \in DOMAIN book[s] \/ (s = order.side /\ p = order.price)
               /\ \A p \in DOMAIN book[s] :
                    s # order.side \/ p # order.price => book'[s][p] = book[s][p]
    <3>1. CASE s = order.side
      <4>1. book'[s] = Put(book[s], order.price, level)
        BY <1>11, <2>2, <3>1
      <4>2. /\ \A p : p \in DOMAIN book'[s] <=> p \in DOMAIN book[s] \/ p = order.price
            /\ \A p \in DOMAIN book[s] : p # order.price => book'[s][p] = book[s][p]
        BY <2>1, <4>1
      <4> QED BY <3>1, <4>2
    <3>2. CASE s # order.side
      BY <1>11, <3>2, Zenon
    <3> QED BY <3>1, <3>2
  <2>3. book'[order.side][order.price] = level
    BY <1>2, <1>11, <2>1, Zenon
  <2> QED BY <2>2, <2>3
<1> QED BY <1>1, <1>2, <1>4, <1>9, <1>10, <1>12, <1>13, <1>14 DEF last

LEMMA ListPlace ==
  ASSUME TypeOK, ListInv, PlaceOrder
  PROVE  ListInv'
<1> DEFINE i == order.id
           S == order.side
           P == order.price
           f == limitorders
<1>1. /\ pc = "place" /\ pc' = "return" /\ order' = order /\ orderid' = orderid
      /\ clock' = clock + 1
  BY DEF PlaceOrder, At, matching
<1>2. /\ i \in 1 .. orderid /\ Live \subseteq Known /\ i \notin Live
      /\ Known \subseteq 1 .. orderid /\ i \notin Known
  BY <1>1 DEF ListInv, IdsKnown, Known, Active
<1>3. Known' = 1 .. orderid
  BY <1>1 DEF Known, Active
<1>4. /\ IsLimits(f) /\ IsBook(book) /\ Lists(f, clock) /\ HasLevel(f, book)
      /\ clock \in Nat /\ i \in OrderId /\ S \in Side /\ P \in Price
  BY <1>2, PlaceOrderFields DEF TypeOK, ListInv, Order
<1>5. LevelsOK(f, book, Known)
  BY <1>1 DEF ListInv, LevelsKept
<1>6. PICK last \in Pointer :
        /\ last = IF P \notin DOMAIN book[S] THEN Nil ELSE book[S][P].tail
        /\ PlacedAfter(f, i, last, S, P, clock, limitorders')
  BY <1>2, PlaceOrderFields
<1>7. last # Nil => last \in InLevel(f, S, P) /\ f[last].next = Nil
  <2>1. P \in DOMAIN book[S] => TailOK(f, book[S][P], S, P)
    BY <1>4, <1>5 DEF LevelsOK, LevelOK
  <2> QED BY <1>6, <2>1 DEF TailOK
<1>8. last = Nil => InLevel(f, S, P) = {}
  <2>1. P \in DOMAIN book[S] => book[S][P].tail \in InLevel(f, S, P)
    BY <1>4, <1>5 DEF LevelsOK, LevelOK, TailOK
  <2>2. \A k \in InLevel(f, S, P) : k \in DOMAIN f /\ P \in DOMAIN book[S]
    BY <1>4 DEF HasLevel, InLevel
  <2>3. \A k \in InLevel(f, S, P) : k # Nil
    BY <1>4, <2>2, LimitFacts
  <2> QED BY <1>6, <2>1, <2>2, <2>3
<1>9. Lists(limitorders', clock')
  BY <1>1, <1>2, <1>4, <1>6, <1>7, <1>8, PlaceLists DEF Live
<1>10. /\ \A s \in Side : \A p :
            p \in DOMAIN book'[s] <=> p \in DOMAIN book[s] \/ (s = S /\ p = P)
       /\ \A s \in Side : \A p \in DOMAIN book[s] :
            s # S \/ p # P => book'[s][p] = book[s][p]
       /\ book'[S][P].tail = i
       /\ book'[S][P].head = IF P \notin DOMAIN book[S] THEN i ELSE book[S][P].head
  BY <1>2, PlaceOrderFields
<1>11. /\ DOMAIN limitorders' = DOMAIN f \cup {i}
       /\ limitorders'[i].side = S /\ limitorders'[i].price = P
       /\ limitorders'[i].current_level
       /\ limitorders'[i].next = Nil /\ limitorders'[i].prev = last
  BY <1>6 DEF PlacedAfter
<1>12. \A k \in DOMAIN f :
         /\ limitorders'[k].next = IF k = last THEN i ELSE f[k].next
         /\ limitorders'[k].prev = f[k].prev
         /\ limitorders'[k].side = f[k].side /\ limitorders'[k].price = f[k].price
         /\ limitorders'[k].current_level = f[k].current_level
  BY <1>6 DEF PlacedAfter, SameOrder
<1> HIDE DEF i, S, P
<1>13. HasLevel(limitorders', book')
  <2> SUFFICES ASSUME NEW k \in DOMAIN limitorders', limitorders'[k].current_level
               PROVE  limitorders'[k].price \in DOMAIN book'[limitorders'[k].side]
    BY DEF HasLevel
  <2>1. CASE k = i
    BY <1>4, <1>10, <1>11, <2>1
  <2>2. CASE k # i
    <3>1. /\ k \in DOMAIN f /\ f[k].current_level /\ limitorders'[k].price = f[k].price
          /\ limitorders'[k].side = f[k].side /\ f[k].side \in Side
      BY <1>4, <1>11, <1>12, <2>2, LimitFacts
    <3> QED BY <1>4, <1>10, <3>1 DEF HasLevel
  <2> QED BY <2>1, <2>2
<1>14. ASSUME NEW s \in Side, NEW p \in DOMAIN book'[s]
       PROVE  LevelOK(limitorders', book'[s][p], s, p, 1 .. orderid)
  <2>1. \A k \in InLevel(f, s, p) : k \in InLevel(limitorders', s, p)
    BY <1>11, <1>12 DEF InLevel
  <2>2. ASSUME p \in DOMAIN book[s]
        PROVE  /\ TailOK(f, book[s][p], s, p) /\ HeadOK(f, book[s][p], s, p)
               /\ book[s][p].head \in Known
    BY <1>5, <1>14, <2>2 DEF LevelsOK, LevelOK
  <2>3. CASE s = S /\ p = P
    <3>1. TailOK(limitorders', book'[s][p], s, p)
      BY <1>10, <1>11, <2>3 DEF TailOK, InLevel
    <3>2. CASE p \notin DOMAIN book[s]
      <4>1. book'[s][p].head = i /\ last = Nil
        BY <1>6, <1>10, <2>3, <3>2 DEF S, P
      <4> QED BY <1>2, <1>11, <2>3, <3>1, <4>1 DEF LevelOK, HeadOK, InLevel, i
    <3>3. CASE p \in DOMAIN book[s]
      <4>1. book'[s][p].head = book[s][p].head
        BY <1>10, <2>3, <3>3
      <4>2. HeadOK(limitorders', book[s][p], s, p)
        BY <1>2, <1>11, <1>12, <2>1, <2>2, <3>3 DEF HeadOK, i
      <4> QED BY <1>2, <2>2, <3>1, <3>3, <4>1, <4>2 DEF LevelOK, HeadOK
    <3> QED BY <3>2, <3>3
  <2>4. CASE s # S \/ p # P
    <3>1. p \in DOMAIN book[s] /\ book'[s][p] = book[s][p]
      BY <1>10, <2>4
    <3>2. book[s][p].tail # last
      <4>1. book[s][p].tail \in InLevel(f, s, p) /\ book[s][p].tail # Nil
        BY <1>4, <2>2, <3>1, LimitFacts DEF TailOK, InLevel
      <4> QED BY <1>7, <2>4, <4>1 DEF InLevel, S, P
    <3>3. TailOK(limitorders', book[s][p], s, p)
      <4>1. book[s][p].tail \in DOMAIN f
        BY <2>2, <3>1 DEF TailOK, InLevel
      <4> QED BY <1>12, <2>1, <2>2, <3>1, <3>2, <4>1 DEF TailOK
    <3>4. HeadOK(limitorders', book[s][p], s, p)
      BY <1>2, <1>11, <1>12, <2>1, <2>2, <3>1 DEF HeadOK, i
    <3> QED BY <1>2, <2>2, <3>1, <3>3, <3>4 DEF LevelOK
  <2> QED BY <2>3, <2>4
<1>15. LevelsOK(limitorders', book', 1 .. orderid)
  BY <1>14 DEF LevelsOK
<1>16. IdsKnown'
  BY <1>1, <1>2, <1>3, <1>11 DEF IdsKnown, Live, Active, i
<1> QED BY <1>1, <1>3, <1>9, <1>13, <1>15, <1>16, Settled

(* A match in which the resting order is filled and the next one is due. *)
LEMMA ListFillResting ==
  ASSUME TypeOK, MatcherAtBest, ListInv, FillResting
  PROVE  ListInv'
<1> DEFINE n == limitorders[book_order].next
<1>1. pc = "fill" /\ book_order \in Live /\ order \in Order
  BY DEF FillResting, At, Live, TypeOK
<1>2. /\ limitorders' = WithoutHead(limitorders) /\ book' = HeadRemoved
      /\ book_order' = n /\ pc' = "fill"
      /\ UNCHANGED <<book_itr, orderid, clock>>
  BY <1>1 DEF FillResting
<1>3. order'.id = order.id /\ order'.side = order.side
  BY <1>1 DEF FillResting, Order
<1>4. Known' = Known /\ RestingSide' = RestingSide
  BY <1>1, <1>2, <1>3 DEF Known, RestingSide, Active
<1>5. Lists(limitorders', clock') /\ HasLevel(limitorders', book')
  BY <1>1, <1>2, WithoutHeadLists
<1>6. LevelsKept'
  <2>1. /\ OthersOK(limitorders', book', RestingSide, book_itr, Known)
        /\ n # Nil => LevelsOK(limitorders', book', Known)
    BY <1>1, <1>2, WithoutHeadLists
  <2> QED BY <1>2, <1>4, <2>1 DEF LevelsKept
<1>7. MatcherAtHead'
  <2>1. /\ n # Nil => /\ n \in InLevel(limitorders', RestingSide, book_itr)
                      /\ limitorders'[n].prev = Nil
        /\ n = Nil => InLevel(limitorders', RestingSide, book_itr) = {}
    BY <1>1, <1>2, WithoutHeadLists
  <2>2. IsLimits(limitorders')
    BY <1>1, <1>2, WithoutHeadType
  <2>3. n \in Live' => n # Nil
    BY <2>2, LimitFacts DEF Live
  <2> QED BY <1>2, <1>4, <2>1, <2>3 DEF MatcherAtHead
<1>8. IdsKnown'
  <2>1. Live' = Live \ {book_order}
    BY <1>1, <1>2, WithoutHeadType DEF Live
  <2> QED BY <1>1, <1>2, <1>3, <1>4, <2>1 DEF ListInv, IdsKnown, Active
<1> QED BY <1>5, <1>6, <1>7, <1>8 DEF ListInv

(* The last match of an order.  A level left without orders counts none    *)
(* and is erased.                                                          *)
LEMMA ListFillIncoming ==
  ASSUME TypeOK, MatcherAtBest, ListInv, FillIncoming
  PROVE  ListInv'
<1> DEFINE both == limitorders[book_order].qty = MatchedQty
           lims == IF both THEN WithoutHead(limitorders)
                   ELSE [limitorders EXCEPT ![book_order].qty = @ - MatchedQty]
           levels == IF both THEN HeadRemoved ELSE book
           empty == LevelOrderCount(lims, RestingSide, book_itr) = 0
<1>1. pc = "fill" /\ book_order \in Live /\ order \in Order
  BY DEF FillIncoming, At, Live, TypeOK
<1>2. /\ limitorders' = IF empty THEN Orphan(lims, RestingSide, book_itr) ELSE lims
      /\ book' = IF empty THEN DropLevel(levels, RestingSide, book_itr) ELSE levels
      /\ pc' = "report" /\ UNCHANGED <<orderid, clock>>
  BY DEF FillIncoming
<1>3. order'.id = order.id
  BY <1>1 DEF FillIncoming, Order
<1>4. Known' = Known
  BY <1>1, <1>2, <1>3 DEF Known, Active
<1>5. RestingSide \in Side /\ IsLimits(limitorders) /\ IsBook(book) /\ book_order # Nil
  BY <1>1, WithoutHeadLists, LimitFacts DEF TypeOK, Live
<1>6. /\ IsLimits(lims) /\ IsBook(levels) /\ DOMAIN lims \subseteq Live
      /\ Lists(lims, clock) /\ HasLevel(lims, levels)
      /\ OthersOK(lims, levels, RestingSide, book_itr, Known)
      /\ ~empty => LevelsOK(lims, levels, Known)
  <2>1. CASE both
    <3>1. lims = WithoutHead(limitorders) /\ levels = HeadRemoved
      BY <2>1
    <3>2. IsLimits(lims) /\ IsBook(levels) /\ DOMAIN lims \subseteq Live
      BY <1>1, <3>1, WithoutHeadType
    <3>3. /\ Lists(lims, clock) /\ HasLevel(lims, levels)
          /\ OthersOK(lims, levels, RestingSide, book_itr, Known)
          /\ \/ LevelsOK(lims, levels, Known)
             \/ InLevel(lims, RestingSide, book_itr) = {}
      BY <1>1, <3>1, WithoutHeadLists
    <3> HIDE DEF lims, levels
    <3>4. InLevel(lims, RestingSide, book_itr) = {} => empty
      <4>1. ASSUME InLevel(lims, RestingSide, book_itr) = {}
            PROVE  {i \in InLevel(lims, RestingSide, book_itr) : lims[i].qty # 0} = {}
        BY <4>1
      <4>2. Cardinality({}) % CountWord = 0
        BY FS_EmptySet, ConstantAssumption
      <4> QED BY <4>1, <4>2 DEF LevelOrderCount
    <3> QED BY <3>2, <3>3, <3>4
  <2>2. CASE ~both
    <3> DEFINE q == limitorders[book_order].qty - MatchedQty
    <3>1. lims = [limitorders EXCEPT ![book_order].qty = q] /\ levels = book
      BY <2>2
    <3>2. q \in Qty
      <4>1. /\ limitorders[book_order].qty \in Qty /\ MatchedQty \in Qty
            /\ MatchedQty <= limitorders[book_order].qty
        BY <1>1, MatchedQtyType DEF Limit
      <4> QED BY <4>1, ConstantAssumption DEF Qty
    <3> HIDE DEF q, lims, levels, both
    <3>3. Requantified(limitorders, lims) /\ IsLimits(lims)
      BY <1>1, <1>5, <3>1, <3>2, QtyFields DEF Live
    <3>4. LevelsOK(limitorders, book, Known)
      BY <1>5 DEF ListInv, LevelsKept
    <3>5. Lists(lims, clock) /\ HasLevel(lims, levels) /\ LevelsOK(lims, levels, Known)
      BY <1>5, <3>1, <3>3, <3>4, QtyLists DEF ListInv
    <3>6. OthersOK(lims, levels, RestingSide, book_itr, Known)
      BY <3>5 DEF OthersOK, LevelsOK
    <3>7. DOMAIN lims = Live
      BY <3>3 DEF Requantified, Live
    <3> QED BY <1>5, <3>1, <3>3, <3>5, <3>6, <3>7
  <2> QED BY <2>1, <2>2
<1> HIDE DEF lims, levels, empty
<1>7. /\ Lists(limitorders', clock') /\ HasLevel(limitorders', book')
      /\ LevelsOK(limitorders', book', Known)
  <2>1. CASE empty
    <3>1. /\ limitorders' = Orphan(lims, RestingSide, book_itr)
          /\ book' = DropLevel(levels, RestingSide, book_itr) /\ clock' = clock
      BY <1>2, <2>1
    <3> QED BY <1>5, <1>6, <3>1, EraseLevel
  <2>2. CASE ~empty
    BY <1>2, <1>6, <2>2
  <2> QED BY <2>1, <2>2
<1>8. Live' = DOMAIN lims
  BY <1>2, <1>6, OrphanMap DEF Live
<1>9. IdsKnown'
  BY <1>1, <1>2, <1>3, <1>4, <1>6, <1>8 DEF ListInv, IdsKnown, Active
<1> QED BY <1>2, <1>4, <1>7, <1>9, Settled

(* The used up level is erased and FIFOMatch goes to the head of the next. *)
LEMMA ListNextLevel ==
  ASSUME TypeOK, MatcherAtBest, ListInv, NextLevel
  PROVE  ListInv'
<1> DEFINE worse == {p \in DOMAIN book[RestingSide] : Better(RestingSide, book_itr, p)}
           next  == Best(worse, RestingSide)
<1>1. pc = "fill" /\ book_order = Nil /\ order \in Order
  BY DEF NextLevel, At, TypeOK
<1>2. /\ limitorders' = Orphan(limitorders, RestingSide, book_itr)
      /\ book' = DropLevel(book, RestingSide, book_itr)
      /\ book_itr' = next /\ UNCHANGED <<order, orderid, clock>>
      /\ \/ MatchesAt(order, next) /\ book_order' = book[RestingSide][next].head /\ pc' = "fill"
         \/ ~MatchesAt(order, next) /\ pc' = "report"
  BY <1>1 DEF NextLevel
<1>3. RestingSide \in Side /\ IsLimits(limitorders) /\ IsBook(book)
  BY <1>1 DEF TypeOK, RestingSide, Other, Side
<1>4. Known' = Known /\ RestingSide' = RestingSide /\ pc' \in Active
  BY <1>1, <1>2 DEF Known, RestingSide, Active
<1>5. OthersOK(limitorders, book, RestingSide, book_itr, Known)
  BY <1>1 DEF ListInv, LevelsKept
<1>6. /\ Lists(limitorders', clock') /\ HasLevel(limitorders', book')
      /\ LevelsOK(limitorders', book', Known)
  BY <1>2, <1>3, <1>5, EraseLevel DEF ListInv
<1>7. IdsKnown'
  <2>1. Live' = Live
    BY <1>2, <1>3, OrphanMap DEF Live
  <2> QED BY <1>1, <1>2, <1>4, <2>1 DEF ListInv, IdsKnown, Active
<1>8. CASE MatchesAt(order, next)
  <2>1. next \in worse
    BY <1>8, BestType, Zenon DEF MatchesAt, IsBest
  <2>2. book_itr \in Price /\ next \in DOMAIN book[RestingSide] /\ next # book_itr
    <3>1. book_itr \in DOMAIN book[RestingSide] /\ IsSide(book[RestingSide])
      BY <1>1, <1>3 DEF MatcherAtBest, IsBest, IsBook
    <3>2. book_itr \in Price /\ book_itr \in Nat
      BY <3>1, ConstantAssumption DEF IsSide, Price
    <3> QED BY <2>1, <3>2 DEF Better
  <2> HIDE DEF next
  <2>3. next \in DOMAIN book'[RestingSide]
    BY <1>2, <1>3, <2>2, DropLevelPrices
  <2>4. book'[RestingSide][next] = book[RestingSide][next]
    BY <1>2, <1>3, <2>3, DropLevelFields
  <2> QED BY <1>2, <1>3, <1>4, <1>6, <1>7, <1>8, <2>3, <2>4, AtHead
<1>9. CASE ~MatchesAt(order, next)
  BY <1>2, <1>4, <1>6, <1>7, <1>9, Settled
<1> QED BY <1>8, <1>9

LEMMA ListHandler ==
  ASSUME BookInv, ListInv, Handler
  PROVE  ListInv'
<1> USE DEF BookInv
<1>1. CASE StartMatch
  <2> DEFINE best == Best(DOMAIN book[RestingSide], RestingSide)
  <2>1. /\ pc = "add" /\ pc' = "fill" /\ order \in Order /\ best # End
        /\ UNCHANGED <<limitorders, book, orderid, clock, order>>
        /\ book_itr' = best /\ book_order' = book[RestingSide][best].head
    BY <1>1 DEF StartMatch, At, TypeOK, MatchesAt
  <2>2. best \in DOMAIN book[RestingSide]
    BY <2>1, BestType, Zenon DEF IsBest
  <2>3. /\ RestingSide \in Side /\ RestingSide' = RestingSide /\ Known' = Known
        /\ Live' = Live /\ pc \in Active
    BY <2>1 DEF RestingSide, Other, Side, Known, Active, Live
  <2>4. /\ Lists(limitorders', clock') /\ HasLevel(limitorders', book')
        /\ LevelsOK(limitorders', book', Known') /\ IdsKnown'
    BY <2>1, <2>3 DEF ListInv, LevelsKept, IdsKnown
  <2> HIDE DEF best
  <2> QED BY <2>1, <2>2, <2>3, <2>4, AtHead
<1>2. CASE NothingToMatch
  <2>1. /\ UNCHANGED <<limitorders, book, clock, orderid, order>>
        /\ pc = "add" /\ pc' = "place"
    BY <1>2 DEF NothingToMatch, At, matching
  <2> QED BY <2>1, BookUntouched DEF Known, Active, ListInv, IdsKnown
<1>3. CASE ReadErasedLimit
  <2>1. UNCHANGED <<limitorders, book, clock, orderid, order, pc, book_order, book_itr>>
    BY <1>3 DEF ReadErasedLimit, matching
  <2>2. Known' = Known /\ RestingSide' = RestingSide /\ Live' = Live
    BY <2>1 DEF Known, RestingSide, Live
  <2> QED BY <2>1, <2>2 DEF ListInv, LevelsKept, MatcherAtHead, IdsKnown
<1>4. CASE FillResting
  BY <1>4, ListFillResting
<1>5. CASE FillIncoming
  BY <1>5, ListFillIncoming
<1>6. CASE NextLevel
  BY <1>6, ListNextLevel
<1>7. CASE CommunicateMatchResults
  <2>1. /\ UNCHANGED <<limitorders, book, clock, orderid, order>>
        /\ pc = "report" /\ pc' \in {"return", "place"}
    BY <1>7 DEF CommunicateMatchResults, At, matching
  <2> QED BY <2>1, BookUntouched DEF Known, Active, ListInv, IdsKnown
<1>8. CASE PlaceOrder
  BY <1>8, ListPlace
<1>9. CASE Return
  <2>1. /\ UNCHANGED <<limitorders, book, clock, orderid>>
        /\ pc = "return" /\ pc' = "idle"
    BY <1>9 DEF Return, At
  <2> QED BY <2>1, BookUntouched DEF Known, Active
<1> QED BY <1>1, <1>2, <1>3, <1>4, <1>5, <1>6, <1>7, <1>8, <1>9 DEF Handler

LEMMA ListInit == Init => ListInv
<1> SUFFICES ASSUME Init PROVE ListInv
  OBVIOUS
<1>1. DOMAIN limitorders = {} /\ \A s \in Side : DOMAIN book[s] = {}
  BY DEF Init
<1>2. pc = "idle" /\ book_order = Nil
  BY DEF Init
<1>3. Lists(limitorders, clock)
  BY <1>1 DEF Lists, Chained, Ordered, Timed
<1>4. HasLevel(limitorders, book)
  BY <1>1 DEF HasLevel
<1>5. LevelsOK(limitorders, book, Known)
  BY <1>1 DEF LevelsOK
<1> QED BY <1>1, <1>2, <1>3, <1>4, <1>5
        DEF ListInv, LevelsKept, MatcherAtHead, IdsKnown, Live, Active

(* Every step keeps the lists. *)
LEMMA ListStep ==
  ASSUME BookInv, ListInv, [Next]_vars
  PROVE  ListInv'
<1>1. CASE UNCHANGED vars
  <2>1. UNCHANGED <<limitorders, book, clock, orderid, order, pc, book_order, book_itr>>
    BY <1>1 DEF vars
  <2>2. Known' = Known /\ RestingSide' = RestingSide /\ Live' = Live
    BY <2>1 DEF Known, RestingSide, Live
  <2> QED BY <2>1, <2>2 DEF ListInv, LevelsKept, MatcherAtHead, IdsKnown
<1>2. CASE Request
  BY <1>2, ListRequest DEF BookInv
<1>3. CASE Handler
  BY <1>3, ListHandler
<1> QED BY <1>1, <1>2, <1>3 DEF Next

(* The links, the ends of the levels and the matcher's place are as ListInv *)
(* says in every state, for all constants: quantity 0, 16 bit counters      *)
(* that wrap and stale heads included.                                      *)
THEOREM ListInvariant == Spec => [](BookInv /\ ListInv)
BY BookInvInit, ListInit, BookInvStep, ListStep, PTL DEF Spec
-----------------------------------------------------------------------------
(***************************************************************************)
(* What follows.                                                           *)
(***************************************************************************)

(* The level of an order that is linked in one has its ends. *)
LEMMA LevelOfLimit ==
  ASSUME TypeOK, ListInv, NEW i \in Live, limitorders[i].current_level
  PROVE  /\ limitorders[i].price \in DOMAIN book[limitorders[i].side]
         /\ LevelOK(limitorders, book[limitorders[i].side][limitorders[i].price],
                    limitorders[i].side, limitorders[i].price, Known)
<1> DEFINE s == limitorders[i].side
           p == limitorders[i].price
<1>1. s \in Side /\ p \in DOMAIN book[s] /\ i \in InLevel(limitorders, s, p)
  BY LimitFacts DEF TypeOK, ListInv, HasLevel, Live, InLevel
<1>2. CASE pc = "fill" /\ book_order = Nil
  <2>1. s # RestingSide \/ p # book_itr
    BY <1>1, <1>2 DEF ListInv, MatcherAtHead
  <2> QED BY <1>1, <1>2, <2>1 DEF ListInv, LevelsKept, OthersOK
<1>3. CASE ~(pc = "fill" /\ book_order = Nil)
  BY <1>1, <1>3 DEF ListInv, LevelsKept, LevelsOK
<1> QED BY <1>1, <1>2, <1>3

(* The level lists are linked by arrival: every order's neighbours are the *)
(* orders that came just before and just after it, and the ends of a level *)
(* are its last order and, unless it is stale, its first.                  *)
THEOREM ListsAreByArrival == Spec => []LevelsLinkedByArrival
<1>1. BookInv /\ ListInv => LevelsLinkedByArrival
  <2> SUFFICES ASSUME BookInv, ListInv, NEW i \in Live, limitorders[i].current_level
               PROVE  LET l == limitorders[i] IN
                      /\ l.price \in DOMAIN book[l.side]
                      /\ Neighbour(i, l.prev, Earlier(i))
                      /\ Neighbour(i, l.next, Later(i))
                      /\ Later(i) = {} => book[l.side][l.price].tail = i
                      /\ book[l.side][l.price].head = i => Earlier(i) = {}
    BY DEF LevelsLinkedByArrival
  <2> DEFINE f == limitorders
             l == limitorders[i]
             n == l.next
             m == l.prev
             v == book[l.side][l.price]
  <2>1. /\ IsLimits(f) /\ i \in DOMAIN f /\ Chained(f) /\ Ordered(f) /\ Timed(f, clock)
    BY DEF BookInv, TypeOK, ListInv, Lists, Live
  <2>2. i # Nil /\ \A k \in DOMAIN f : k # Nil /\ f[k].time \in Nat
    BY <2>1, LimitFacts
  <2>3. l.price \in DOMAIN book[l.side] /\ LevelOK(f, v, l.side, l.price, Known)
    BY LevelOfLimit DEF BookInv
  <2>4. \A k : k \in InLevel(f, l.side, l.price) <=> k \in DOMAIN f /\ SameLevel(f, i, k)
    <3>1. \A k \in DOMAIN f : f[k].current_level \in BOOLEAN
      BY <2>1, LimitFacts
    <3> QED BY <2>1, <3>1 DEF InLevel, SameLevel
  <2>5. /\ \A k : k \in Earlier(i) <=>
                    k \in DOMAIN f /\ SameLevel(f, i, k) /\ f[k].time < f[i].time
        /\ \A k : k \in Later(i) <=>
                    k \in DOMAIN f /\ SameLevel(f, i, k) /\ f[k].time > f[i].time
    BY <2>4 DEF Earlier, Later
  <2>6. \A k \in DOMAIN f : SameLevel(f, i, k) =>
          /\ n = Nil => f[k].time <= f[i].time
          /\ m = Nil => f[i].time <= f[k].time
          /\ n # Nil /\ f[i].time < f[k].time => f[n].time <= f[k].time
    BY <2>1 DEF Ordered
  <2>7. n # Nil => n \in DOMAIN f /\ SameLevel(f, i, n) /\ f[i].time < f[n].time
    BY <2>1 DEF Chained
  <2>8. m # Nil => /\ m \in DOMAIN f /\ f[m].next = i /\ SameLevel(f, m, i)
                   /\ f[m].time < f[i].time
    BY <2>1, <2>2 DEF Chained
  <2>9. \A j, k \in DOMAIN f : f[j].time = f[k].time => j = k
    BY <2>1 DEF Timed
  <2> HIDE DEF n, m
  <2>10. Neighbour(i, n, Later(i))
    <3>1. CASE n = Nil
      <4>1. Later(i) = {}
        BY <2>1, <2>2, <2>5, <2>6, <3>1
      <4> QED BY <3>1, <4>1 DEF Neighbour
    <3>2. CASE n # Nil
      <4>1. n \in Later(i) /\ ~(f[n].time < f[i].time)
        BY <2>1, <2>2, <2>5, <2>7, <3>2
      <4>2. ASSUME NEW k \in Later(i) \ {n}
            PROVE  f[k].time > f[n].time
        <5>1. k \in DOMAIN f /\ SameLevel(f, i, k) /\ f[i].time < f[k].time
          BY <2>1, <2>2, <2>5, <4>2
        <5>2. f[n].time <= f[k].time /\ f[n].time # f[k].time
          BY <2>6, <2>7, <2>9, <3>2, <4>2, <5>1
        <5> QED BY <2>2, <2>7, <3>2, <5>1, <5>2
      <4> QED BY <4>1, <4>2 DEF Neighbour
    <3> QED BY <3>1, <3>2
  <2>11. Neighbour(i, m, Earlier(i))
    <3>1. CASE m = Nil
      <4>1. Earlier(i) = {}
        BY <2>1, <2>2, <2>5, <2>6, <3>1
      <4> QED BY <3>1, <4>1 DEF Neighbour
    <3>2. CASE m # Nil
      <4>1. SameLevel(f, i, m) /\ f[m].current_level
        BY <2>8, <3>2 DEF SameLevel
      <4>2. m \in Earlier(i)
        BY <2>5, <2>8, <3>2, <4>1
      <4>3. ASSUME NEW k \in Earlier(i) \ {m}
            PROVE  f[k].time < f[m].time
        <5>1. /\ k \in DOMAIN f /\ SameLevel(f, i, k) /\ f[k].time < f[i].time
              /\ f[k].time # f[m].time
          BY <2>5, <2>8, <2>9, <3>2, <4>3
        <5>2. SameLevel(f, m, k)
          BY <4>1, <5>1 DEF SameLevel
        <5>3. f[m].time < f[k].time => f[i].time <= f[k].time
          BY <2>1, <2>2, <2>8, <3>2, <4>1, <5>1, <5>2 DEF Ordered
        <5> QED BY <2>1, <2>2, <2>8, <3>2, <5>1, <5>3
      <4> QED BY <2>8, <3>2, <4>2, <4>3 DEF Neighbour
    <3> QED BY <3>1, <3>2
  <2>12. ASSUME Later(i) = {}
         PROVE  v.tail = i
    <3>1. /\ v.tail \in DOMAIN f /\ SameLevel(f, i, v.tail) /\ f[v.tail].next = Nil
      BY <2>3, <2>4 DEF LevelOK, TailOK
    <3>2. SameLevel(f, v.tail, i) /\ f[v.tail].current_level
      BY <3>1 DEF SameLevel
    <3>3. f[i].time <= f[v.tail].time
      BY <2>1, <3>1, <3>2 DEF Ordered
    <3>4. ~(f[v.tail].time > f[i].time)
      BY <2>5, <2>12, <3>1
    <3>5. f[v.tail].time = f[i].time
      BY <2>1, <2>2, <3>1, <3>3, <3>4
    <3> QED BY <2>1, <2>9, <3>1, <3>5
  <2>13. ASSUME v.head = i
         PROVE  Earlier(i) = {}
    <3>1. m = Nil
      BY <2>1, <2>3, <2>13 DEF LevelOK, HeadOK, m
    <3> QED BY <2>1, <2>2, <2>5, <2>6, <3>1
  <2> QED BY <2>3, <2>10, <2>11, <2>12, <2>13 DEF n, m
<1> QED BY <1>1, ListInvariant, PTL

(* A level of the book has orders, but for the one FIFOMatch has used up   *)
(* and erases next: no handler returns and leaves an empty level behind.   *)
THEOREM LevelsHaveOrders == Spec => []NoEmptyLevel
<1>1. BookInv /\ ListInv => NoEmptyLevel
  <2> SUFFICES ASSUME ListInv, NEW s \in Side, NEW p \in DOMAIN book[s]
               PROVE  \/ InLevel(limitorders, s, p) # {}
                      \/ pc = "fill" /\ book_order = Nil /\ s = RestingSide /\ p = book_itr
    BY DEF NoEmptyLevel
  <2>1. LevelOK(limitorders, book[s][p], s, p, Known) => InLevel(limitorders, s, p) # {}
    BY DEF LevelOK, TailOK
  <2> QED BY <2>1 DEF ListInv, LevelsKept, OthersOK, LevelsOK
<1> QED BY <1>1, ListInvariant, PTL

(* The order FIFOMatch is at comes before every other order of its side in *)
(* price-time priority.                                                    *)
LEMMA MatcherAtFirst ==
  ASSUME BookInv, ListInv, pc = "fill", book_order \in Live,
         NEW j \in Live \ {book_order}, limitorders[j].current_level,
         limitorders[j].side = RestingSide
  PROVE  Before(book_order, j)
<1> DEFINE f == limitorders
           i == book_order
<1>1. IsLimits(f) /\ order \in Order /\ IsBook(book)
  BY DEF BookInv, TypeOK
<1>2. /\ i \in InLevel(f, RestingSide, book_itr) /\ f[i].prev = Nil
      /\ f[i].current_level /\ f[i].side = RestingSide /\ f[i].price = book_itr
  BY DEF ListInv, MatcherAtHead, InLevel
<1>3. f[j].price \in DOMAIN book[RestingSide]
  BY LevelOfLimit DEF BookInv
<1>4. f[j].price = book_itr \/ Better(RestingSide, book_itr, f[j].price)
  BY <1>3 DEF BookInv, MatcherAtBest, IsBest
<1>5. f[j].price = book_itr => f[i].time < f[j].time
  <2>1. f[j].price = book_itr => SameLevel(f, i, j)
    <3>1. f[i].current_level = TRUE /\ f[j].current_level = TRUE
      BY <1>1, <1>2, LimitFacts DEF Live
    <3> QED BY <1>2, <3>1 DEF SameLevel
  <2>2. SameLevel(f, i, j) => f[i].time <= f[j].time
    BY <1>2 DEF ListInv, Lists, Ordered, Live
  <2>3. f[i].time # f[j].time
    BY DEF ListInv, Lists, Timed, Live
  <2>4. f[i].time \in Nat /\ f[j].time \in Nat
    BY <1>1, LimitFacts DEF Live
  <2> QED BY <2>1, <2>2, <2>3, <2>4
<1> QED BY <1>2, <1>4, <1>5 DEF Before

(* FIFOMatch matches in price-time priority: whenever fills are made, the  *)
(* resting order comes before all others in the levels of its side.        *)
THEOREM MatchesInPriority == Spec => PriceTimePriority
<1>1. BookInv /\ ListInv /\ [Next]_vars =>
        [ Len(fills') > Len(fills) =>
            \A j \in Live \ {book_order} :
              /\ limitorders[j].side = limitorders[book_order].side
              /\ limitorders[j].current_level
              => Before(book_order, j) ]_vars
  <2> SUFFICES ASSUME BookInv, ListInv, Next, Len(fills') > Len(fills),
                      NEW j \in Live \ {book_order},
                      limitorders[j].side = limitorders[book_order].side,
                      limitorders[j].current_level
               PROVE  Before(book_order, j)
    OBVIOUS
  <2>1. fills \in Seq(FillRecord)
    BY DEF BookInv, TypeOK
  <2>2. fills' = fills \/ fills' = << >> \/ FillResting \/ FillIncoming
    BY DEF Next, Request, Handler, AddOrder, RefuseAdd, RefuseCancel, CancelOrder,
           RefuseModify, ModifyQuantity, ModifyPrice, Refuse, StartMatch,
           NothingToMatch, ReadErasedLimit, NextLevel, CommunicateMatchResults,
           PlaceOrder, Return
  <2>3. Len(fills) \in Nat /\ Len(<< >>) = 0
    BY <2>1
  <2>4. FillResting \/ FillIncoming
    BY <2>2, <2>3
  <2>5. pc = "fill" /\ book_order \in Live
    BY <2>4 DEF FillResting, FillIncoming, At, Live
  <2>6. limitorders[book_order].side = RestingSide
    BY <2>5 DEF ListInv, MatcherAtHead, InLevel
  <2> QED BY <2>5, <2>6, MatcherAtFirst
<1> QED BY <1>1, ListInvariant, PTL DEF Spec, PriceTimePriority
-----------------------------------------------------------------------------
(***************************************************************************)
(* No new order has quantity 0, a modification up (which adds the new      *)
(* quantity and the old one again) stays below 2^32, and the orders of a   *)
(* level can be counted in 16 bits.  Without the first, the expected       *)
(* violation of LastOrderTakesLevel shows what is lost; an order whose     *)
(* quantity wraps to 0, and a count that does, are lost the same way: the  *)
(* level is erased as empty and its orders stay behind.                    *)
(***************************************************************************)
NothingWraps == /\ 0 \notin Quantity
                /\ \A q \in NewQuantity : 3 * q <= Word
                /\ MaxOrders < CountWord

(* Every order has a quantity and a level, and so has the order being      *)
(* added until it is filled.  FIFOMatch is at a level it may trade at.     *)
SolidInv == /\ NoOrphan
            /\ \A i \in Live : limitorders[i].qty # 0
            /\ pc \in {"add", "fill", "place"} => order.qty # 0
            /\ pc = "fill" => Crosses(order.side, order.price, book_itr)

(* A level without orders leaves none behind when it is erased. *)
LEMMA OrphanNone ==
  ASSUME NEW f, IsLimits(f), NEW s, NEW p, InLevel(f, s, p) = {}
  PROVE  Orphan(f, s, p) = f
BY DEF Orphan, IsLimits

(* cancelOrder leaves the other orders as they are, and takes a level with *)
(* it only if no other order is there.                                     *)
LEMMA RemoveLimitKeeps ==
  ASSUME BookInv, ListInv, NoOrphan, NEW i \in Live, RemoveLimit(i)
  PROVE  /\ DOMAIN limitorders' = Live \ {i}
         /\ \A k \in Live \ {i} :
              /\ SameOrder(limitorders[k], limitorders'[k])
              /\ limitorders'[k].qty = limitorders[k].qty
              /\ limitorders'[k].current_level
         /\ \A s \in Side : \A p \in DOMAIN book[s] :
              p \notin DOMAIN book'[s] => InLevel(limitorders, s, p) = {i}
<1> DEFINE f == limitorders
           l == limitorders[i]
           g == DropLimit(SetNext(SetPrev(limitorders, l.next, l.prev),
                                  l.prev, l.next), i)
<1>1. IsLimits(f) /\ IsBook(book) /\ i \in DOMAIN f
  BY DEF BookInv, TypeOK, Live
<1>2. /\ l.side \in Side /\ l.price \in Price /\ l.current_level = TRUE
      /\ l.next \in Pointer /\ l.prev \in Pointer
  BY <1>1, LimitFacts DEF NoOrphan
<1>3. Unlinked(f, i, g)
  BY <1>1, UnlinkFields
<1>4. IsLimits(g)
  <2>1. IsLimits(SetPrev(f, l.next, l.prev))
    BY <1>1, <1>2, LinkLimits
  <2>2. IsLimits(SetNext(SetPrev(f, l.next, l.prev), l.prev, l.next))
    BY <1>2, <2>1, LinkLimits
  <2> QED BY <2>2, DropLimitMap
<1>5. \/ /\ limitorders' = g
         /\ \/ book' = book
            \/ book' = SetHead(book, l.side, l.price, l.next)
            \/ book' = SetTail(book, l.side, l.price, l.prev)
      \/ /\ l.next = Nil /\ l.prev = Nil
         /\ limitorders' = Orphan(g, l.side, l.price)
         /\ book' = DropLevel(book, l.side, l.price)
  BY DEF RemoveLimit
<1> HIDE DEF g
<1>6. /\ DOMAIN g = Live \ {i}
      /\ \A k \in Live \ {i} : /\ SameOrder(f[k], g[k]) /\ g[k].qty = f[k].qty
                               /\ g[k].current_level
  BY <1>3 DEF Unlinked, NoOrphan, Live
<1>7. CASE l.next = Nil /\ l.prev = Nil
  <2>1. InLevel(f, l.side, l.price) = {i}
    <3>1. ASSUME NEW k \in InLevel(f, l.side, l.price)
          PROVE  k = i
      <4>1. k \in DOMAIN f /\ SameLevel(f, i, k)
        <5>1. k \in DOMAIN f /\ f[k].current_level = TRUE
          BY <1>1, <3>1, LimitFacts DEF InLevel
        <5> QED BY <1>2, <3>1, <5>1 DEF InLevel, SameLevel
      <4>2. f[k].time <= f[i].time /\ f[i].time <= f[k].time
        BY <1>1, <1>2, <1>7, <4>1 DEF ListInv, Lists, Ordered
      <4>3. f[k].time = f[i].time
        <5>1. f[k].time \in Nat /\ f[i].time \in Nat
          BY <1>1, <4>1, LimitFacts
        <5> QED BY <4>2, <5>1
      <4> QED BY <1>1, <4>1, <4>3 DEF ListInv, Lists, Timed
    <3>2. i \in InLevel(f, l.side, l.price)
      BY <1>1, <1>2 DEF InLevel
    <3> QED BY <3>1, <3>2
  <2>2. InLevel(g, l.side, l.price) = {}
    BY <1>6, <2>1 DEF InLevel, SameOrder, Live, NoOrphan
  <2>3. limitorders' = g
    BY <1>4, <1>5, <2>2, OrphanNone
  <2>4. \A s \in Side : \A p \in DOMAIN book[s] :
          p \notin DOMAIN book'[s] => s = l.side /\ p = l.price
    <3>1. \A s \in Side : \A p : p \in DOMAIN DropLevel(book, l.side, l.price)[s]
                                 <=> p \in DOMAIN book[s] /\ (s # l.side \/ p # l.price)
      BY <1>1, <1>2, DropLevelPrices
    <3>2. /\ \A s \in Side : DOMAIN SetHead(book, l.side, l.price, l.next)[s] = DOMAIN book[s]
          /\ \A s \in Side : DOMAIN SetTail(book, l.side, l.price, l.prev)[s] = DOMAIN book[s]
      BY <1>1, <1>2, LinkLevel
    <3> QED BY <1>5, <3>1, <3>2
  <2> QED BY <1>6, <2>1, <2>3, <2>4
<1>8. CASE ~(l.next = Nil /\ l.prev = Nil)
  <2>1. /\ \A s \in Side : DOMAIN SetHead(book, l.side, l.price, l.next)[s] = DOMAIN book[s]
        /\ \A s \in Side : DOMAIN SetTail(book, l.side, l.price, l.prev)[s] = DOMAIN book[s]
    BY <1>1, <1>2, LinkLevel
  <2>2. limitorders' = g /\ \A s \in Side : DOMAIN book'[s] = DOMAIN book[s]
    BY <1>5, <1>8, <2>1
  <2> QED BY <1>6, <2>2
<1> QED BY <1>7, <1>8

(* removeOrderFromBook leaves the other orders as they are. *)
LEMMA WithoutHeadKeeps ==
  ASSUME BookInv, ListInv, pc = "fill", book_order \in Live
  PROVE  /\ DOMAIN WithoutHead(limitorders) = Live \ {book_order}
         /\ \A k \in Live \ {book_order} :
              /\ SameOrder(limitorders[k], WithoutHead(limitorders)[k])
              /\ WithoutHead(limitorders)[k].qty = limitorders[k].qty
              /\ WithoutHead(limitorders)[k].current_level = limitorders[k].current_level
<1>1. IsLimits(limitorders) /\ book_order \in DOMAIN limitorders
      /\ limitorders[book_order].prev = Nil
  BY DEF BookInv, TypeOK, Live, ListInv, MatcherAtHead
<1>2. Unlinked(limitorders, book_order, WithoutHead(limitorders))
  BY <1>1, UnlinkHeadFields DEF WithoutHead
<1> QED BY <1>2 DEF Unlinked, Live

(* Orders that all have a quantity are counted one by one: a level counts  *)
(* none only if it has none.                                               *)
LEMMA CountIsHonest ==
  ASSUME NothingWraps, NEW f, IsLimits(f), \A k \in DOMAIN f : f[k].qty # 0,
         NEW s, NEW p, LevelOrderCount(f, s, p) = 0
  PROVE  InLevel(f, s, p) = {}
<1> DEFINE L == InLevel(f, s, p)
<1>1. L \subseteq 1 .. MaxOrders /\ L \subseteq DOMAIN f
  BY DEF InLevel, IsLimits, OrderId
<1>2. {i \in L : f[i].qty # 0} = L
  BY <1>1
<1>3. IsFiniteSet(1 .. MaxOrders) /\ Cardinality(1 .. MaxOrders) = MaxOrders
  BY FS_Interval, ConstantAssumption
<1> HIDE DEF L
<1>4. IsFiniteSet(L) /\ Cardinality(L) <= MaxOrders
  BY <1>1, <1>3, FS_Subset
<1>5. Cardinality(L) \in Nat
  BY <1>4, FS_CardinalityType
<1>6. Cardinality(L) % CountWord = Cardinality(L)
  BY <1>4, <1>5, ConstantAssumption DEF NothingWraps
<1>7. Cardinality(L) = 0
  BY <1>2, <1>6 DEF LevelOrderCount, L
<1> QED BY <1>4, <1>7, FS_EmptySet DEF L

(* The last match of an order changes the resting order only. *)
LEMMA FillIncomingKeeps ==
  ASSUME NothingWraps, BookInv, ListInv, SolidInv, FillIncoming
  PROVE  /\ pc = "fill" /\ book_order \in Live
         /\ limitorders' = IF limitorders[book_order].qty = MatchedQty
                           THEN WithoutHead(limitorders)
                           ELSE [limitorders EXCEPT ![book_order].qty = @ - MatchedQty]
         /\ limitorders[book_order].qty # MatchedQty =>
              /\ limitorders[book_order].qty - MatchedQty \in Qty
              /\ limitorders[book_order].qty - MatchedQty # 0
<1> DEFINE both == limitorders[book_order].qty = MatchedQty
           q == limitorders[book_order].qty - MatchedQty
           lims == IF both THEN WithoutHead(limitorders)
                   ELSE [limitorders EXCEPT ![book_order].qty = q]
           empty == LevelOrderCount(lims, RestingSide, book_itr) = 0
<1>1. pc = "fill" /\ book_order \in Live /\ IsLimits(limitorders) /\ TypeOK
  BY DEF FillIncoming, At, Live, BookInv, TypeOK
<1>2. limitorders' = IF empty THEN Orphan(lims, RestingSide, book_itr) ELSE lims
  BY DEF FillIncoming
<1>3. ~both => q \in Qty /\ q # 0
  <2>1. /\ limitorders[book_order].qty \in Qty /\ MatchedQty \in Qty
        /\ MatchedQty <= limitorders[book_order].qty
    BY <1>1, MatchedQtyType DEF Limit
  <2> QED BY <2>1, ConstantAssumption DEF Qty
<1>4. IsLimits(lims) /\ \A k \in DOMAIN lims : lims[k].qty # 0
  <2>1. CASE both
    <3>1. lims = WithoutHead(limitorders)
      BY <2>1
    <3> QED BY <1>1, <3>1, WithoutHeadType, WithoutHeadKeeps DEF SolidInv
  <2>2. CASE ~both
    <3>1. lims = [limitorders EXCEPT ![book_order].qty = q]
      BY <2>2
    <3> HIDE DEF q, both, lims
    <3>2. /\ IsLimits(lims) /\ Requantified(limitorders, lims) /\ lims[book_order].qty = q
          /\ \A k \in DOMAIN limitorders \ {book_order} : lims[k] = limitorders[k]
      BY <1>1, <1>3, <2>2, <3>1, QtyFields DEF Live
    <3> QED BY <1>3, <2>2, <3>2 DEF SolidInv, Requantified, Live
  <2> QED BY <2>1, <2>2
<1>5. empty => InLevel(lims, RestingSide, book_itr) = {}
  <2> HIDE DEF lims
  <2> QED BY <1>4, CountIsHonest
<1>6. limitorders' = lims
  <2> HIDE DEF lims, empty
  <2> QED BY <1>2, <1>4, <1>5, OrphanNone
<1> QED BY <1>1, <1>3, <1>6
-----------------------------------------------------------------------------
(***************************************************************************)
(* No order is lost.                                                       *)
(***************************************************************************)

(* A modification that is not refused names a resting order of the user on *)
(* the side it is on, with a quantity.                                     *)
LEMMA ModifyAccepted ==
  ASSUME NEW i, NEW u, NEW s, NEW p, NEW q, ModifyErrors(i, u, s, p, q) = << >>
  PROVE  /\ q # 0 /\ i \in Live
         /\ limitorders[i].side = s /\ limitorders[i].user = u
<1> DEFINE l == limitorders[i]
           e1 == ErrorIf(l.side # s, "modify_wrong_side")
           e2 == ErrorIf(l.user # u, "wrong_user_id")
           e3 == ErrorIf(l.price = p /\ l.qty = q, "modification_trivial")
<1>1. \A why : <<Reject(why)>> # << >> /\ <<Reject(why)>> \in Seq({Reject(why)})
  OBVIOUS
<1>2. q # 0 /\ i \in Live /\ e1 \o e2 \o e3 = << >>
  BY <1>1 DEF ModifyErrors, Live
<1>3. /\ e1 = << >> \/ \E x : e1 = <<x>>
      /\ e2 = << >> \/ \E x : e2 = <<x>>
      /\ e3 = << >> \/ \E x : e3 = <<x>>
  BY DEF ErrorIf
<1>4. /\ l.side # s => \E x : e1 = <<x>>
      /\ l.user # u => \E x : e2 = <<x>>
  BY DEF ErrorIf
<1> HIDE DEF e1, e2, e3
<1>5. e1 = << >> /\ e2 = << >>
  <2>1. ASSUME NEW a, NEW b, NEW c, a = << >> \/ \E x : a = <<x>>,
               b = << >> \/ \E x : b = <<x>>, c = << >> \/ \E x : c = <<x>>,
               a \o b \o c = << >>
        PROVE  a = << >> /\ b = << >>
    <3>1. PICK S : a \in Seq(S) /\ b \in Seq(S) /\ c \in Seq(S)
      <4>1. \A x, y, z : /\ <<x>> \in Seq({x, y, z}) /\ <<y>> \in Seq({x, y, z})
                         /\ <<z>> \in Seq({x, y, z}) /\ << >> \in Seq({x, y, z})
        OBVIOUS
      <4> QED BY <2>1, <4>1
    <3>2. a \o b \in Seq(S) /\ Len(a \o b) = Len(a) + Len(b)
      BY <3>1
    <3>3. Len(a \o b \o c) = Len(a) + Len(b) + Len(c)
      BY <3>1, <3>2
    <3>4. Len(a) = 0 /\ Len(b) = 0
      BY <2>1, <3>1, <3>3
    <3> QED BY <3>1, <3>4
  <2> QED BY <1>2, <1>3, <2>1
<1>6. \A x : <<x>> # << >>
  OBVIOUS
<1> QED BY <1>2, <1>4, <1>5, <1>6

(* A modification of the quantity leaves one. *)
LEMMA ModifiedQtyPositive ==
  ASSUME NothingWraps, NEW l \in Limit, NEW q \in NewQuantity, q # 0
  PROVE  ModifiedQty(l, q) \in Qty /\ ModifiedQty(l, q) # 0
<1>1. q \in Nat /\ q \in Qty /\ 3 * q <= Word /\ l.qty \in Nat /\ l.qty \in Qty
  BY ConstantAssumption DEF NothingWraps, Limit, Qty
<1>2. CASE l.qty < q
  <2>1. l.qty + (q + l.qty) \in 0 .. Word - 1 /\ l.qty + (q + l.qty) # 0
    BY <1>1, <1>2, ConstantAssumption
  <2>2. (l.qty + (q + l.qty)) % Word = l.qty + (q + l.qty)
    BY <2>1, ConstantAssumption
  <2> QED BY <1>2, <2>1, <2>2 DEF ModifiedQty, Qty
<1>3. CASE ~(l.qty < q)
  BY <1>1, <1>3 DEF ModifiedQty
<1> QED BY <1>2, <1>3

LEMMA SolidRequest ==
  ASSUME NothingWraps, BookInv, ListInv, SolidInv, Request
  PROVE  SolidInv'
<1>1. ASSUME NEW u \in User, NEW s \in Side, NEW p \in Price, NEW q \in Quantity,
             AddOrder(u, s, p, q)
      PROVE  SolidInv'
  <2>1. limitorders' = limitorders /\ pc' = "add" /\ order'.qty = q
    BY <1>1 DEF AddOrder
  <2>2. q # 0
    BY DEF NothingWraps
  <2> QED BY <2>1, <2>2 DEF SolidInv, NoOrphan, Live
<1>2. ASSUME NEW errors, Refuse(errors)
      PROVE  SolidInv'
  BY <1>2 DEF Refuse, SolidInv, NoOrphan, Live
<1>3. ASSUME NEW i \in OrderId, NEW u \in User, CancelOrder(i, u)
      PROVE  SolidInv'
  <2>1. i \in Live /\ RemoveLimit(i) /\ pc' = "return"
    BY <1>3 DEF CancelOrder, CancelErrors, Live
  <2> QED BY <2>1, RemoveLimitKeeps DEF SolidInv, NoOrphan, Live
<1>4. ASSUME NEW i \in OrderId, NEW u \in User, NEW s \in Side, NEW p \in Price,
             NEW q \in NewQuantity, ModifyQuantity(i, u, s, p, q)
      PROVE  SolidInv'
  <2> DEFINE x == ModifiedQty(limitorders[i], q)
  <2>1. /\ q # 0 /\ i \in Live /\ pc' = "return"
        /\ limitorders' = [limitorders EXCEPT ![i].qty = x]
    BY <1>4, ModifyAccepted DEF ModifyQuantity
  <2>2. IsLimits(limitorders) /\ limitorders[i] \in Limit
    BY <2>1 DEF BookInv, TypeOK, IsLimits, Live
  <2>3. x \in Qty /\ x # 0
    BY <2>1, <2>2, ModifiedQtyPositive
  <2> HIDE DEF x
  <2>4. /\ Requantified(limitorders, limitorders') /\ limitorders'[i].qty = x
        /\ \A k \in Live \ {i} : limitorders'[k] = limitorders[k]
    BY <2>1, <2>2, <2>3, QtyFields DEF Live
  <2> QED BY <2>1, <2>3, <2>4 DEF SolidInv, NoOrphan, Live, Requantified
<1>5. ASSUME NEW i \in OrderId, NEW u \in User, NEW s \in Side, NEW p \in Price,
             NEW q \in NewQuantity, ModifyPrice(i, u, s, p, q)
      PROVE  SolidInv'
  <2>1. /\ q # 0 /\ i \in Live /\ RemoveLimit(i) /\ pc' = "add" /\ order'.qty = q
    BY <1>5, ModifyAccepted DEF ModifyPrice
  <2> QED BY <2>1, RemoveLimitKeeps DEF SolidInv, NoOrphan, Live
<1> QED BY <1>1, <1>2, <1>3, <1>4, <1>5
        DEF Request, RefuseAdd, RefuseCancel, RefuseModify

LEMMA SolidHandler ==
  ASSUME NothingWraps, BookInv, ListInv, SolidInv, Handler
  PROVE  SolidInv'
<1>1. CASE StartMatch
  BY <1>1 DEF StartMatch, At, MatchesAt, SolidInv, NoOrphan, Live
<1>2. CASE NothingToMatch
  BY <1>2 DEF NothingToMatch, At, matching, SolidInv, NoOrphan, Live
<1>3. CASE ReadErasedLimit
  BY <1>3 DEF ReadErasedLimit, matching, SolidInv, NoOrphan, Live
<1>4. CASE FillResting
  <2>1. /\ pc = "fill" /\ book_order \in Live /\ order \in Order /\ pc' = "fill"
        /\ limitorders' = WithoutHead(limitorders) /\ book_itr' = book_itr
        /\ order.qty # MatchedQty /\ TypeOK
        /\ order' = [order EXCEPT !.qty = @ - MatchedQty]
    BY <1>4 DEF FillResting, At, Live, BookInv, TypeOK
  <2>2. order'.side = order.side /\ order'.price = order.price /\ order'.qty # 0
    <3>1. order.qty \in Qty /\ MatchedQty \in Qty
      BY <2>1, MatchedQtyType DEF Order
    <3>2. order.qty - MatchedQty # 0
      BY <2>1, <3>1, ConstantAssumption DEF Qty
    <3> QED BY <2>1, <3>2 DEF Order
  <2>3. /\ Live' = Live \ {book_order}
        /\ \A k \in Live' : limitorders'[k].current_level /\ limitorders'[k].qty # 0
    BY <2>1, WithoutHeadKeeps DEF Live, SolidInv, NoOrphan
  <2> QED BY <2>1, <2>2, <2>3 DEF SolidInv, NoOrphan
<1>5. CASE FillIncoming
  <2> DEFINE q == limitorders[book_order].qty - MatchedQty
  <2>1. /\ pc = "fill" /\ book_order \in Live
        /\ limitorders' = IF limitorders[book_order].qty = MatchedQty
                          THEN WithoutHead(limitorders)
                          ELSE [limitorders EXCEPT ![book_order].qty = q]
        /\ limitorders[book_order].qty # MatchedQty => q \in Qty /\ q # 0
    BY <1>5, FillIncomingKeeps
  <2>2. pc' = "report" /\ IsLimits(limitorders)
    BY <1>5 DEF FillIncoming, BookInv, TypeOK
  <2> HIDE DEF q
  <2>3. CASE limitorders[book_order].qty = MatchedQty
    <3>1. limitorders' = WithoutHead(limitorders)
      BY <2>1, <2>3
    <3>2. /\ Live' = Live \ {book_order}
          /\ \A k \in Live' : limitorders'[k].current_level /\ limitorders'[k].qty # 0
      BY <2>1, <3>1, WithoutHeadKeeps DEF Live, SolidInv, NoOrphan
    <3> QED BY <2>2, <3>2 DEF SolidInv, NoOrphan
  <2>4. CASE limitorders[book_order].qty # MatchedQty
    <3>1. limitorders' = [limitorders EXCEPT ![book_order].qty = q] /\ q \in Qty /\ q # 0
      BY <2>1, <2>4
    <3>2. /\ Requantified(limitorders, limitorders') /\ limitorders'[book_order].qty = q
          /\ \A k \in Live \ {book_order} : limitorders'[k] = limitorders[k]
      <4>1. book_order \in DOMAIN limitorders
        BY <2>1 DEF Live
      <4> QED BY <2>2, <3>1, <4>1, QtyFields DEF Live
    <3> QED BY <2>2, <3>1, <3>2 DEF SolidInv, NoOrphan, Live, Requantified
  <2> QED BY <2>3, <2>4
<1>6. CASE NextLevel
  <2>1. /\ pc = "fill" /\ book_order = Nil /\ IsLimits(limitorders)
        /\ limitorders' = Orphan(limitorders, RestingSide, book_itr)
        /\ order' = order
        /\ pc' = "fill" => MatchesAt(order, book_itr')
    BY <1>6 DEF NextLevel, At, BookInv, TypeOK
  <2>2. InLevel(limitorders, RestingSide, book_itr) = {}
    BY <2>1 DEF ListInv, MatcherAtHead
  <2>3. limitorders' = limitorders
    BY <2>1, <2>2, OrphanNone
  <2>4. pc' \in {"fill", "report"}
    BY <1>6, <2>1 DEF NextLevel
  <2> QED BY <2>1, <2>3, <2>4 DEF SolidInv, NoOrphan, Live, MatchesAt
<1>7. CASE CommunicateMatchResults
  BY <1>7 DEF CommunicateMatchResults, At, matching, SolidInv, NoOrphan, Live
<1>8. CASE PlaceOrder
  <2>1. pc = "place" /\ pc' = "return" /\ TypeOK /\ order.qty # 0 /\ order.id \notin Live
    BY <1>8 DEF PlaceOrder, At, BookInv, SolidInv, ListInv, IdsKnown, Known, Active
  <2>2. PICK last \in Pointer :
          /\ PlacedAfter(limitorders, order.id, last, order.side, order.price,
                         clock, limitorders')
          /\ limitorders'[order.id].qty = order.qty
    BY <1>8, <2>1, PlaceOrderFields
  <2> QED BY <2>1, <2>2 DEF PlacedAfter, SolidInv, NoOrphan, Live
<1>9. CASE Return
  BY <1>9 DEF Return, SolidInv, NoOrphan, Live
<1> QED BY <1>1, <1>2, <1>3, <1>4, <1>5, <1>6, <1>7, <1>8, <1>9 DEF Handler

(* SolidInv is inductive, with the lists: it holds at first *)
LEMMA SolidInit == Init => BookInv /\ ListInv /\ SolidInv
<1>1. Init => SolidInv
  BY DEF Init, SolidInv, NoOrphan, Live
<1> QED BY <1>1, BookInvInit, ListInit

(* and every step keeps it. *)
LEMMA SolidStep ==
  ASSUME NothingWraps, BookInv, ListInv, SolidInv, [Next]_vars
  PROVE  BookInv' /\ ListInv' /\ SolidInv'
<1>1. BookInv' /\ ListInv'
  BY BookInvStep, ListStep
<1>2. CASE UNCHANGED vars
  BY <1>1, <1>2 DEF vars, SolidInv, NoOrphan, Live
<1>3. CASE Request
  BY <1>1, <1>3, SolidRequest
<1>4. CASE Handler
  BY <1>1, <1>4, SolidHandler
<1> QED BY <1>2, <1>3, <1>4 DEF Next

(* With nothing that wraps, the book is crossed nowhere, its lists are in  *)
(* order, and every order in it has a quantity and a level.                *)
THEOREM SolidInvariant == NothingWraps => (Spec => [](BookInv /\ ListInv /\ SolidInv))
<1> SUFFICES ASSUME NothingWraps PROVE Spec => [](BookInv /\ ListInv /\ SolidInv)
  OBVIOUS
<1>1. BookInv /\ ListInv /\ SolidInv /\ [Next]_vars => (BookInv /\ ListInv /\ SolidInv)'
  BY SolidStep
<1> QED BY <1>1, SolidInit, PTL DEF Spec

(* No order is lost with an erased level: every order of limitorders_ is   *)
(* linked in the level of its price, as long as nothing wraps.             *)
THEOREM NoOrderLost == NothingWraps => (Spec => []NoOrphan)
<1> SUFFICES ASSUME NothingWraps PROVE Spec => []NoOrphan
  OBVIOUS
<1>1. BookInv /\ ListInv /\ SolidInv => NoOrphan
  BY DEF SolidInv
<1> QED BY <1>1, SolidInvariant, PTL

(* orderbook.cpp:173: an order that takes its level with it when it is     *)
(* cancelled was the last one there, as long as nothing wraps.             *)
THEOREM LastOrderOnly == NothingWraps => (Spec => LastOrderTakesLevel)
<1> SUFFICES ASSUME NothingWraps PROVE Spec => LastOrderTakesLevel
  OBVIOUS
<1>1. BookInv /\ ListInv /\ SolidInv /\ [Next]_vars =>
        [ pc = "idle" =>
            \A s \in Side : \A p \in DOMAIN book[s] \ DOMAIN book'[s] :
              InLevel(limitorders, s, p) \cap DOMAIN limitorders' = {} ]_vars
  <2> SUFFICES ASSUME BookInv, ListInv, SolidInv, Next, pc = "idle",
                      NEW s \in Side, NEW p \in DOMAIN book[s] \ DOMAIN book'[s]
               PROVE  InLevel(limitorders, s, p) \cap DOMAIN limitorders' = {}
    OBVIOUS
  <2>1. book' = book \/ \E i \in Live : RemoveLimit(i)
    BY DEF Next, Request, Handler, AddOrder, RefuseAdd, RefuseCancel, CancelOrder,
           RefuseModify, ModifyQuantity, ModifyPrice, Refuse, CancelErrors,
           ModifyErrors, Live, StartMatch, NothingToMatch, ReadErasedLimit,
           FillResting, FillIncoming, NextLevel, CommunicateMatchResults,
           PlaceOrder, Return, At
  <2>2. PICK i \in Live : RemoveLimit(i)
    BY <2>1
  <2>3. DOMAIN limitorders' = Live \ {i} /\ InLevel(limitorders, s, p) = {i}
    BY <2>2, RemoveLimitKeeps DEF SolidInv
  <2> QED BY <2>3
<1> QED BY <1>1, SolidInvariant, PTL DEF Spec, LastOrderTakesLevel
(***************************************************************************)
(* The refinement.  What FIFOBook sees of the book: Resting and Incoming.  *)
(***************************************************************************)
LEMMA RestingAt ==
  ASSUME NEW i \in Live
  PROVE  /\ Resting[i].user = limitorders[i].user
         /\ Resting[i].side = limitorders[i].side
         /\ Resting[i].price = limitorders[i].price
         /\ Resting[i].qty = limitorders[i].qty
         /\ Resting[i].time = limitorders[i].time
BY DEF Resting

LEMMA RestingDomain == DOMAIN Resting = Live
BY DEF Resting

(* The order k is after a step what FIFOBook saw of it before. *)
Kept(k) == /\ SameOrder(limitorders[k], limitorders'[k])
           /\ limitorders'[k].qty = limitorders[k].qty

LEMMA KeptRecord ==
  ASSUME NEW k \in Live, k \in DOMAIN limitorders', Kept(k)
  PROVE  Resting'[k] = Resting[k]
BY DEF Resting, Kept, SameOrder, Live

(* Links and levels are not seen. *)
LEMMA SameResting ==
  ASSUME DOMAIN limitorders' = Live, \A k \in Live : Kept(k)
  PROVE  Resting' = Resting
<1>1. \A k \in Live : Resting'[k] = Resting[k]
  BY KeptRecord
<1>2. DOMAIN Resting' = Live /\ DOMAIN Resting = Live
  BY DEF Resting, Live
<1>3. Resting' = [k \in DOMAIN Resting' |-> Resting'[k]]
      /\ Resting = [k \in DOMAIN Resting |-> Resting[k]]
  BY DEF Resting, Live
<1> QED BY <1>1, <1>2, <1>3

(* An order that leaves, and nothing else. *)
LEMMA OneLess ==
  ASSUME NEW i \in Live, DOMAIN limitorders' = Live \ {i},
         \A k \in Live \ {i} : Kept(k)
  PROVE  Resting' = FIFO!Without(i)
<1>1. \A k \in Live \ {i} : Resting'[k] = Resting[k]
  BY KeptRecord
<1>2. DOMAIN Resting' = Live \ {i} /\ DOMAIN Resting = Live
  BY DEF Resting, Live
<1>3. Resting' = [k \in DOMAIN Resting' |-> Resting'[k]]
  BY DEF Resting
<1>4. FIFO!Without(i) = [k \in Live \ {i} |-> Resting[k]]
  BY <1>2 DEF FIFO!Without, FIFO!Restrict
<1> QED BY <1>1, <1>2, <1>3, <1>4

(* An order that gets another quantity, and nothing else. *)
LEMMA OneRequantified ==
  ASSUME NEW i \in Live, DOMAIN limitorders' = Live, NEW q,
         \A k \in Live \ {i} : Kept(k),
         SameOrder(limitorders[i], limitorders'[i]), limitorders'[i].qty = q
  PROVE  Resting' = [Resting EXCEPT ![i].qty = q]
<1> DEFINE new == [Resting EXCEPT ![i].qty = q]
<1>1. \A k \in Live \ {i} : Resting'[k] = Resting[k]
  BY KeptRecord
<1>2. DOMAIN Resting' = Live /\ DOMAIN Resting = Live
  BY DEF Resting, Live
<1>3. Resting' = [k \in DOMAIN Resting' |-> Resting'[k]]
  BY DEF Resting
<1>4. Resting'[i] = [Resting[i] EXCEPT !.qty = q]
  <2>1. Resting'[i] = [user |-> limitorders[i].user, side |-> limitorders[i].side,
                       price |-> limitorders[i].price, qty |-> q,
                       time |-> limitorders[i].time]
    BY DEF Resting, SameOrder, Live
  <2>2. Resting[i] = [user |-> limitorders[i].user, side |-> limitorders[i].side,
                      price |-> limitorders[i].price, qty |-> limitorders[i].qty,
                      time |-> limitorders[i].time]
    BY DEF Resting
  <2> QED BY <2>1, <2>2
<1>5. new = [k \in Live |-> IF k = i THEN [Resting[i] EXCEPT !.qty = q] ELSE Resting[k]]
  BY <1>2
<1> HIDE DEF new
<1>6. new = Resting'
  BY <1>1, <1>2, <1>3, <1>4, <1>5
<1> QED BY <1>6 DEF new

LEMMA IncomingIs ==
  /\ pc \in Active =>
       Incoming = [id |-> order.id, user |-> order.user, side |-> order.side,
                   price |-> order.price, qty |-> order.qty]
  /\ pc \notin Active => Incoming = NoOrder
BY DEF Incoming, Active

LEMMA IncomingSome ==
  ASSUME pc \in Active
  PROVE  Incoming # FIFO!NoOrder
<1>1. DOMAIN Incoming = {"id", "user", "side", "price", "qty"}
  BY IncomingIs
<1>2. DOMAIN << >> = {}
  OBVIOUS
<1> QED BY <1>1, <1>2 DEF FIFO!NoOrder

LEMMA IncomingAt ==
  ASSUME pc \in Active
  PROVE  /\ Incoming.id = order.id /\ Incoming.user = order.user
         /\ Incoming.side = order.side /\ Incoming.price = order.price
         /\ Incoming.qty = order.qty
BY IncomingIs

(* An order that may be matched is one whose level crosses. *)
LEMMA MatchableAt ==
  ASSUME pc \in Active, NEW i \in Live
  PROVE  FIFO!Matchable(i) <=> /\ limitorders[i].side = RestingSide
                               /\ Crosses(order.side, order.price, limitorders[i].price)
<1>1. Resting[i].side = limitorders[i].side /\ Resting[i].price = limitorders[i].price
  BY RestingAt
<1>2. Incoming.side = order.side /\ Incoming.price = order.price
  BY IncomingAt
<1>3. FIFO!Other(order.side) = RestingSide
  BY DEF FIFO!Other, RestingSide, Other
<1>4. \A s, p, q : FIFO!Crosses(s, p, q) <=> Crosses(s, p, q)
  BY DEF FIFO!Crosses, Crosses
<1> QED BY <1>1, <1>2, <1>3, <1>4 DEF FIFO!Matchable

(* The order FIFOMatch is at is the one FIFOBook trades with next. *)
LEMMA MatcherIsFirst ==
  ASSUME BookInv, ListInv, SolidInv, pc = "fill", book_order \in Live
  PROVE  FIFO!First(book_order)
<1>1. /\ book_order \in InLevel(limitorders, RestingSide, book_itr)
      /\ Crosses(order.side, order.price, book_itr) /\ pc \in Active
  BY DEF ListInv, MatcherAtHead, SolidInv, Active
<1>2. limitorders[book_order].side = RestingSide /\ limitorders[book_order].price = book_itr
  BY <1>1 DEF InLevel
<1>3. FIFO!Matchable(book_order)
  BY <1>1, <1>2, MatchableAt
<1>4. ASSUME NEW j \in DOMAIN Resting \ {book_order},
             Resting[j].side = Resting[book_order].side
      PROVE  FIFO!Before(book_order, j)
  <2>1. j \in Live \ {book_order}
    BY <1>4, RestingDomain
  <2>2. limitorders[j].side = RestingSide /\ limitorders[j].current_level
    BY <1>2, <1>4, <2>1, RestingAt DEF SolidInv, NoOrphan
  <2>3. Before(book_order, j)
    BY <2>1, <2>2, MatcherAtFirst
  <2>4. /\ Resting[j].price = limitorders[j].price /\ Resting[j].time = limitorders[j].time
        /\ Resting[book_order].side = limitorders[book_order].side
        /\ Resting[book_order].price = limitorders[book_order].price
        /\ Resting[book_order].time = limitorders[book_order].time
    BY <2>1, RestingAt
  <2> QED BY <2>3, <2>4 DEF Before, Better, FIFO!Before, FIFO!Better
<1> QED BY <1>3, <1>4 DEF FIFO!First

(* FIFOBook takes from both orders what FIFOMatch does. *)
LEMMA SameMatch ==
  ASSUME TypeOK, pc = "fill", book_order \in Live
  PROVE  FIFO!LowerQty(Incoming.qty, Resting[book_order].qty) = MatchedQty
<1>1. order.qty \in Int /\ limitorders[book_order].qty \in Int
  BY MatchedQtyType, ConstantAssumption DEF Order, Limit, Qty
<1>2. Incoming.qty = order.qty /\ Resting[book_order].qty = limitorders[book_order].qty
  BY IncomingAt, RestingAt DEF Active
<1> QED BY <1>1, <1>2 DEF FIFO!LowerQty, LowerQty, MatchedQty
-----------------------------------------------------------------------------
(***************************************************************************)
(* Each action is a step of FIFOBook or changes nothing it sees.           *)
(***************************************************************************)
LEMMA FillRestingFills ==
  ASSUME BookInv, ListInv, SolidInv, FillResting
  PROVE  book_order \in Live /\ FIFO!Fill(book_order)
<1>1. /\ pc = "fill" /\ pc' = "fill" /\ book_order \in Live /\ TypeOK /\ clock' = clock
      /\ order.qty # MatchedQty /\ limitorders' = WithoutHead(limitorders)
      /\ order' = [order EXCEPT !.qty = @ - MatchedQty]
  BY DEF FillResting, At, Live, BookInv
<1>2. pc \in Active /\ pc' \in Active
  BY <1>1 DEF Active
<1>3. limitorders[book_order].qty = MatchedQty
  <2>1. order.qty \in Int /\ limitorders[book_order].qty \in Int
    BY <1>1, MatchedQtyType, ConstantAssumption DEF Order, Limit, Qty
  <2> QED BY <1>1, <2>1 DEF MatchedQty, LowerQty
<1>4. Resting' = FIFO!Without(book_order)
  BY <1>1, WithoutHeadKeeps, OneLess DEF Kept
<1>5. Incoming' = [Incoming EXCEPT !.qty = @ - MatchedQty]
  <2>1. Incoming' = [id |-> order'.id, user |-> order'.user, side |-> order'.side,
                     price |-> order'.price, qty |-> order'.qty]
    BY <1>2 DEF Incoming, Active
  <2>2. order \in Order
    BY <1>1, MatchedQtyType
  <2>3. /\ order'.id = order.id /\ order'.user = order.user /\ order'.side = order.side
        /\ order'.price = order.price /\ order'.qty = order.qty - MatchedQty
    BY <1>1, <2>2 DEF Order
  <2> QED BY <1>2, <2>1, <2>3, IncomingIs
<1>6. Resting[book_order].qty = MatchedQty
  BY <1>1, <1>3, RestingAt
<1>7. FIFO!First(book_order) /\ Incoming # FIFO!NoOrder
  BY <1>1, <1>2, MatcherIsFirst, IncomingSome
<1> QED BY <1>1, <1>4, <1>5, <1>6, <1>7, SameMatch DEF FIFO!Fill

LEMMA FillIncomingFills ==
  ASSUME NothingWraps, BookInv, ListInv, SolidInv, FillIncoming
  PROVE  book_order \in Live /\ FIFO!Fill(book_order)
<1> DEFINE q == limitorders[book_order].qty - MatchedQty
<1>1. /\ pc = "fill" /\ book_order \in Live
      /\ limitorders' = IF limitorders[book_order].qty = MatchedQty
                        THEN WithoutHead(limitorders)
                        ELSE [limitorders EXCEPT ![book_order].qty = q]
      /\ limitorders[book_order].qty # MatchedQty => q \in Qty
  BY FillIncomingKeeps
<1>2. /\ pc' = "report" /\ TypeOK /\ IsLimits(limitorders) /\ clock' = clock
      /\ order.qty = MatchedQty /\ order' = [order EXCEPT !.qty = 0]
  BY DEF FillIncoming, BookInv, TypeOK
<1>3. pc \in Active /\ pc' \in Active
  BY <1>1, <1>2 DEF Active
<1>4. Incoming' = [Incoming EXCEPT !.qty = @ - MatchedQty]
  <2>1. Incoming' = [id |-> order'.id, user |-> order'.user, side |-> order'.side,
                     price |-> order'.price, qty |-> order'.qty]
    BY <1>3 DEF Incoming, Active
  <2>2. order \in Order /\ MatchedQty \in Int
    BY <1>1, <1>2, MatchedQtyType, ConstantAssumption DEF Qty
  <2>3. /\ order'.id = order.id /\ order'.user = order.user /\ order'.side = order.side
        /\ order'.price = order.price /\ order'.qty = order.qty - MatchedQty
    BY <1>2, <2>2 DEF Order
  <2> QED BY <1>3, <2>1, <2>3, IncomingIs
<1>5. Resting[book_order].qty = limitorders[book_order].qty
  BY <1>1, RestingAt
<1> HIDE DEF q
<1>6. Resting' = IF Resting[book_order].qty = MatchedQty THEN FIFO!Without(book_order)
                 ELSE [Resting EXCEPT ![book_order].qty = q]
  <2>1. CASE limitorders[book_order].qty = MatchedQty
    <3>1. limitorders' = WithoutHead(limitorders)
      BY <1>1, <2>1
    <3> QED BY <1>1, <1>5, <2>1, <3>1, WithoutHeadKeeps, OneLess DEF Kept
  <2>2. CASE limitorders[book_order].qty # MatchedQty
    <3>1. limitorders' = [limitorders EXCEPT ![book_order].qty = q] /\ q \in Qty
      BY <1>1, <2>2
    <3>2. book_order \in DOMAIN limitorders
      BY <1>1 DEF Live
    <3>3. /\ Requantified(limitorders, limitorders') /\ limitorders'[book_order].qty = q
          /\ \A k \in Live \ {book_order} : limitorders'[k] = limitorders[k]
      BY <1>2, <3>1, <3>2, QtyFields DEF Live
    <3>4. /\ DOMAIN limitorders' = Live
          /\ \A k \in Live : SameOrder(limitorders[k], limitorders'[k])
      BY <3>3 DEF Requantified, Live
    <3>5. \A k \in Live \ {book_order} : Kept(k)
      BY <3>3, <3>4 DEF Kept
    <3>6. Resting' = [Resting EXCEPT ![book_order].qty = q]
      BY <1>1, <3>3, <3>4, <3>5, OneRequantified
    <3> QED BY <1>5, <2>2, <3>6
  <2> QED BY <2>1, <2>2
<1>7. FIFO!First(book_order) /\ Incoming # FIFO!NoOrder
  BY <1>1, <1>3, MatcherIsFirst, IncomingSome
<1>8. q = Resting[book_order].qty - MatchedQty
  BY <1>5 DEF q
<1> QED BY <1>1, <1>2, <1>4, <1>6, <1>7, <1>8, SameMatch DEF FIFO!Fill

(* What is left of an order rests last in time, and could not be matched. *)
LEMMA PlaceOrderRests ==
  ASSUME BookInv, ListInv, SolidInv, PlaceOrder
  PROVE  FIFO!Rest
<1>1. /\ pc = "place" /\ pc' = "return" /\ TypeOK /\ order.id \notin Live
      /\ clock' = clock + 1
  BY DEF PlaceOrder, At, BookInv, ListInv, IdsKnown, Known, Active
<1>2. pc \in Active /\ pc' \notin Active
  BY <1>1 DEF Active
<1>3. ASSUME NEW i \in DOMAIN Resting
      PROVE  ~FIFO!Matchable(i)
  <2>1. i \in Live /\ limitorders[i].current_level
    BY <1>3, RestingDomain DEF SolidInv, NoOrphan
  <2>2. limitorders[i].price \in DOMAIN book[limitorders[i].side]
    BY <2>1 DEF ListInv, HasLevel, Live
  <2>3. \A p \in DOMAIN book[RestingSide] : ~Crosses(order.side, order.price, p)
    BY <1>1 DEF BookInv, RestCannotMatch
  <2> QED BY <1>2, <2>1, <2>2, <2>3, MatchableAt
<1> DEFINE new == [user |-> order.user, side |-> order.side, price |-> order.price,
                   qty |-> order.qty, time |-> clock]
<1>4. Resting' = FIFO!Put(Resting, order.id, new)
  <2>1. PICK last \in Pointer :
          /\ PlacedAfter(limitorders, order.id, last, order.side, order.price,
                         clock, limitorders')
          /\ limitorders'[order.id].qty = order.qty
          /\ limitorders'[order.id].user = order.user
    BY <1>1, PlaceOrderFields
  <2>2. DOMAIN limitorders' = Live \cup {order.id} /\ \A k \in Live : Kept(k)
    BY <2>1 DEF PlacedAfter, Kept, Live
  <2>3. \A k \in Live : Resting'[k] = Resting[k]
    BY <2>2, KeptRecord
  <2>4. Resting'[order.id] = new
    BY <2>1, <2>2 DEF PlacedAfter, Resting, Live
  <2>5. DOMAIN Resting' = Live \cup {order.id}
    BY <2>2 DEF Resting, Live
  <2>6. Resting' = [k \in DOMAIN Resting' |-> Resting'[k]]
    BY DEF Resting
  <2> HIDE DEF new
  <2>7. FIFO!Put(Resting, order.id, new)
          = [k \in Live \cup {order.id} |-> IF k = order.id THEN new ELSE Resting[k]]
    BY RestingDomain DEF FIFO!Put
  <2> QED BY <2>3, <2>4, <2>5, <2>6, <2>7
<1>5. Incoming' = FIFO!NoOrder
  BY <1>2 DEF Incoming, Active, NoOrder, FIFO!NoOrder
<1>6. Incoming # FIFO!NoOrder
  BY <1>2, IncomingSome
<1>7. new = [user |-> Incoming.user, side |-> Incoming.side, price |-> Incoming.price,
             qty |-> Incoming.qty, time |-> clock] /\ Incoming.id = order.id
  BY <1>2, IncomingAt
<1> HIDE DEF new
<1> QED BY <1>1, <1>3, <1>4, <1>5, <1>6, <1>7 DEF FIFO!Rest

(* Resting, Incoming and now are as they were. *)
Unseen == Resting' = Resting /\ Incoming' = Incoming /\ clock' = clock

LEMMA UnseenWhen ==
  ASSUME limitorders' = limitorders, clock' = clock, order' = order,
         pc \in Active <=> pc' \in Active
  PROVE  Unseen
<1>1. Resting' = Resting
  BY DEF Resting, Live
<1>2. Incoming' = Incoming
  BY DEF Incoming, Active
<1> QED BY <1>1, <1>2 DEF Unseen

LEMMA HandlerRefines ==
  ASSUME NothingWraps, BookInv, ListInv, SolidInv, Handler
  PROVE  FIFO!FNext \/ Unseen
<1>1. CASE StartMatch
  BY <1>1, UnseenWhen DEF StartMatch, At, Active
<1>2. CASE NothingToMatch
  BY <1>2, UnseenWhen DEF NothingToMatch, At, Active, matching
<1>3. CASE ReadErasedLimit
  BY <1>3, UnseenWhen DEF ReadErasedLimit, matching
<1>4. CASE FillResting \/ FillIncoming
  BY <1>4, FillRestingFills, FillIncomingFills, RestingDomain DEF FIFO!FNext
<1>5. CASE NextLevel
  <2>1. /\ pc = "fill" /\ book_order = Nil /\ IsLimits(limitorders)
        /\ limitorders' = Orphan(limitorders, RestingSide, book_itr)
        /\ order' = order /\ clock' = clock
    BY <1>5 DEF NextLevel, At, BookInv, TypeOK
  <2>2. limitorders' = limitorders
    BY <2>1, OrphanNone DEF ListInv, MatcherAtHead
  <2>3. pc' \in {"fill", "report"}
    BY <1>5, <2>1 DEF NextLevel
  <2> QED BY <2>1, <2>2, <2>3, UnseenWhen DEF Active
<1>6. CASE CommunicateMatchResults
  <2>1. /\ pc = "report" /\ pc' = IF order.qty = 0 THEN "return" ELSE "place"
        /\ limitorders' = limitorders /\ clock' = clock /\ order' = order
    BY <1>6 DEF CommunicateMatchResults, At, matching
  <2>2. CASE order.qty = 0
    <3>1. pc \in Active /\ pc' \notin Active
      BY <2>1, <2>2 DEF Active
    <3>2. Resting' = Resting
      BY <2>1 DEF Resting, Live
    <3>3. Incoming' = FIFO!NoOrder
      BY <3>1 DEF Incoming, Active, NoOrder, FIFO!NoOrder
    <3>4. Incoming # FIFO!NoOrder /\ Incoming.qty = 0
      BY <2>2, <3>1, IncomingSome, IncomingAt
    <3> QED BY <2>1, <3>2, <3>3, <3>4 DEF FIFO!FNext, FIFO!Exhausted
  <2>3. CASE order.qty # 0
    BY <2>1, <2>3, UnseenWhen DEF Active
  <2> QED BY <2>2, <2>3
<1>7. CASE PlaceOrder
  BY <1>7, PlaceOrderRests DEF FIFO!FNext
<1>8. CASE Return
  <2>1. pc = "return" /\ pc' = "idle" /\ limitorders' = limitorders /\ clock' = clock
    BY <1>8 DEF Return, At
  <2>2. Resting' = Resting
    BY <2>1 DEF Resting, Live
  <2>3. Incoming' = Incoming
    BY <2>1 DEF Incoming, NoOrder
  <2> QED BY <2>1, <2>2, <2>3 DEF Unseen
<1> QED BY <1>1, <1>2, <1>3, <1>4, <1>5, <1>6, <1>7, <1>8 DEF Handler

(* The order a request brings is a new order of FIFOBook. *)
LEMMA IncomingNew ==
  ASSUME pc' = "add", order' \in Order
  PROVE  /\ Incoming' \in FIFO!NewOrder
         /\ Incoming'.id = order'.id /\ Incoming'.user = order'.user
         /\ Incoming'.side = order'.side /\ Incoming'.price = order'.price
<1>1. Incoming' = [id |-> order'.id, user |-> order'.user, side |-> order'.side,
                   price |-> order'.price, qty |-> order'.qty]
  BY DEF Incoming
<1>2. /\ order'.id \in OrderId /\ order'.user \in User /\ order'.side \in FIFO!Side
      /\ order'.price \in Price /\ order'.qty \in FIFO!Qty
  BY DEF Order, Side, FIFO!Side, Qty, FIFO!Qty
<1> QED BY <1>1, <1>2 DEF FIFO!NewOrder

LEMMA RequestRefines ==
  ASSUME NothingWraps, BookInv, ListInv, SolidInv, TypeOK', Request
  PROVE  FIFO!FNext \/ Unseen
<1>1. pc = "idle" /\ Incoming = FIFO!NoOrder
  <2>1. pc = "idle"
    BY DEF Request, AddOrder, RefuseAdd, RefuseCancel, CancelOrder, RefuseModify,
           ModifyQuantity, ModifyPrice, Idle
  <2> QED BY <2>1 DEF Incoming, NoOrder, FIFO!NoOrder
<1>2. ASSUME NEW u \in User, NEW s \in Side, NEW p \in Price, NEW q \in Quantity,
             AddOrder(u, s, p, q)
      PROVE  FIFO!FNext
  <2>1. /\ pc' = "add" /\ order' \in Order /\ order'.id = orderid + 1
        /\ limitorders' = limitorders /\ clock' = clock
    BY <1>2 DEF AddOrder, TypeOK
  <2>2. orderid + 1 \notin Live
    BY DEF ListInv, IdsKnown, Known, BookInv, TypeOK
  <2>3. Resting' = Resting
    BY <2>1 DEF Resting, Live
  <2>4. FIFO!Arrive
    BY <1>1, <2>1, <2>2, <2>3, IncomingNew, RestingDomain DEF FIFO!Arrive
  <2> QED BY <2>4 DEF FIFO!FNext
<1>3. ASSUME NEW errors, Refuse(errors)
      PROVE  Unseen
  BY <1>1, <1>3, UnseenWhen DEF Refuse, Active, matching
<1>4. ASSUME NEW i \in OrderId, NEW u \in User, CancelOrder(i, u)
      PROVE  FIFO!FNext
  <2>1. i \in Live /\ RemoveLimit(i) /\ pc' = "return" /\ clock' = clock
    BY <1>4 DEF CancelOrder, CancelErrors, Live
  <2>2. Resting' = FIFO!Without(i)
    BY <2>1, RemoveLimitKeeps, OneLess DEF SolidInv, Kept
  <2>3. Incoming' = FIFO!NoOrder
    BY <2>1 DEF Incoming, NoOrder, FIFO!NoOrder
  <2>4. FIFO!Withdraw(i)
    BY <1>1, <2>1, <2>2, <2>3 DEF FIFO!Withdraw
  <2> QED BY <2>1, <2>4, RestingDomain DEF FIFO!FNext
<1>5. ASSUME NEW i \in OrderId, NEW u \in User, NEW s \in Side, NEW p \in Price,
             NEW q \in NewQuantity, ModifyQuantity(i, u, s, p, q)
      PROVE  FIFO!FNext
  <2> DEFINE x == ModifiedQty(limitorders[i], q)
  <2>1. /\ q # 0 /\ i \in Live /\ pc' = "return" /\ clock' = clock
        /\ limitorders' = [limitorders EXCEPT ![i].qty = x]
    BY <1>5, ModifyAccepted DEF ModifyQuantity
  <2>2. IsLimits(limitorders) /\ limitorders[i] \in Limit
    BY <2>1 DEF BookInv, TypeOK, IsLimits, Live
  <2>3. x \in Qty
    BY <2>1, <2>2, ModifiedQtyPositive
  <2> HIDE DEF x
  <2>4. /\ Requantified(limitorders, limitorders') /\ limitorders'[i].qty = x
        /\ \A k \in Live \ {i} : limitorders'[k] = limitorders[k]
    BY <2>1, <2>2, <2>3, QtyFields DEF Live
  <2>5. /\ DOMAIN limitorders' = Live
        /\ \A k \in Live : SameOrder(limitorders[k], limitorders'[k])
    BY <2>4 DEF Requantified, Live
  <2>6. \A k \in Live \ {i} : Kept(k)
    BY <2>4, <2>5 DEF Kept
  <2>7. Resting' = [Resting EXCEPT ![i].qty = x]
    BY <2>1, <2>4, <2>5, <2>6, OneRequantified
  <2>8. Incoming' = FIFO!NoOrder
    BY <2>1 DEF Incoming, NoOrder, FIFO!NoOrder
  <2>9. FIFO!Amend(i, x) /\ x \in FIFO!Qty
    BY <1>1, <2>1, <2>3, <2>7, <2>8 DEF FIFO!Amend, FIFO!Qty, Qty
  <2> QED BY <2>1, <2>9, RestingDomain DEF FIFO!FNext
<1>6. ASSUME NEW i \in OrderId, NEW u \in User, NEW s \in Side, NEW p \in Price,
             NEW q \in NewQuantity, ModifyPrice(i, u, s, p, q)
      PROVE  FIFO!FNext
  <2>1. /\ i \in Live /\ limitorders[i].side = s /\ limitorders[i].user = u
        /\ RemoveLimit(i) /\ pc' = "add" /\ clock' = clock /\ p # limitorders[i].price
        /\ order' = [id |-> i, user |-> u, side |-> s, price |-> p, qty |-> q, init |-> q]
    BY <1>6, ModifyAccepted DEF ModifyPrice
  <2>2. order' \in Order
    BY <2>1 DEF TypeOK
  <2>3. Resting' = FIFO!Without(i)
    BY <2>1, RemoveLimitKeeps, OneLess DEF SolidInv, Kept
  <2>4. order'.id = i /\ order'.user = u /\ order'.side = s /\ order'.price = p
    BY <2>1
  <2>5. Resting[i].user = u /\ Resting[i].side = s /\ Resting[i].price # p
    BY <2>1, RestingAt
  <2>6. FIFO!Replace(i)
    BY <1>1, <2>1, <2>2, <2>3, <2>4, <2>5, IncomingNew DEF FIFO!Replace
  <2> QED BY <2>1, <2>6, RestingDomain DEF FIFO!FNext
<1> QED BY <1>2, <1>3, <1>4, <1>5, <1>6
        DEF Request, RefuseAdd, RefuseCancel, RefuseModify

(***************************************************************************)
(* The order book implements FIFOBook: matching in price-time priority,    *)
(* placing only what cannot match, keeping the place of an order whose     *)
(* quantity alone is modified, and losing no order, as long as nothing     *)
(* wraps.                                                                  *)
(***************************************************************************)
THEOREM BookIsFIFO == NothingWraps => (Spec => ImplementsFIFOBook)
<1> SUFFICES ASSUME NothingWraps PROVE Spec => ImplementsFIFOBook
  OBVIOUS
<1>1. Init => FIFO!FInit
  <2> SUFFICES ASSUME Init PROVE FIFO!FInit
    OBVIOUS
  <2>1. limitorders = << >> /\ clock = 0 /\ pc = "idle"
    BY DEF Init
  <2>2. Resting = << >>
    BY <2>1 DEF Resting, Live
  <2>3. Incoming = FIFO!NoOrder
    BY <2>1 DEF Incoming, NoOrder, FIFO!NoOrder
  <2> QED BY <2>1, <2>2, <2>3 DEF FIFO!FInit
<1>2. BookInv /\ ListInv /\ SolidInv /\ [Next]_vars /\ BookInv'
        => [FIFO!FNext]_(FIFO!fvars)
  <2> SUFFICES ASSUME BookInv, ListInv, SolidInv, [Next]_vars, BookInv'
               PROVE  [FIFO!FNext]_(FIFO!fvars)
    OBVIOUS
  <2>1. CASE UNCHANGED vars
    <3>1. Resting' = Resting /\ Incoming' = Incoming /\ clock' = clock
      BY <2>1 DEF vars, Resting, Incoming, Live
    <3> QED BY <3>1 DEF FIFO!fvars
  <2>2. CASE Request
    <3>1. TypeOK'
      BY DEF BookInv
    <3>2. FIFO!FNext \/ Unseen
      BY <2>2, <3>1, RequestRefines
    <3> QED BY <3>2 DEF Unseen, FIFO!fvars
  <2>3. CASE Handler
    <3>1. FIFO!FNext \/ Unseen
      BY <2>3, HandlerRefines
    <3> QED BY <3>1 DEF Unseen, FIFO!fvars
  <2> QED BY <2>1, <2>2, <2>3 DEF Next
<1> QED BY <1>1, <1>2, SolidInvariant, PTL DEF Spec, ImplementsFIFOBook, FIFO!FSpec
-----------------------------------------------------------------------------
=============================================================================
