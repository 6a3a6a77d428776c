------------------------- MODULE LoggerQueueProofs -------------------------
(***************************************************************************)
(* Theorems about LoggerQueue, for a ring of any size, any set of threads  *)
(* and any number of entries, as long as no more entries are outstanding   *)
(* than the ring has slots.                                                *)
(***************************************************************************)
EXTENDS LoggerQueue, TLAPS

(* A ticket's slot is an index of buffer_.                                 *)
LEMMA SlotType == ASSUME NEW n \in Nat
                  PROVE  Slot(n) \in 0..Size - 1
  BY RingAssumption DEF Slot

(* n % Size, by its quotient; the product is what SMT cannot find alone.   *)
LEMMA SlotQuotient == ASSUME NEW n \in Nat
                      PROVE \E q \in Nat : n = q * Size + Slot(n)
<1>1. n \div Size \in Nat
  BY RingAssumption
<1>2. n = (n \div Size) * Size + Slot(n)
  BY RingAssumption DEF Slot
<1> QED
  BY <1>1, <1>2

(* There is one remainder.                                                *)
LEMMA SlotUnique == ASSUME NEW q \in Nat, NEW r \in 0..Size - 1
                    PROVE  Slot(q * Size + r) = r
  BY RingAssumption DEF Slot

(* A ticket a whole ring later has the same slot.                          *)
LEMMA SlotWraps == ASSUME NEW n \in Nat
                   PROVE  Slot(n + Size) = Slot(n)
<1>1. PICK q \in Nat : n = q * Size + Slot(n)
  BY SlotQuotient
<1>2. n + Size = (q + 1) * Size + Slot(n)
  BY <1>1, SlotType, RingAssumption
<1> QED
  BY <1>2, SlotType, SlotUnique

(* Stepping tail_ by one slot follows the tickets: pop's masked increment  *)
(* (logger.hpp) stays at the slot of the number of entries popped.         *)
LEMMA SlotNext == ASSUME NEW n \in Nat
                  PROVE  Slot(Slot(n) + 1) = Slot(n + 1)
<1>1. PICK q \in Nat : n = q * Size + Slot(n)
  BY SlotQuotient
<1>2. CASE Slot(n) + 1 < Size
  <2>1. Slot(n) + 1 \in 0..Size - 1
    BY <1>2, SlotType, RingAssumption
  <2>2. Slot(n + 1) = Slot(n) + 1
    <3>1. n + 1 = q * Size + (Slot(n) + 1)
      BY <1>1, SlotType, RingAssumption
    <3> QED
      BY <2>1, <3>1, SlotUnique
  <2>3. Slot(Slot(n) + 1) = Slot(n) + 1
    <3>1. Slot(n) + 1 = 0 * Size + (Slot(n) + 1)
      BY SlotType, RingAssumption
    <3> QED
      BY <2>1, <3>1, SlotUnique
  <2> QED
    BY <2>2, <2>3
<1>3. CASE Slot(n) + 1 = Size
  <2>1. n + 1 = (q + 1) * Size + 0
    BY <1>1, <1>3, SlotType, RingAssumption
  <2>2. Slot(n + 1) = 0
    <3>1. q + 1 \in Nat /\ 0 \in 0..Size - 1
      BY RingAssumption
    <3>2. Slot((q + 1) * Size + 0) = 0
      BY <3>1, SlotUnique
    <3> QED
      BY <2>1, <3>2
  <2>3. Slot(Size) = 0
    <3>1. Size = 1 * Size + 0
      BY RingAssumption
    <3> QED
      BY <3>1, SlotUnique, RingAssumption
  <2> QED
    BY <1>3, <2>2, <2>3
<1> QED
  BY <1>2, <1>3, SlotType, RingAssumption

(* Tickets less than a ring apart have different slots.                    *)
LEMMA SlotsDiffer == ASSUME NEW a \in Nat, NEW b \in Nat,
                            a < b, b < a + Size
                     PROVE  Slot(a) # Slot(b)
<1> SUFFICES ASSUME Slot(a) = Slot(b)
             PROVE  FALSE
  OBVIOUS
<1>1. PICK q \in Nat : a = q * Size + Slot(a)
  BY SlotQuotient
<1>2. PICK k \in Nat : b = k * Size + Slot(b)
  BY SlotQuotient
<1>3. b - a = (k - q) * Size
  BY <1>1, <1>2, SlotType, RingAssumption
<1>4. k - q \in Int /\ b - a > 0 /\ b - a < Size
  BY RingAssumption
<1>5. CASE k - q <= 0
  <2>1. (k - q) * Size <= 0
    BY <1>5, RingAssumption
  <2> QED
    BY <1>3, <1>4, <2>1, RingAssumption
<1>6. CASE k - q >= 1
  <2>1. (k - q) * Size >= Size
    BY <1>6, RingAssumption
  <2> QED
    BY <1>3, <1>4, <2>1, RingAssumption
<1> QED
  BY <1>4, <1>5, <1>6

(* Tickets of one window of Size tickets have slots of their own.          *)
LEMMA WindowHasItsSlots ==
  ASSUME NEW w \in Nat, NEW a \in w..w + Size - 1, NEW b \in w..w + Size - 1, a # b
  PROVE  Slot(a) # Slot(b)
<1>1. a \in Nat /\ b \in Nat
  BY RingAssumption
<1>2. (a < b /\ b < a + Size) \/ (b < a /\ a < b + Size)
  BY RingAssumption
<1> QED
  BY <1>1, <1>2, SlotsDiffer
-----------------------------------------------------------------------------
(***************************************************************************)
(* The inductive invariant.  Tickets are put in from popped to head.       *)
(***************************************************************************)
Holds(p) == producer[p].pc # "idle"

Entry(n) == buffer[Slot(n)]

RoomInRing == /\ tail = Slot(popped)
              /\ popped <= head /\ head <= popped + Size

TicketsHeld ==
  \A p \in Producer : Holds(p) =>
    /\ popped <= producer[p].ticket /\ producer[p].ticket < head
    /\ \A q \in Producer : Holds(q) /\ q # p => producer[q].ticket # producer[p].ticket

UnmarkedWhileHeld ==
  \A p \in Producer : Holds(p) => ~Entry(producer[p].ticket).is_constructed

UnmarkedWhileFree == \A n \in head..popped + Size - 1 : ~Entry(n).is_constructed

(* A published entry is the one of the ticket, until it is destroyed.      *)
EntryIsTicket ==
  /\ \A n \in popped..head - 1 :
       Entry(n).is_constructed /\ (n = popped => logger # "unmark") => Entry(n).log_entry = n
  /\ \A p \in Producer : producer[p].pc = "publish" =>
       Entry(producer[p].ticket).log_entry = producer[p].ticket

Popping == {"format", "destroy", "unmark", "advance"}

FrontIsPopped ==
  logger \in Popping => /\ popped < head
                        /\ \A p \in Producer : Holds(p) => producer[p].ticket # popped
                        /\ Entry(popped).is_constructed <=> logger # "advance"

WrittenSoFar ==
  Len(written) = IF logger \in {"destroy", "unmark", "advance"} THEN popped + 1 ELSE popped

RingInv == /\ TypeOK
           /\ RoomInRing
           /\ TicketsHeld
           /\ UnmarkedWhileHeld
           /\ UnmarkedWhileFree
           /\ EntryIsTicket
           /\ FrontIsPopped
           /\ WrittenSoFar
           /\ FirstInFirstOut
-----------------------------------------------------------------------------
(* The empty ring.                                                         *)
LEMMA RingInit == Init => RingInv
<1> SUFFICES ASSUME Init
             PROVE  RingInv
  OBVIOUS
<1>1. TypeOK
  BY RingAssumption DEF Init, TypeOK
<1>2. Slot(0) = 0
  BY RingAssumption DEF Slot
<1>3. RoomInRing
  BY <1>2, RingAssumption DEF Init, RoomInRing
<1>4. UnmarkedWhileFree
  <2>1. \A n \in Nat : ~Entry(n).is_constructed
    BY SlotType DEF Init, Entry
  <2> QED
    BY <2>1, RingAssumption DEF Init, UnmarkedWhileFree
<1>5. TicketsHeld /\ UnmarkedWhileHeld /\ EntryIsTicket
  BY DEF Init, Holds, TicketsHeld, UnmarkedWhileHeld, EntryIsTicket
<1>6. FrontIsPopped /\ WrittenSoFar /\ FirstInFirstOut
  BY DEF Init, FrontIsPopped, Popping, WrittenSoFar, FirstInFirstOut
<1> QED
  BY <1>1, <1>3, <1>4, <1>5, <1>6 DEF RingInv

(* head_.fetch_add: the ticket is new and its slot is free, because fewer  *)
(* than Size entries are outstanding.  The only step that needs the bound. *)
LEMMA StepTakeTicket ==
  ASSUME MaxOutstanding <= Size, RingInv, NEW p \in Producer, TakeTicket(p)
  PROVE  RingInv'
<1> USE RingAssumption DEF RingInv
<1>1. TypeOK'
  BY DEF TypeOK, TakeTicket, NextTicket
<1>2. RoomInRing'
  BY DEF TypeOK, RoomInRing, TakeTicket, NextTicket
<1>3. TicketsHeld'
  BY DEF TypeOK, RoomInRing, TicketsHeld, TakeTicket, NextTicket, Holds
<1>4. UnmarkedWhileHeld'
  <2>1. head \in head..popped + Size - 1
    BY DEF TypeOK, RoomInRing, TakeTicket
  <2>2. ~Entry(head).is_constructed
    BY <2>1 DEF UnmarkedWhileFree
  <2> QED
    BY <2>2 DEF TypeOK, UnmarkedWhileHeld, TakeTicket, Holds, Entry
<1>5. UnmarkedWhileFree'
  BY DEF TypeOK, RoomInRing, UnmarkedWhileFree, TakeTicket, NextTicket, Entry
<1>6. EntryIsTicket'
  <2>1. \A n \in popped..head' - 1 : n \in popped..head - 1 \/ n = head
    BY DEF TypeOK, TakeTicket, NextTicket
  <2>2. ~Entry(head).is_constructed
    <3>1. head \in head..popped + Size - 1
      BY DEF TypeOK, RoomInRing, TakeTicket
    <3> QED
      BY <3>1 DEF UnmarkedWhileFree
  <2> QED
    BY <2>1, <2>2 DEF TypeOK, EntryIsTicket, TakeTicket, Entry
<1>7. FrontIsPopped'
  BY DEF TypeOK, RoomInRing, FrontIsPopped, TakeTicket, NextTicket, Holds, Entry, Popping
<1>8. WrittenSoFar' /\ FirstInFirstOut'
  BY DEF WrittenSoFar, FirstInFirstOut, TakeTicket
<1> QED
  BY <1>1, <1>2, <1>3, <1>4, <1>5, <1>6, <1>7, <1>8

(* Leaving the wait moves nothing the invariant is about.                  *)
LEMMA StepAdmit ==
  ASSUME RingInv, NEW p \in Producer, Admit(p)
  PROVE  RingInv'
<1> USE DEF RingInv, Admit, Goto
<1>1. TypeOK'
  BY DEF TypeOK
<1>2. \A q \in Producer : /\ producer'[q].ticket = producer[q].ticket
                          /\ producer'[q].pc # "idle" <=> producer[q].pc # "idle"
                          /\ producer'[q].pc = "publish" <=> producer[q].pc = "publish"
  BY DEF TypeOK
<1>3. RoomInRing' /\ UnmarkedWhileFree' /\ WrittenSoFar' /\ FirstInFirstOut'
  BY DEF RoomInRing, UnmarkedWhileFree, WrittenSoFar, FirstInFirstOut, Entry
<1>4. TicketsHeld' /\ UnmarkedWhileHeld' /\ FrontIsPopped'
  BY <1>2 DEF TicketsHeld, UnmarkedWhileHeld, FrontIsPopped, Holds, Entry
<1>5. EntryIsTicket'
  BY <1>2 DEF EntryIsTicket, Entry
<1> QED
  BY <1>1, <1>3, <1>4, <1>5

(* Constructing in the slot of one's ticket touches no other ticket's.     *)
LEMMA StepConstruct ==
  ASSUME RingInv, NEW p \in Producer, Construct(p)
  PROVE  RingInv'
<1> USE RingAssumption DEF RingInv
<1>1. PICK n \in Nat : n = producer[p].ticket /\ n \in popped..head - 1 /\ Holds(p)
  BY DEF TypeOK, TicketsHeld, Holds, Construct, Goto
<1>2. Slot(n) \in 0..Size - 1
  BY SlotType
<1>3. TypeOK'
  BY <1>1, <1>2 DEF TypeOK, Construct, Goto
<1>4. \A i \in Nat : /\ Entry(i)'.is_constructed = Entry(i).is_constructed
                     /\ Slot(i) # Slot(n) => Entry(i)' = Entry(i)
  BY <1>1, <1>2, SlotType DEF TypeOK, Entry, Construct
<1>5. Entry(n)'.log_entry = n
  BY <1>1, <1>2 DEF TypeOK, Entry, Construct
<1>6. \A q \in Producer : /\ producer'[q].ticket = producer[q].ticket
                          /\ producer'[q].pc # "idle" <=> producer[q].pc # "idle"
                          /\ q # p => producer'[q] = producer[q]
  BY DEF TypeOK, Construct, Goto
<1>7. UNCHANGED <<head, tail, logger, written, popped, active>>
  BY DEF Construct
<1>8. RoomInRing' /\ WrittenSoFar' /\ FirstInFirstOut'
  BY <1>7 DEF RoomInRing, WrittenSoFar, FirstInFirstOut
<1>9. TicketsHeld'
  BY <1>6, <1>7 DEF TicketsHeld, Holds
<1>10. UnmarkedWhileHeld'
  BY <1>3, <1>4, <1>6 DEF TypeOK, UnmarkedWhileHeld, Holds, Entry
<1>11. UnmarkedWhileFree'
  BY <1>4, <1>7 DEF TypeOK, UnmarkedWhileFree, Entry
<1>12. FrontIsPopped'
  BY <1>4, <1>6, <1>7 DEF TypeOK, FrontIsPopped, Holds, Entry
<1>13. EntryIsTicket'
  <2>1. ASSUME NEW i \in popped..head - 1, i # n
        PROVE  Entry(i)' = Entry(i)
    <3>1. popped \in Nat /\ i \in popped..popped + Size - 1 /\ n \in popped..popped + Size - 1
      BY <1>1 DEF TypeOK, RoomInRing
    <3>2. Slot(i) # Slot(n)
      BY <2>1, <3>1, WindowHasItsSlots
    <3> QED
      BY <1>4, <3>1, <3>2
  <2>2. ASSUME NEW i \in popped..head - 1,
               Entry(i)'.is_constructed, i = popped => logger # "unmark"
        PROVE  Entry(i)'.log_entry = i
    BY <1>5, <2>1, <2>2 DEF EntryIsTicket
  <2>3. ASSUME NEW q \in Producer, producer'[q].pc = "publish"
        PROVE  buffer'[Slot(producer'[q].ticket)].log_entry = producer'[q].ticket
    <3>1. CASE q = p
      BY <1>1, <1>5, <1>6, <3>1 DEF Entry
    <3>2. CASE q # p
      <4>1. PICK i \in Nat : i = producer[q].ticket /\ i \in popped..head - 1 /\ i # n
        BY <1>1, <1>6, <2>3, <3>2 DEF TypeOK, TicketsHeld, Holds
      <4> QED
        BY <1>6, <2>1, <2>3, <3>2, <4>1 DEF EntryIsTicket, Entry
    <3> QED
      BY <3>1, <3>2
  <2> QED
    BY <1>7, <2>2, <2>3 DEF EntryIsTicket, Entry
<1> QED
  BY <1>3, <1>8, <1>9, <1>10, <1>11, <1>12, <1>13

(* Marking the slot constructed gives the ticket up.                       *)
LEMMA StepPublish ==
  ASSUME RingInv, NEW p \in Producer, Publish(p)
  PROVE  RingInv'
<1> USE RingAssumption DEF RingInv
<1>1. PICK n \in Nat : n = producer[p].ticket /\ n \in popped..head - 1 /\ Holds(p)
  BY DEF TypeOK, TicketsHeld, Holds, Publish, Goto
<1>2. Slot(n) \in 0..Size - 1
  BY SlotType
<1>3. TypeOK'
  BY <1>1, <1>2 DEF TypeOK, Publish, Goto
<1>4. \A i \in Nat : /\ Entry(i)'.log_entry = Entry(i).log_entry
                     /\ Slot(i) # Slot(n) => Entry(i)' = Entry(i)
  BY <1>1, <1>2, SlotType DEF TypeOK, Entry, Publish
<1>5. ASSUME NEW i \in popped..popped + Size - 1, i # n
      PROVE  Entry(i)' = Entry(i)
  <2>1. popped \in Nat /\ i \in Nat /\ n \in popped..popped + Size - 1
    BY <1>1 DEF TypeOK, RoomInRing
  <2>2. Slot(i) # Slot(n)
    BY <1>5, <2>1, WindowHasItsSlots
  <2> QED
    BY <1>4, <2>1, <2>2
<1>6. \A q \in Producer : producer'[q].pc # "idle" => q # p /\ producer'[q] = producer[q]
  BY DEF TypeOK, Publish, Goto
<1>7. UNCHANGED <<head, tail, logger, written, popped, active>>
  BY DEF Publish
<1>8. RoomInRing' /\ WrittenSoFar' /\ FirstInFirstOut'
  BY <1>7 DEF RoomInRing, WrittenSoFar, FirstInFirstOut
<1>9. TicketsHeld'
  BY <1>6, <1>7 DEF TicketsHeld, Holds
<1>10. UnmarkedWhileHeld'
  <2> SUFFICES ASSUME NEW q \in Producer, producer'[q].pc # "idle"
               PROVE  ~buffer'[Slot(producer'[q].ticket)].is_constructed
    BY DEF UnmarkedWhileHeld, Holds, Entry
  <2>1. PICK i \in Nat : i = producer[q].ticket /\ i \in popped..popped + Size - 1 /\ i # n
    BY <1>1, <1>6 DEF TypeOK, RoomInRing, TicketsHeld, Holds
  <2> QED
    BY <1>5, <1>6, <2>1 DEF UnmarkedWhileHeld, Holds, Entry
<1>11. UnmarkedWhileFree'
  <2> SUFFICES ASSUME NEW i \in head..popped + Size - 1
               PROVE  ~Entry(i)'.is_constructed
    BY <1>7 DEF UnmarkedWhileFree
  <2>1. i # n /\ i \in popped..popped + Size - 1
    BY <1>1 DEF TypeOK, RoomInRing
  <2> QED
    BY <1>5, <2>1 DEF UnmarkedWhileFree
<1>12. FrontIsPopped'
  <2>1. logger \in Popping => popped # n /\ popped \in popped..popped + Size - 1
    BY <1>1 DEF TypeOK, FrontIsPopped
  <2> QED
    BY <1>5, <1>6, <1>7, <2>1 DEF FrontIsPopped, Holds, Entry
<1>13. EntryIsTicket'
  <2>1. Entry(n).log_entry = n
    BY <1>1 DEF EntryIsTicket, Publish, Goto
  <2>2. ASSUME NEW i \in popped..head - 1,
               Entry(i)'.is_constructed, i = popped => logger # "unmark"
        PROVE  Entry(i)'.log_entry = i
    <3>1. i \in Nat /\ i \in popped..popped + Size - 1
      BY DEF TypeOK, RoomInRing
    <3> QED
      BY <1>4, <1>5, <2>1, <2>2, <3>1 DEF EntryIsTicket
  <2>3. ASSUME NEW q \in Producer, producer'[q].pc = "publish"
        PROVE  buffer'[Slot(producer'[q].ticket)].log_entry = producer'[q].ticket
    <3>1. PICK i \in Nat : i = producer[q].ticket
      BY DEF TypeOK
    <3> QED
      BY <1>4, <1>6, <2>3, <3>1 DEF EntryIsTicket, Entry
  <2> QED
    BY <1>7, <2>2, <2>3 DEF EntryIsTicket, Entry
<1> QED
  BY <1>3, <1>8, <1>9, <1>10, <1>11, <1>12, <1>13

(* Front goes on only when the entry of the next ticket is published; then *)
(* no producer holds that ticket.                                          *)
LEMMA StepControl ==
  ASSUME RingInv, Stop \/ Front \/ Exit
  PROVE  RingInv'
<1> USE RingAssumption DEF RingInv
<1>1. /\ UNCHANGED <<head, tail, buffer, producer, written, popped>>
      /\ logger' \in {logger, "stopped", "format"}
      /\ logger = "loop" \/ logger' = logger
  BY DEF Stop, Front, Exit
<1>2. TypeOK'
  BY <1>1 DEF TypeOK, Stop, Front, Exit
<1>3. RoomInRing' /\ TicketsHeld' /\ UnmarkedWhileHeld' /\ UnmarkedWhileFree'
  BY <1>1 DEF RoomInRing, TicketsHeld, UnmarkedWhileHeld, UnmarkedWhileFree, Holds, Entry
<1>4. EntryIsTicket' /\ FirstInFirstOut'
  BY <1>1 DEF EntryIsTicket, FirstInFirstOut, Entry
<1>5. WrittenSoFar'
  BY <1>1 DEF WrittenSoFar
<1>6. FrontIsPopped'
  <2>1. CASE Front
    <3>1. Entry(popped).is_constructed /\ logger' = "format"
      BY <2>1 DEF Front, RoomInRing, Entry
    <3>2. popped < head
      <4>1. CASE popped = head
        <5>1. popped \in head..popped + Size - 1
          BY <4>1 DEF TypeOK
        <5> QED
          BY <3>1, <5>1 DEF UnmarkedWhileFree
      <4> QED
        BY <4>1 DEF TypeOK, RoomInRing
    <3>3. \A p \in Producer : Holds(p) => producer[p].ticket # popped
      BY <3>1 DEF UnmarkedWhileHeld
    <3> QED
      BY <1>1, <3>1, <3>2, <3>3 DEF FrontIsPopped, Holds, Entry
  <2>2. CASE Stop \/ Exit
    BY <2>2 DEF Stop, Exit, FrontIsPopped, Popping, Holds, Entry
  <2> QED
    BY <2>1, <2>2
<1> QED
  BY <1>2, <1>3, <1>4, <1>5, <1>6

(* Appending the next number keeps a sequence that counts from 1.          *)
LEMMA AppendNext ==
  ASSUME NEW s \in Seq(Nat), \A i \in 1..Len(s) : s[i] = i,
         NEW v, v = Len(s) + 1
  PROVE  /\ Append(s, v) \in Seq(Nat)
         /\ Len(Append(s, v)) = Len(s) + 1
         /\ \A i \in 1..Len(Append(s, v)) : Append(s, v)[i] = i
  OBVIOUS

(* What is written is the entry of the next ticket.                        *)
LEMMA StepFormat ==
  ASSUME RingInv, Format
  PROVE  RingInv'
<1> USE RingAssumption DEF RingInv
<1>1. /\ UNCHANGED <<head, tail, buffer, producer, popped, active>>
      /\ logger = "format" /\ logger' = "destroy"
      /\ written' = Append(written, buffer[tail].log_entry + 1)
  BY DEF Format
<1>2. buffer[tail].log_entry = popped
  <2>1. popped \in popped..head - 1 /\ Entry(popped).is_constructed
    BY <1>1 DEF TypeOK, FrontIsPopped, Popping
  <2> QED
    BY <1>1, <2>1 DEF EntryIsTicket, RoomInRing, Entry
<1>3. buffer[tail].log_entry + 1 = Len(written) + 1
  BY <1>1, <1>2 DEF WrittenSoFar
<1>4. /\ written' \in Seq(Nat)
      /\ Len(written') = Len(written) + 1
      /\ \A i \in 1..Len(written') : written'[i] = i
  BY <1>1, <1>3, AppendNext DEF TypeOK, FirstInFirstOut
<1>5. TypeOK' /\ FirstInFirstOut'
  BY <1>1, <1>4 DEF TypeOK, FirstInFirstOut
<1>6. WrittenSoFar'
  BY <1>1, <1>4 DEF WrittenSoFar
<1>7. RoomInRing' /\ TicketsHeld' /\ UnmarkedWhileHeld' /\ UnmarkedWhileFree'
  BY <1>1 DEF RoomInRing, TicketsHeld, UnmarkedWhileHeld, UnmarkedWhileFree, Holds, Entry
<1>8. EntryIsTicket' /\ FrontIsPopped'
  BY <1>1 DEF EntryIsTicket, FrontIsPopped, Popping, Holds, Entry
<1> QED
  BY <1>5, <1>6, <1>7, <1>8

(* The entry is destroyed while its slot is still marked.                  *)
LEMMA StepDestroy ==
  ASSUME RingInv, Destroy
  PROVE  RingInv'
<1> USE RingAssumption DEF RingInv
<1>1. /\ UNCHANGED <<head, tail, producer, written, popped, active>>
      /\ logger = "destroy" /\ logger' = "unmark"
      /\ buffer' = [buffer EXCEPT ![tail].log_entry = None]
  BY DEF Destroy
<1>2. TypeOK'
  BY <1>1 DEF TypeOK
<1>3. \A i \in Nat : /\ Entry(i)'.is_constructed = Entry(i).is_constructed
                     /\ Slot(i) # tail => Entry(i)' = Entry(i)
  BY <1>1, SlotType DEF TypeOK, Entry
<1>4. ASSUME NEW i \in popped..head - 1, i # popped
      PROVE  Entry(i)' = Entry(i)
  <2>1. popped \in Nat /\ i \in Nat /\ i \in popped..popped + Size - 1
                       /\ popped \in popped..popped + Size - 1
    BY DEF TypeOK, RoomInRing
  <2>2. Slot(i) # Slot(popped)
    BY <1>4, <2>1, WindowHasItsSlots
  <2> QED
    BY <1>3, <2>1, <2>2 DEF RoomInRing
<1>5. RoomInRing' /\ TicketsHeld' /\ WrittenSoFar' /\ FirstInFirstOut'
  BY <1>1 DEF RoomInRing, TicketsHeld, WrittenSoFar, FirstInFirstOut, Holds
<1>6. UnmarkedWhileHeld'
  BY <1>1, <1>3 DEF TypeOK, UnmarkedWhileHeld, Holds, Entry
<1>7. UnmarkedWhileFree'
  BY <1>1, <1>3 DEF TypeOK, UnmarkedWhileFree, Entry
<1>8. FrontIsPopped'
  BY <1>1, <1>3 DEF TypeOK, FrontIsPopped, Popping, Holds, Entry
<1>9. EntryIsTicket'
  <2>1. ASSUME NEW i \in popped..head - 1, i # popped, Entry(i)'.is_constructed
        PROVE  Entry(i)'.log_entry = i
    BY <1>4, <2>1 DEF EntryIsTicket
  <2>2. ASSUME NEW q \in Producer, producer[q].pc = "publish"
        PROVE  buffer'[Slot(producer[q].ticket)].log_entry = producer[q].ticket
    <3>1. PICK i \in Nat : i = producer[q].ticket /\ i \in popped..head - 1 /\ i # popped
      BY <1>1, <2>2 DEF TypeOK, TicketsHeld, FrontIsPopped, Popping, Holds
    <3> QED
      BY <1>4, <2>2, <3>1 DEF EntryIsTicket, Entry
  <2> QED
    BY <1>1, <2>1, <2>2 DEF EntryIsTicket, Entry
<1> QED
  BY <1>2, <1>5, <1>6, <1>7, <1>8, <1>9

(* The slot is unmarked before tail_ moves past it.                        *)
LEMMA StepUnmark ==
  ASSUME RingInv, Unmark
  PROVE  RingInv'
<1> USE RingAssumption DEF RingInv
<1>1. /\ UNCHANGED <<head, tail, producer, written, popped, active>>
      /\ logger = "unmark" /\ logger' = "advance"
      /\ buffer' = [buffer EXCEPT ![tail].is_constructed = FALSE]
  BY DEF Unmark
<1>2. TypeOK'
  BY <1>1 DEF TypeOK
<1>3. \A i \in Nat : /\ Entry(i)'.is_constructed => Slot(i) # tail
                     /\ Entry(i)'.is_constructed => Entry(i).is_constructed
                     /\ Entry(i)'.log_entry = Entry(i).log_entry
  BY <1>1, SlotType DEF TypeOK, Entry
<1>4. RoomInRing' /\ TicketsHeld' /\ WrittenSoFar' /\ FirstInFirstOut'
  BY <1>1 DEF RoomInRing, TicketsHeld, WrittenSoFar, FirstInFirstOut, Holds
<1>5. UnmarkedWhileHeld'
  BY <1>1, <1>3 DEF TypeOK, UnmarkedWhileHeld, Holds, Entry
<1>6. UnmarkedWhileFree'
  BY <1>1, <1>3 DEF TypeOK, UnmarkedWhileFree, Entry
<1>7. FrontIsPopped'
  BY <1>1, <1>3 DEF TypeOK, RoomInRing, FrontIsPopped, Popping, Holds, Entry
<1>8. EntryIsTicket'
  <2>1. ASSUME NEW i \in popped..head - 1, Entry(i)'.is_constructed
        PROVE  Entry(i)'.log_entry = i
    <3>1. i \in Nat /\ i # popped
      BY <1>3, <2>1 DEF TypeOK, RoomInRing
    <3> QED
      BY <1>3, <2>1, <3>1 DEF EntryIsTicket
  <2>2. ASSUME NEW q \in Producer, producer[q].pc = "publish"
        PROVE  buffer'[Slot(producer[q].ticket)].log_entry = producer[q].ticket
    BY <1>3, <2>2 DEF TypeOK, EntryIsTicket, Entry
  <2> QED
    BY <1>1, <2>1, <2>2 DEF EntryIsTicket, Entry
<1> QED
  BY <1>2, <1>4, <1>5, <1>6, <1>7, <1>8

(* The slot that tail_ leaves becomes the last free one of the window.     *)
LEMMA StepAdvance ==
  ASSUME RingInv, Advance
  PROVE  RingInv'
<1> USE RingAssumption DEF RingInv
<1>1. /\ UNCHANGED <<head, buffer, producer, written, active>>
      /\ logger = "advance" /\ logger' = "loop"
      /\ tail' = Slot(tail + 1) /\ popped' = popped + 1
  BY DEF Advance
<1>2. tail' = Slot(popped')
  BY <1>1, SlotNext DEF TypeOK, RoomInRing
<1>3. TypeOK'
  <2>1. popped' \in Nat /\ tail' \in 0..Size - 1
    BY <1>1, <1>2, SlotType DEF TypeOK
  <2> QED
    BY <1>1, <2>1 DEF TypeOK
<1>4. popped < head /\ ~Entry(popped).is_constructed
  BY <1>1 DEF FrontIsPopped, Popping
<1>5. RoomInRing' /\ WrittenSoFar' /\ FirstInFirstOut'
  BY <1>1, <1>2, <1>4 DEF TypeOK, RoomInRing, WrittenSoFar, FirstInFirstOut
<1>6. TicketsHeld' /\ UnmarkedWhileHeld'
  BY <1>1 DEF TypeOK, TicketsHeld, UnmarkedWhileHeld, FrontIsPopped, Popping, Holds, Entry
<1>7. UnmarkedWhileFree'
  <2>1. ASSUME NEW i \in head..popped' + Size - 1
        PROVE  ~Entry(i).is_constructed
    <3>1. CASE i = popped + Size
      <4>1. Slot(i) = Slot(popped)
        BY <3>1, SlotWraps DEF TypeOK
      <4> QED
        BY <1>4, <4>1 DEF Entry
    <3>2. CASE i # popped + Size
      <4>1. i \in head..popped + Size - 1
        BY <1>1, <3>2 DEF TypeOK
      <4> QED
        BY <4>1 DEF UnmarkedWhileFree
    <3> QED
      BY <3>1, <3>2
  <2> QED
    BY <1>1, <2>1 DEF UnmarkedWhileFree, Entry
<1>8. EntryIsTicket' /\ FrontIsPopped'
  BY <1>1 DEF TypeOK, EntryIsTicket, FrontIsPopped, Popping, Entry
<1> QED
  BY <1>3, <1>5, <1>6, <1>7, <1>8

(* Every step of a thread that logs, of the logger and of its destructor   *)
(* keeps the invariant.                                                    *)
LEMMA RingStep == MaxOutstanding <= Size /\ RingInv /\ [Next]_lvars => RingInv'
<1> SUFFICES ASSUME MaxOutstanding <= Size, RingInv, [Next]_lvars
             PROVE  RingInv'
  OBVIOUS
<1>1. CASE UNCHANGED lvars
  BY <1>1 DEF lvars, RingInv, TypeOK, RoomInRing, TicketsHeld, UnmarkedWhileHeld,
              UnmarkedWhileFree, EntryIsTicket, FrontIsPopped, WrittenSoFar,
              FirstInFirstOut, Holds, Entry
<1>2. ASSUME NEW p \in Producer, TakeTicket(p) \/ Emplace(p)
      PROVE  RingInv'
  BY <1>2, StepTakeTicket, StepAdmit, StepConstruct, StepPublish DEF Emplace
<1>3. CASE WriteFromQueue \/ Exit
  BY <1>3, StepControl, StepFormat, StepDestroy, StepUnmark, StepAdvance DEF WriteFromQueue
<1> QED
  BY <1>1, <1>2, <1>3 DEF Next

(* The invariant holds while no more than Size entries are outstanding.    *)
LEMMA RingCorrect == MaxOutstanding <= Size => (Spec => []RingInv)
<1> SUFFICES ASSUME MaxOutstanding <= Size
             PROVE  Spec => []RingInv
  OBVIOUS
<1>1. RingInv /\ [Next]_lvars => RingInv'
  BY RingStep
<1> QED
  BY <1>1, RingInit, PTL DEF Spec
-----------------------------------------------------------------------------
(* Every variable keeps its type; above all the logger never formats an    *)
(* entry that is not there (logger.hpp, writeFromQueue).                   *)
THEOREM LoggerTypeCorrect == MaxOutstanding <= Size => (Spec => []TypeOK)
<1> SUFFICES ASSUME MaxOutstanding <= Size
             PROVE  Spec => []TypeOK
  OBVIOUS
<1>1. RingInv => TypeOK
  BY DEF RingInv
<1> QED
  BY <1>1, RingCorrect, PTL

(* No two threads construct an entry in one slot of buffer_, and none does *)
(* in a slot whose entry has not been popped (logger.hpp, emplace).        *)
THEOREM SlotsAreOwned == MaxOutstanding <= Size => (Spec => []SlotHasOneOwner)
<1> SUFFICES ASSUME MaxOutstanding <= Size
             PROVE  Spec => []SlotHasOneOwner
  OBVIOUS
<1>1. RingInv => SlotHasOneOwner
  <2> SUFFICES ASSUME RingInv, NEW p \in Producer, NEW q \in Producer,
                      producer[p].pc \in {"construct", "publish"}
               PROVE  /\ ~buffer[Slot(producer[p].ticket)].is_constructed
                      /\ q # p /\ producer[q].pc \in {"construct", "publish"} =>
                           Slot(producer[q].ticket) # Slot(producer[p].ticket)
    BY DEF SlotHasOneOwner
  <2>1. ~buffer[Slot(producer[p].ticket)].is_constructed
    BY DEF RingInv, UnmarkedWhileHeld, Holds, Entry
  <2>2. ASSUME q # p, producer[q].pc \in {"construct", "publish"}
        PROVE  Slot(producer[q].ticket) # Slot(producer[p].ticket)
    <3>1. /\ popped \in Nat
          /\ producer[p].ticket \in popped..popped + Size - 1
          /\ producer[q].ticket \in popped..popped + Size - 1
          /\ producer[q].ticket # producer[p].ticket
      BY <2>2, RingAssumption DEF RingInv, TypeOK, RoomInRing, TicketsHeld, Holds
    <3> QED
      BY <3>1, WindowHasItsSlots
  <2> QED
    BY <2>1, <2>2
<1> QED
  BY <1>1, RingCorrect, PTL

(* What is written is what was logged, in the order of the tickets; the    *)
(* run logger_full shows that this fails once more entries are outstanding *)
(* than the ring has slots.                                                *)
THEOREM LogIsInOrder == MaxOutstanding <= Size => (Spec => []FirstInFirstOut)
<1> SUFFICES ASSUME MaxOutstanding <= Size
             PROVE  Spec => []FirstInFirstOut
  OBVIOUS
<1>1. RingInv => FirstInFirstOut
  BY DEF RingInv
<1> QED
  BY <1>1, RingCorrect, PTL

(* The ring takes no step that a FIFO channel could not: emplace's ticket  *)
(* sends, format delivers the oldest entry not yet delivered, and nothing  *)
(* else is seen from outside.                                              *)
THEOREM LoggerIsChannel ==
  MaxOutstanding <= Size =>
    (Spec => Channel!CInit /\ [][Channel!CNext]_(Channel!cvars))
<1> SUFFICES ASSUME MaxOutstanding <= Size
             PROVE  Spec => Channel!CInit /\ [][Channel!CNext]_(Channel!cvars)
  OBVIOUS
<1>1. Init => Channel!CInit
  BY DEF Init, Channel!CInit
<1>2. ASSUME RingInv, [Next]_lvars
      PROVE  [Channel!CNext]_(Channel!cvars)
  <2> USE DEF Channel!cvars, Channel!CNext
  <2>1. CASE UNCHANGED lvars
    BY <2>1 DEF lvars
  <2>2. ASSUME NEW p \in Producer, TakeTicket(p)
        PROVE  Channel!Send
    BY <2>2 DEF TakeTicket, NextTicket, Channel!Send
  <2>3. ASSUME NEW p \in Producer, Emplace(p)
        PROVE  UNCHANGED Channel!cvars
    BY <2>3 DEF Emplace, Admit, Construct, Publish
  <2>4. CASE Stop
    BY <2>4 DEF Stop, Channel!Break
  <2>5. CASE Format
    <3>1. popped \in popped..head - 1 /\ Entry(popped).is_constructed
      BY <1>2, <2>5 DEF RingInv, TypeOK, FrontIsPopped, Popping, Format
    <3>2. buffer[tail].log_entry = popped
      BY <1>2, <2>5, <3>1 DEF RingInv, EntryIsTicket, RoomInRing, Entry, Format
    <3>3. Len(written) = popped /\ Len(written) < head
      BY <1>2, <2>5, <3>1 DEF RingInv, TypeOK, WrittenSoFar, Format
    <3> QED
      BY <2>5, <3>2, <3>3 DEF Format, Channel!Deliver
  <2>6. CASE Front \/ Destroy \/ Unmark \/ Advance \/ Exit
    BY <2>6 DEF Front, Destroy, Unmark, Advance, Exit
  <2> QED
    BY <1>2, <2>1, <2>2, <2>3, <2>4, <2>5, <2>6 DEF Next, WriteFromQueue
<1> QED
  BY <1>1, <1>2, RingCorrect, PTL DEF Spec
=============================================================================
