---------------------------- MODULE LoggerQueue ----------------------------
(***************************************************************************)
(* The logger (logger.hpp): a ring that any thread puts entries in and one *)
(* thread writes out.  An entry is known by its ticket, the value of head_ *)
(* when it was put in.  Each access to an atomic is an action of its own.  *)
(***************************************************************************)
EXTENDS Integers, Sequences

CONSTANTS
  Producer,       \* the threads that log
  None,           \* no entry
  Size,           \* size_ of the ring, 1024 in the code
  Word,           \* number of values of a size_t
  MaxEntries,     \* bound: entries logged in all
  MaxOutstanding  \* no entry is logged while this many are not yet popped

ASSUME RingAssumption == /\ Size \in Nat \ {0}
                         /\ Word \in Nat /\ Word > 2 * Size
                         /\ MaxEntries \in Nat /\ MaxOutstanding \in Nat
                         /\ None \notin Nat

VARIABLES
  head,      \* head_
  tail,      \* tail_
  buffer,    \* buffer_: log_entry and is_constructed of each slot
  producer,  \* pc and ticket of each producer
  logger,    \* pc of the logger's thread
  written,   \* the entries written out, each as its ticket + 1
  popped,    \* entries popped
  active     \* active_

lvars == <<head, tail, buffer, producer, logger, written, popped, active>>

Slot(n) == n % Size
-----------------------------------------------------------------------------
(***************************************************************************)
(* Slips: wrong variants of definitions below, used by no behaviour.       *)
(***************************************************************************)
TicketKept == head
PublishNothing(p) == /\ producer[p].pc = "publish"
                     /\ producer' = [producer EXCEPT ![p].pc = "idle"]
                     /\ UNCHANGED <<head, tail, buffer, logger, written, popped, active>>
AdvanceUnmasked == /\ logger = "advance"
                   /\ tail' = tail + 1
                   /\ popped' = popped + 1
                   /\ logger' = "loop"
                   /\ UNCHANGED <<head, buffer, producer, written, active>>
-----------------------------------------------------------------------------
(* buffer_ is not constructed, only allocated, and a block of its size is  *)
(* fresh and zero.                                                         *)
Init == /\ head = 0 /\ tail = 0
        /\ buffer = [i \in 0..Size - 1 |-> [log_entry |-> None, is_constructed |-> FALSE]]
        /\ producer = [p \in Producer |-> [pc |-> "idle", ticket |-> 0]]
        /\ logger = "loop"
        /\ written = << >>
        /\ popped = 0
        /\ active = TRUE

Goto(p, from, to) == /\ producer[p].pc = from
                     /\ producer' = [producer EXCEPT ![p].pc = to]
-----------------------------------------------------------------------------
(***************************************************************************)
(* emplace.                                                                *)
(***************************************************************************)
NextTicket == head + 1

(* head_.fetch_add(1).                                                     *)
TakeTicket(p) == /\ producer[p].pc = "idle"
                 /\ head < MaxEntries /\ head - popped < MaxOutstanding
                 /\ producer' = [producer EXCEPT ![p] = [pc |-> "wait", ticket |-> head]]
                 /\ head' = NextTicket
                 /\ UNCHANGED <<tail, buffer, logger, written, popped, active>>

(* The loop's condition, in unsigned arithmetic.                           *)
Full(n) == (Slot(n) - tail) % Word >= Size

Admit(p) == /\ ~Full(producer[p].ticket)
            /\ Goto(p, "wait", "construct")
            /\ UNCHANGED <<head, tail, buffer, logger, written, popped, active>>

Construct(p) == /\ Goto(p, "construct", "publish")
                /\ buffer' = [buffer EXCEPT ![Slot(producer[p].ticket)].log_entry =
                                              producer[p].ticket]
                /\ UNCHANGED <<head, tail, logger, written, popped, active>>

Publish(p) == /\ Goto(p, "publish", "idle")
              /\ buffer' = [buffer EXCEPT ![Slot(producer[p].ticket)].is_constructed = TRUE]
              /\ UNCHANGED <<head, tail, logger, written, popped, active>>
-----------------------------------------------------------------------------
(***************************************************************************)
(* writeFromQueue, with front and pop.                                     *)
(***************************************************************************)
Stop == /\ logger = "loop" /\ ~active
        /\ logger' = "stopped"
        /\ UNCHANGED <<head, tail, buffer, producer, written, popped, active>>

Front == /\ logger = "loop" /\ active
         /\ buffer[tail].is_constructed
         /\ logger' = "format"
         /\ UNCHANGED <<head, tail, buffer, producer, written, popped, active>>

Format == /\ logger = "format"
          /\ written' = Append(written, buffer[tail].log_entry + 1)
          /\ logger' = "destroy"
          /\ UNCHANGED <<head, tail, buffer, producer, popped, active>>

Destroy == /\ logger = "destroy"
           /\ buffer' = [buffer EXCEPT ![tail].log_entry = None]
           /\ logger' = "unmark"
           /\ UNCHANGED <<head, tail, producer, written, popped, active>>

Unmark == /\ logger = "unmark"
          /\ buffer' = [buffer EXCEPT ![tail].is_constructed = FALSE]
          /\ logger' = "advance"
          /\ UNCHANGED <<head, tail, producer, written, popped, active>>

Advance == /\ logger = "advance"
           /\ tail' = Slot(tail + 1)
           /\ popped' = popped + 1
           /\ logger' = "loop"
           /\ UNCHANGED <<head, buffer, producer, written, active>>
-----------------------------------------------------------------------------
(* ~Logger, when the process exits.                                        *)
Exit == /\ active
        /\ active' = FALSE
        /\ UNCHANGED <<head, tail, buffer, producer, logger, written, popped>>

Emplace(p) == Admit(p) \/ Construct(p) \/ Publish(p)
WriteFromQueue == Stop \/ Front \/ Format \/ Destroy \/ Unmark \/ Advance

Next == \/ \E p \in Producer : TakeTicket(p) \/ Emplace(p)
        \/ WriteFromQueue
        \/ Exit

Spec == /\ Init /\ [][Next]_lvars
        /\ \A p \in Producer : WF_lvars(Emplace(p))
        /\ WF_lvars(WriteFromQueue)
-----------------------------------------------------------------------------
(***************************************************************************)
(* Properties.                                                             *)
(***************************************************************************)
TypeOK == /\ head \in Nat
          /\ tail \in 0..Size - 1
          /\ buffer \in [0..Size - 1 -> [log_entry : Nat \cup {None},
                                         is_constructed : BOOLEAN]]
          /\ producer \in [Producer -> [pc : {"idle", "wait", "construct", "publish"},
                                        ticket : Nat]]
          /\ logger \in {"loop", "format", "destroy", "unmark", "advance", "stopped"}
          /\ written \in Seq(Nat)
          /\ popped \in Nat
          /\ active \in BOOLEAN

(* A slot belongs to one thread at a time: no two producers construct an   *)
(* entry in one slot, and none does in a slot whose entry is still there.  *)
SlotHasOneOwner ==
  \A p, q \in Producer :
    producer[p].pc \in {"construct", "publish"} =>
      /\ ~buffer[Slot(producer[p].ticket)].is_constructed
      /\ q # p /\ producer[q].pc \in {"construct", "publish"} =>
           Slot(producer[q].ticket) # Slot(producer[p].ticket)

(* The queue is first in, first out: what is written is what was logged,   *)
(* in the order of the tickets, none lost (logger.hpp:77).                 *)
FirstInFirstOut == \A i \in 1..Len(written) : written[i] = i

(* The logger is a FIFO channel, that stops when the process exits.        *)
Channel == INSTANCE MessageChannel WITH sent <- head, delivered <- written,
                                        broken <- logger = "stopped"
ImplementsChannel == Channel!CSpec
=============================================================================
