-------------------------- MODULE WriteQueueProofs --------------------------
(***************************************************************************)
(* Theorems about WriteQueue, for any set of threads and any number of     *)
(* messages: writes to a stream never overlap, and what the stream takes   *)
(* is what was sent, in order, without gaps.                               *)
(***************************************************************************)
EXTENDS WriteQueue, TLAPS

(***************************************************************************)
(* Control: who is inside the mutex, who runs the callback, and what       *)
(* write_in_progress says.                                                 *)
(***************************************************************************)
LockHeld == \A t \in Thread : pc[t] \in Inside <=> mutex = t

OneCallback == \A s, t \in Thread : pc[s] \in Callback /\ pc[t] \in Callback => s = t

CallbackRuns == \E t \in Thread : pc[t] \in Callback

FreeForCallback == CallbackRuns => stream = "free"

Marked == write_in_progress \/ \E t \in Thread : pc[t] = "mark"

OnItsWay == stream # "free" \/ CallbackRuns

MarkedWhileOnItsWay == OnItsWay <=> Marked

UnmarkedAtStart == \A t \in Thread : pc[t] \in {"start", "mark"} => ~write_in_progress

ControlInv == /\ LockHeld
              /\ OneCallback
              /\ FreeForCallback
              /\ MarkedWhileOnItsWay
              /\ UnmarkedAtStart
              /\ NoOverlap
-----------------------------------------------------------------------------
(***************************************************************************)
(* Data: which messages are queued, and which have been delivered.         *)
(***************************************************************************)
Unpopped == stream # "free" \/ \E t \in Thread : pc[t] \in {"finished", "pop"}

Acknowledged == stream = "done" \/ \E t \in Thread : pc[t] \in {"finished", "pop"}

FailedIsBroken == /\ stream = "failed" => broken
                  /\ \A t \in Thread : pc[t] \in Callback /\ ~ok[t] => broken

(* The queue is the last messages sent, without gaps. *)
Consecutive == \A i \in 1..Len(queue) : queue[i] = sent - Len(queue) + i

FirstIsAlone == \A t \in Thread : pc[t] = "start" =>
                  msg[t] = sent /\ queue # << >> /\ (~broken => Len(queue) = 1)

FrontIsWritten ==
  /\ Unpopped => queue # << >>
  /\ stream = "writing" /\ ~broken => writing = sent - Len(queue) + 1
  /\ stream = "done" => writing = sent - Len(queue) + 1
  /\ \A t \in Thread : pc[t] \in {"finished", "pop"} /\ ok[t]
                         => writing = sent - Len(queue) + 1

(* What was sent is what was delivered and what is queued; a message is    *)
(* both from the time the stream takes it until the callback pops it.      *)
Accounted ==
  ~broken => /\ Acknowledged => Len(delivered) = sent - Len(queue) + 1
             /\ ~Acknowledged => Len(delivered) = sent - Len(queue)

DataInv == /\ FailedIsBroken
           /\ Consecutive
           /\ FirstIsAlone
           /\ FrontIsWritten
           /\ Accounted
           /\ QueuedWillBeWritten
-----------------------------------------------------------------------------
(* A queue of sent messages stays one when a message is sent.              *)
LEMMA SeqGrows ==
  ASSUME NEW n \in Nat, NEW q \in Seq(1..n)
  PROVE  q \in Seq(1..n + 1) /\ Append(q, n + 1) \in Seq(1..n + 1)
<1>1. 1..n \subseteq 1..n + 1
  OBVIOUS
<1>2. q \in Seq(1..n + 1)
  BY <1>1
<1> QED
  BY <1>2

(* Type correctness of the write queue: only messages that were sent are   *)
(* queued and written.                                                     *)
THEOREM QueueTypeCorrect == Spec => []TypeOK
<1>1. Init => TypeOK
  <2> SUFFICES ASSUME Init
               PROVE  TypeOK
    OBVIOUS
  <2>1. queue \in Seq(1..sent) /\ delivered \in Seq(Nat)
    BY DEF Init
  <2>2. msg \in [Thread -> 0..sent] /\ writing \in 0..sent /\ sent \in Nat
    BY DEF Init
  <2>3. /\ pc \in [Thread -> {"idle", "write"} \cup Inside \cup Callback]
        /\ ok \in [Thread -> BOOLEAN]
    BY DEF Init
  <2> QED
    BY <2>1, <2>2, <2>3 DEF Init, TypeOK
<1>2. ASSUME TypeOK, [Next]_wvars
      PROVE  TypeOK'
  <2> USE <1>2, QueueAssumption DEF TypeOK, Inside, Callback
  <2>1. CASE UNCHANGED wvars
    BY <2>1 DEF wvars
  <2>2. ASSUME NEW t \in Thread, Write(t)
        PROVE  TypeOK'
    BY <2>2 DEF Write, network
  <2>3. ASSUME NEW t \in Thread, LockWrite(t)
        PROVE  TypeOK'
    BY <2>3 DEF LockWrite, Enter, network
  <2>4. ASSUME NEW t \in Thread, Push(t)
        PROVE  TypeOK'
    <3>1. queue' \in Seq(1..sent')
      BY <2>4, SeqGrows DEF Push, network
    <3>2. /\ msg' \in [Thread -> 0..sent']
          /\ writing' \in 0..sent'
          /\ sent' \in Nat
      BY <2>4 DEF Push, network
    <3>3. /\ pc' \in [Thread -> {"idle", "write"} \cup Inside \cup Callback]
          /\ mutex' \in Thread \cup {None}
      BY <2>4 DEF Push, AfterPush
    <3> QED
      BY <2>4, <3>1, <3>2, <3>3 DEF Push, network
  <2>5. ASSUME NEW t \in Thread, StartFirst(t)
        PROVE  TypeOK'
    BY <2>5 DEF StartFirst, StartWrite
  <2>6. ASSUME NEW t \in Thread, MarkInProgress(t)
        PROVE  TypeOK'
    BY <2>6 DEF MarkInProgress, network
  <2>7. ASSUME NEW t \in Thread, Completed(t)
        PROVE  TypeOK'
    BY <2>7 DEF Completed
  <2>8. ASSUME NEW t \in Thread, LockCallback(t)
        PROVE  TypeOK'
    BY <2>8 DEF LockCallback, Enter, network
  <2>9. ASSUME NEW t \in Thread, Pop(t)
        PROVE  TypeOK'
    <3>1. queue' \in Seq(1..sent)
      <4>1. ASSUME queue # << >>
            PROVE  Tail(queue) \in Seq(1..sent)
        BY <4>1
      <4> QED
        BY <2>9, <4>1 DEF Pop
    <3> QED
      BY <2>9, <3>1 DEF Pop, network
  <2>10. ASSUME NEW t \in Thread, StartNext(t)
         PROVE  TypeOK'
    <3>1. queue # << >>
      BY <2>10 DEF StartNext, AfterPop
    <3>2. Head(queue) \in 1..sent
      BY <3>1
    <3> QED
      BY <2>10, <3>2 DEF StartNext, StartWrite
  <2>11. ASSUME NEW t \in Thread, NothingToStart(t)
         PROVE  TypeOK'
    BY <2>11 DEF NothingToStart, network
  <2>12. CASE Taken
    BY <2>12 DEF Taken
  <2>13. CASE Break
    BY <2>13 DEF Break
  <2>14. CASE Failed
    BY <2>14 DEF Failed
  <2> QED
    BY <1>2, <2>1, <2>2, <2>3, <2>4, <2>5, <2>6, <2>7, <2>8, <2>9, <2>10, <2>11,
       <2>12, <2>13, <2>14 DEF Next, Step
<1> QED
  BY <1>1, <1>2, PTL DEF Spec
-----------------------------------------------------------------------------
(***************************************************************************)
(* Control.                                                                *)
(***************************************************************************)
Control == /\ pc \in [Thread -> {"idle", "write"} \cup Inside \cup Callback]
           /\ mutex \in Thread \cup {None}
           /\ write_in_progress \in BOOLEAN
           /\ ControlInv

LEMMA ControlStep ==
  ASSUME Control, pc' \in [Thread -> {"idle", "write"} \cup Inside \cup Callback],
         [Next]_wvars
  PROVE  ControlInv'
<1> USE QueueAssumption
<1> USE DEF Control, ControlInv, LockHeld, OneCallback, CallbackRuns, FreeForCallback,
            Marked, OnItsWay, MarkedWhileOnItsWay, UnmarkedAtStart, NoOverlap,
            Inside, Callback
<1>1. CASE UNCHANGED wvars
  BY <1>1 DEF wvars
<1>2. ASSUME NEW t \in Thread, Write(t)
      PROVE  ControlInv'
  BY <1>2 DEF Write, network
<1>3. ASSUME NEW t \in Thread, LockWrite(t)
      PROVE  ControlInv'
  BY <1>3 DEF LockWrite, Enter, network
<1>4. ASSUME NEW t \in Thread, Push(t)
      PROVE  ControlInv'
  BY <1>4 DEF Push, AfterPush, network
(* The thread that starts a write holds the mutex and found no mark, so no *)
(* other write is on its way.                                              *)
<1>5. ASSUME NEW t \in Thread, StartFirst(t)
      PROVE  ControlInv'
  BY <1>5 DEF StartFirst, StartWrite
<1>6. ASSUME NEW t \in Thread, MarkInProgress(t)
      PROVE  ControlInv'
  BY <1>6 DEF MarkInProgress, network
<1>7. ASSUME NEW t \in Thread, Completed(t)
      PROVE  ControlInv'
  BY <1>7 DEF Completed
<1>8. ASSUME NEW t \in Thread, LockCallback(t)
      PROVE  ControlInv'
  BY <1>8 DEF LockCallback, Enter, network
<1>9. ASSUME NEW t \in Thread, Pop(t)
      PROVE  ControlInv'
  BY <1>9 DEF Pop, network
<1>10. ASSUME NEW t \in Thread, StartNext(t)
       PROVE  ControlInv'
  <2>1. /\ mutex = t /\ stream = "free" /\ write_in_progress
        /\ \A s \in Thread : s # t => pc[s] \notin Inside \cup Callback
    BY <1>10 DEF StartNext
  <2>2. LockHeld' /\ UnmarkedAtStart' /\ NoOverlap'
    BY <1>10, <2>1 DEF StartNext, StartWrite
  <2>3. ~CallbackRuns' /\ Marked' /\ OnItsWay'
    BY <1>10, <2>1 DEF StartNext, StartWrite
  <2> QED
    BY <2>2, <2>3
<1>11. ASSUME NEW t \in Thread, NothingToStart(t)
       PROVE  ControlInv'
  BY <1>11 DEF NothingToStart, network
<1>12. CASE Taken \/ Break \/ Failed
  BY <1>12 DEF Taken, Break, Failed
<1> QED
  BY <1>1, <1>2, <1>3, <1>4, <1>5, <1>6, <1>7, <1>8, <1>9, <1>10, <1>11, <1>12
     DEF Next, Step

LEMMA ControlCorrect == Spec => []ControlInv
<1>1. Init => ControlInv
  BY QueueAssumption
     DEF Init, ControlInv, LockHeld, OneCallback, CallbackRuns, FreeForCallback,
         Marked, OnItsWay, MarkedWhileOnItsWay, UnmarkedAtStart, NoOverlap,
         Inside, Callback
<1>2. TypeOK /\ TypeOK' /\ ControlInv /\ [Next]_wvars => ControlInv'
  BY ControlStep DEF TypeOK, Control
<1> QED
  BY <1>1, <1>2, QueueTypeCorrect, PTL DEF Spec

(* A stream takes one Write at a time: writeToClient and the callback, on  *)
(* any threads, never start one before the callback of the one before.     *)
THEOREM WritesDoNotOverlap == Spec => []NoOverlap
<1>1. ControlInv => NoOverlap
  BY DEF ControlInv
<1> QED
  BY <1>1, ControlCorrect, PTL

(* write_in_progress_, read with the mutex free, is TRUE exactly while a   *)
(* Write is on its way or its callback has not finished.                   *)
THEOREM MarkIsExact == Spec => []InProgressIsExact
<1>1. ControlInv /\ TypeOK => InProgressIsExact
  BY QueueAssumption
     DEF ControlInv, LockHeld, CallbackRuns, Marked, OnItsWay, MarkedWhileOnItsWay,
         InProgressIsExact, Inside, TypeOK
<1> QED
  BY <1>1, ControlCorrect, QueueTypeCorrect, PTL
-----------------------------------------------------------------------------
(***************************************************************************)
(* Data.                                                                   *)
(***************************************************************************)
LEMMA Appended ==
  ASSUME NEW n \in Nat, NEW q \in Seq(1..n), NEW e \in Nat
  PROVE  /\ Len(Append(q, e)) = Len(q) + 1
         /\ Len(q) \in Nat
         /\ Append(q, e) # << >>
         /\ \A i \in 1..Len(q) : Append(q, e)[i] = q[i]
         /\ Append(q, e)[Len(q) + 1] = e
OBVIOUS

LEMMA DataStep ==
  ASSUME TypeOK, TypeOK', ControlInv, DataInv, [Next]_wvars
  PROVE  DataInv'
<1> USE QueueAssumption
<1> USE DEF TypeOK, DataInv, Unpopped, Acknowledged, FailedIsBroken, Consecutive,
            FirstIsAlone, FrontIsWritten, Accounted, QueuedWillBeWritten,
            Inside, Callback
<1>0. /\ LockHeld /\ OneCallback /\ FreeForCallback /\ MarkedWhileOnItsWay
      /\ UnmarkedAtStart
  BY DEF ControlInv
<1>1. CASE UNCHANGED wvars
  BY <1>1 DEF wvars
<1>2. ASSUME NEW t \in Thread, Write(t)
      PROVE  DataInv'
  BY <1>2 DEF Write, network
<1>3. ASSUME NEW t \in Thread, LockWrite(t)
      PROVE  DataInv'
  BY <1>3 DEF LockWrite, Enter, network
<1>4. ASSUME NEW t \in Thread, Push(t)
      PROVE  DataInv'
  <2>1. /\ Len(queue') = Len(queue) + 1 /\ queue' # << >>
        /\ \A i \in 1..Len(queue) : queue'[i] = queue[i]
        /\ queue'[Len(queue) + 1] = sent + 1
        /\ sent' = sent + 1
        /\ Len(queue) \in Nat
    <3>1. queue' = Append(queue, sent + 1) /\ sent' = sent + 1
      BY <1>4 DEF Push
    <3>2. queue \in Seq(1..sent) /\ sent \in Nat /\ sent + 1 \in Nat
      OBVIOUS
    <3> HIDE DEF TypeOK, DataInv
    <3>3. /\ Len(Append(queue, sent + 1)) = Len(queue) + 1
          /\ Len(queue) \in Nat
          /\ Append(queue, sent + 1) # << >>
          /\ \A i \in 1..Len(queue) : Append(queue, sent + 1)[i] = queue[i]
          /\ Append(queue, sent + 1)[Len(queue) + 1] = sent + 1
      BY <3>2, Appended, Zenon
    <3> QED
      BY <3>1, <3>3, Zenon
  <2>2. Consecutive'
    <3> SUFFICES ASSUME NEW i \in 1..Len(queue) + 1
                 PROVE  queue'[i] = sent' - Len(queue') + i
      BY <2>1
    <3>1. CASE i = Len(queue) + 1
      BY <2>1, <3>1
    <3>2. CASE i \in 1..Len(queue)
      <4>1. queue[i] = sent - Len(queue) + i
        BY <3>2
      <4> QED
        BY <2>1, <3>2, <4>1
    <3> QED
      BY <2>1, <3>1, <3>2
  <2>3. \A s \in Thread : s # t => pc'[s] = pc[s] /\ pc[s] \notin Inside
    BY <1>0, <1>4 DEF Push, LockHeld
  <2>4. pc[t] = "push" /\ pc'[t] \in {"idle", "start"}
    BY <1>4 DEF Push, AfterPush
  <2>5. /\ UNCHANGED <<ok, write_in_progress, stream, writing, delivered, broken>>
        /\ msg'[t] = sent + 1
    BY <1>4 DEF Push, network
  <2>6a. sent' - Len(queue') = sent - Len(queue)
    BY <2>1
  <2>6b. \A s \in Thread : /\ pc'[s] \in {"finished", "pop"} <=> pc[s] \in {"finished", "pop"}
                           /\ pc'[s] \in Callback <=> pc[s] \in Callback
    BY <2>3, <2>4
  <2>6. FailedIsBroken' /\ FrontIsWritten' /\ Accounted'
    <3> HIDE DEF Inside, Callback
    <3>1. FailedIsBroken'
      BY <2>6b, <2>5
    <3>2. FrontIsWritten'
      BY <2>6a, <2>6b, <2>5, <2>1
    <3>3. Acknowledged' <=> Acknowledged
      BY <2>6b, <2>5
    <3>4. Accounted'
      <4> HIDE DEF Acknowledged
      <4> QED
        BY <3>3, <2>5, <2>6a
    <3> QED
      BY <3>1, <3>2, <3>4
  <2>7. ASSUME pc'[t] = "start"
        PROVE  stream = "free" /\ \A s \in Thread : pc[s] \notin Callback
    BY <1>0, <1>4, <2>7, <2>3, <2>4
       DEF Push, AfterPush, MarkedWhileOnItsWay, Marked, OnItsWay, CallbackRuns
  <2>8. FirstIsAlone'
    <3> SUFFICES ASSUME pc'[t] = "start"
                 PROVE  /\ msg'[t] = sent' /\ queue' # << >>
                        /\ ~broken' => Len(queue') = 1
      BY <2>3
    <3>1. ~broken => queue = << >>
      BY <2>3, <2>4, <2>7
    <3> QED
      BY <2>1, <2>5, <3>1
  <2>9. ASSUME pc'[t] = "idle"
        PROVE  stream # "free" \/ \E s \in Thread : s # t /\ pc[s] \in Callback
    BY <1>0, <1>4, <2>9, <2>4
       DEF Push, AfterPush, MarkedWhileOnItsWay, Marked, OnItsWay, CallbackRuns
  <2>10. QueuedWillBeWritten'
    BY <2>3, <2>4, <2>5, <2>9
  <2> QED
    BY <2>2, <2>6, <2>8, <2>10
<1>5. ASSUME NEW t \in Thread, StartFirst(t)
      PROVE  DataInv'
  <2>1. /\ stream = "free" /\ \A s \in Thread : pc[s] \notin Callback
        /\ \A s \in Thread : s # t => pc'[s] = pc[s] /\ pc[s] \notin Inside
        /\ pc[t] = "start" /\ pc'[t] = "mark"
    BY <1>0, <1>5
       DEF StartFirst, LockHeld, UnmarkedAtStart, MarkedWhileOnItsWay, Marked, OnItsWay,
           CallbackRuns
  <2>2. /\ stream' = "writing" /\ writing' = msg[t]
        /\ UNCHANGED <<msg, ok, queue, sent, delivered, broken>>
    BY <1>5 DEF StartFirst, StartWrite
  <2> QED
    BY <2>1, <2>2
<1>6. ASSUME NEW t \in Thread, MarkInProgress(t)
      PROVE  DataInv'
  BY <1>6 DEF MarkInProgress, network
<1>7. ASSUME NEW t \in Thread, Completed(t)
      PROVE  DataInv'
  BY <1>0, <1>7 DEF Completed, FreeForCallback, CallbackRuns
<1>8. ASSUME NEW t \in Thread, LockCallback(t)
      PROVE  DataInv'
  BY <1>8 DEF LockCallback, Enter, network
<1>9. ASSUME NEW t \in Thread, Pop(t)
      PROVE  DataInv'
  <2>1. /\ pc[t] = "pop" /\ pc'[t] = "next" /\ stream = "free"
        /\ \A s \in Thread : s # t =>
             pc'[s] = pc[s] /\ pc[s] \notin Callback /\ pc[s] \notin Inside
    BY <1>0, <1>9 DEF Pop, LockHeld, OneCallback, FreeForCallback, CallbackRuns
  <2>2. queue # << >> /\ queue' = Tail(queue)
    BY <1>9, <2>1 DEF Pop
  <2>3. /\ Len(queue') = Len(queue) - 1
        /\ \A i \in 1..Len(queue') : queue'[i] = queue[i + 1]
    BY <2>2
  <2>4. UNCHANGED <<msg, ok, sent, stream, writing, delivered, broken>>
    BY <1>9 DEF Pop, network
  <2>5. Consecutive'
    BY <2>3, <2>4
  <2>6. sent' - Len(queue') = sent - Len(queue) + 1
    BY <2>3, <2>4
  <2>7. /\ \A s \in Thread : pc'[s] \notin {"start", "finished", "pop"}
        /\ pc'[t] \in Callback /\ pc[t] \in Callback /\ pc[t] \in {"finished", "pop"}
    BY <2>1
  <2>8. FailedIsBroken' /\ FirstIsAlone' /\ FrontIsWritten' /\ QueuedWillBeWritten'
    BY <2>1, <2>4, <2>7
  <2>9. Accounted'
    BY <2>1, <2>4, <2>6, <2>7
  <2> QED
    BY <2>5, <2>8, <2>9
<1>10. ASSUME NEW t \in Thread, StartNext(t)
       PROVE  DataInv'
  <2>1. /\ pc[t] = "next" /\ pc'[t] = "idle" /\ stream = "free"
        /\ \A s \in Thread : s # t =>
             pc'[s] = pc[s] /\ pc[s] \notin Callback /\ pc[s] \notin Inside
    BY <1>0, <1>10
       DEF StartNext, LockHeld, OneCallback, FreeForCallback, CallbackRuns
  <2>2. queue # << >> /\ Head(queue) = sent - Len(queue) + 1
    BY <1>10 DEF StartNext, AfterPop
  <2>3. /\ stream' = "writing" /\ writing' = Head(queue)
        /\ UNCHANGED <<msg, ok, queue, sent, delivered, broken>>
    BY <1>10 DEF StartNext, StartWrite
  <2> QED
    BY <2>1, <2>2, <2>3
<1>11. ASSUME NEW t \in Thread, NothingToStart(t)
       PROVE  DataInv'
  <2>1. /\ pc[t] = "next" /\ pc'[t] = "idle" /\ stream = "free"
        /\ \A s \in Thread : s # t =>
             pc'[s] = pc[s] /\ pc[s] \notin Callback /\ pc[s] \notin Inside
    BY <1>0, <1>11
       DEF NothingToStart, LockHeld, OneCallback, FreeForCallback, CallbackRuns
  <2>2. queue = << >> \/ broken
    BY <1>11 DEF NothingToStart, AfterPop
  <2>3. UNCHANGED <<msg, ok, queue, sent, stream, writing, delivered, broken>>
    BY <1>11 DEF NothingToStart, network
  <2> QED
    BY <2>1, <2>2, <2>3
<1>12. CASE Taken
  <2>1. \A t \in Thread : pc[t] \notin Callback
    BY <1>0, <1>12 DEF Taken, FreeForCallback, CallbackRuns
  <2>2. Len(delivered') = Len(delivered) + 1
    BY <1>12 DEF Taken
  <2> QED
    BY <1>12, <2>1, <2>2 DEF Taken
<1>13. CASE Break \/ Failed
  BY <1>13 DEF Break, Failed
<1> QED
  BY <1>1, <1>2, <1>3, <1>4, <1>5, <1>6, <1>7, <1>8, <1>9, <1>10, <1>11, <1>12,
     <1>13 DEF Next, Step

LEMMA DataCorrect == Spec => []DataInv
<1>1. Init => DataInv
  <2> SUFFICES ASSUME Init
               PROVE  DataInv
    OBVIOUS
  <2>1. /\ Len(queue) = 0 /\ Len(delivered) = 0 /\ sent = 0
        /\ queue = << >> /\ stream = "free"
        /\ \A t \in Thread : pc[t] = "idle"
    BY DEF Init
  <2>2. FailedIsBroken /\ FirstIsAlone /\ FrontIsWritten /\ QueuedWillBeWritten
    BY <2>1 DEF Unpopped, FailedIsBroken, FirstIsAlone, FrontIsWritten,
                QueuedWillBeWritten, Callback
  <2>3. Consecutive /\ Accounted
    BY <2>1 DEF Consecutive, Accounted, Acknowledged
  <2> QED
    BY <2>2, <2>3 DEF DataInv
<1>2. TypeOK /\ TypeOK' /\ ControlInv /\ DataInv /\ [Next]_wvars => DataInv'
  BY DataStep
<1> QED
  BY <1>1, <1>2, QueueTypeCorrect, ControlCorrect, PTL DEF Spec

(* Never is a message left in the queue of a healthy stream with no write  *)
(* or callback under way that will get to it.                              *)
THEOREM NoMessageStranded == Spec => []QueuedWillBeWritten
<1>1. DataInv => QueuedWillBeWritten
  BY DEF DataInv
<1> QED
  BY <1>1, DataCorrect, PTL

(* The callback never pops an empty queue, and after a successful write it *)
(* pops the message that was written, although writeToClient hands the     *)
(* stream its argument and not the front of the queue.                     *)
THEOREM CallbackPopsItsMessage == Spec => []PopsWhatWasWritten
<1>1. TypeOK /\ DataInv => PopsWhatWasWritten
  <2> SUFFICES ASSUME TypeOK, DataInv, NEW t \in Thread, pc[t] = "pop"
               PROVE  queue # << >> /\ (ok[t] => Head(queue) = writing)
    BY DEF PopsWhatWasWritten
  <2>1. queue # << >>
    BY DEF DataInv, FrontIsWritten, Unpopped
  <2>2. Head(queue) = sent - Len(queue) + 1
    BY <2>1 DEF TypeOK, DataInv, Consecutive
  <2> QED
    BY <2>1, <2>2 DEF DataInv, FrontIsWritten
<1> QED
  BY <1>1, QueueTypeCorrect, DataCorrect, PTL
-----------------------------------------------------------------------------
(* The queue and its stream take no step that a FIFO channel could not:    *)
(* each message is delivered once, in the order of the calls of            *)
(* writeToClient, and none is skipped.                                     *)
THEOREM DeliversInOrder == Spec => Channel!CInit /\ [][Channel!CNext]_(Channel!cvars)
<1>1. Init => Channel!CInit
  BY DEF Init, Channel!CInit
<1>2. ASSUME TypeOK, ControlInv, DataInv, [Next]_wvars
      PROVE  [Channel!CNext]_(Channel!cvars)
  <2> USE DEF Channel!cvars, Channel!CNext
  <2>1. CASE UNCHANGED wvars
    BY <2>1 DEF wvars
  <2>2. ASSUME NEW t \in Thread, Write(t) \/ LockWrite(t) \/ LockCallback(t)
        PROVE  UNCHANGED Channel!cvars
    BY <2>2 DEF Write, LockWrite, LockCallback, network
  <2>3. ASSUME NEW t \in Thread, Push(t)
        PROVE  Channel!Send
    BY <2>3 DEF Push, network, Channel!Send
  <2>4. ASSUME NEW t \in Thread, StartFirst(t) \/ StartNext(t)
        PROVE  UNCHANGED Channel!cvars
    BY <2>4 DEF StartFirst, StartNext, StartWrite
  <2>5. ASSUME NEW t \in Thread, MarkInProgress(t) \/ Completed(t) \/ Pop(t)
                                   \/ NothingToStart(t)
        PROVE  UNCHANGED Channel!cvars
    BY <2>5 DEF MarkInProgress, Completed, Pop, NothingToStart, network
  <2>6. CASE Taken
    <3>1. ~Acknowledged
      BY <1>2, <2>6 DEF Taken, Acknowledged, ControlInv, FreeForCallback, CallbackRuns, Callback
    <3>2. Len(delivered) = sent - Len(queue)
      BY <1>2, <2>6, <3>1 DEF Taken, DataInv, Accounted
    <3>3. writing = Len(delivered) + 1
      BY <1>2, <2>6, <3>2 DEF Taken, DataInv, FrontIsWritten
    <3>4. Len(delivered) < sent
      BY <1>2, <3>3 DEF TypeOK
    <3> QED
      BY <2>6, <3>3, <3>4 DEF Taken, Channel!Deliver
  <2>7. CASE Break
    BY <2>7 DEF Break, Channel!Break
  <2>8. CASE Failed
    BY <2>8 DEF Failed
  <2> QED
    BY <1>2, <2>1, <2>2, <2>3, <2>4, <2>5, <2>6, <2>7, <2>8 DEF Next, Step
<1> QED
  BY <1>1, <1>2, QueueTypeCorrect, ControlCorrect, DataCorrect, PTL DEF Spec
=============================================================================
