----------------------------- MODULE WriteQueue -----------------------------
(***************************************************************************)
(* The queue in front of a gRPC stream: response_queue_ of a connection    *)
(* (orderentrystreamconnection.cpp, writeToClient and                      *)
(* sendResponseFromQueue) and market_data_queue_ of the dispatcher         *)
(* (marketdatadispatcher.cpp, writeMarketData and writeToMDPlatform).  The *)
(* two are one algorithm: a stream takes one Write at a time, so a thread  *)
(* that finds a write in progress only queues its message, and the         *)
(* callback of that write starts the next one.                             *)
(*                                                                         *)
(* Any pool thread calls write, and any pool thread may run the callback.  *)
(* Each step between two accesses to shared state is an action of its own. *)
(***************************************************************************)
EXTENDS Integers, Sequences

CONSTANTS
  Thread,      \* the threads of the pool
  None,        \* no thread
  MaxMessages  \* bound: no call of write once this many are queued

ASSUME QueueAssumption == None \notin Thread /\ MaxMessages \in Nat

VARIABLES
  pc,                 \* where each thread is
  msg,                \* the message a thread is writing
  ok,                 \* the callback's argument, success
  mutex,              \* the thread that holds the queue's mutex, or None
  queue,              \* response_queue_ or market_data_queue_
  write_in_progress,  \* write_in_progress_
  sent,               \* messages queued so far; they are numbered in order
  stream,             \* the stream's Write: "free", "writing", "done", "failed"
  writing,            \* the message last handed to the stream
  delivered,          \* what the stream has taken, in order
  broken,             \* the stream has failed
  overlapped          \* a Write was started on a stream that was not free

wvars == <<pc, msg, ok, mutex, queue, write_in_progress, sent, stream, writing,
           delivered, broken, overlapped>>
network == <<stream, writing, delivered, broken, overlapped>>

(* What each thread does inside the mutex. *)
Inside == {"push", "start", "mark", "pop", "next"}
(* The callback of a Write, from its start to its last access. *)
Callback == {"finished", "pop", "next"}
-----------------------------------------------------------------------------
(***************************************************************************)
(* Slips: wrong variants of definitions below, used by no behaviour.       *)
(***************************************************************************)
EnterAnyway(t, from, to) == /\ pc[t] = from
                            /\ mutex' = t
                            /\ pc' = [pc EXCEPT ![t] = to]
StartsBehind(m) == /\ stream' = "writing"
                   /\ writing' = m + 1
                   /\ overlapped' = (overlapped \/ stream # "free")
                   /\ UNCHANGED <<delivered, broken>>
StopsAfterOne(t) == "clear"
StartLastQueued(t) ==
  /\ pc[t] = "next" /\ queue # << >> /\ ok[t]
  /\ stream' = "writing"
  /\ writing' = queue[Len(queue)]
  /\ overlapped' = (overlapped \/ stream # "free")
  /\ mutex' = None
  /\ pc' = [pc EXCEPT ![t] = "idle"]
  /\ UNCHANGED <<msg, ok, queue, write_in_progress, sent, delivered, broken>>
LeavesMark(t) == /\ pc[t] = "next" /\ (queue = << >> \/ ~ok[t])
                 /\ mutex' = None
                 /\ pc' = [pc EXCEPT ![t] = "idle"]
                 /\ UNCHANGED <<msg, ok, queue, write_in_progress, sent, network>>
MarkForgotten(t) == /\ pc[t] = "mark"
                    /\ mutex' = None
                    /\ pc' = [pc EXCEPT ![t] = "idle"]
                    /\ UNCHANGED <<msg, ok, queue, write_in_progress, sent, network>>
-----------------------------------------------------------------------------
Init == /\ pc = [t \in Thread |-> "idle"]
        /\ msg = [t \in Thread |-> 0]
        /\ ok = [t \in Thread |-> TRUE]
        /\ mutex = None
        /\ queue = << >>
        /\ write_in_progress = FALSE
        /\ sent = 0
        /\ stream = "free"
        /\ writing = 0
        /\ delivered = << >>
        /\ broken = FALSE
        /\ overlapped = FALSE

(* std::lock_guard: wait for the mutex. *)
Enter(t, from, to) == /\ pc[t] = from
                      /\ mutex = None
                      /\ mutex' = t
                      /\ pc' = [pc EXCEPT ![t] = to]

(* grpc_responder_.Write(m, callback). *)
StartWrite(m) == /\ stream' = "writing"
                 /\ writing' = m
                 /\ overlapped' = (overlapped \/ stream # "free")
                 /\ UNCHANGED <<delivered, broken>>
-----------------------------------------------------------------------------
(***************************************************************************)
(* writeToClient, writeMarketData.                                         *)
(***************************************************************************)
Write(t) == /\ pc[t] = "idle"
            /\ sent < MaxMessages
            /\ pc' = [pc EXCEPT ![t] = "write"]
            /\ UNCHANGED <<msg, ok, mutex, queue, write_in_progress, sent, network>>

LockWrite(t) == /\ Enter(t, "write", "push")
                /\ UNCHANGED <<msg, ok, queue, write_in_progress, sent, network>>

(* Queued: leave it to the callback if a write is in progress. *)
AfterPush(t) == IF write_in_progress THEN "idle" ELSE "start"

Push(t) == /\ pc[t] = "push"
           /\ sent' = sent + 1
           /\ msg' = [msg EXCEPT ![t] = sent + 1]
           /\ queue' = Append(queue, sent + 1)
           /\ pc' = [pc EXCEPT ![t] = AfterPush(t)]
           /\ mutex' = IF AfterPush(t) = "idle" THEN None ELSE t
           /\ UNCHANGED <<ok, write_in_progress, network>>

(* The response itself is written, not the front of the queue. *)
StartFirst(t) == /\ pc[t] = "start"
                 /\ StartWrite(msg[t])
                 /\ pc' = [pc EXCEPT ![t] = "mark"]
                 /\ UNCHANGED <<msg, ok, mutex, queue, write_in_progress, sent>>

MarkInProgress(t) == /\ pc[t] = "mark"
                     /\ write_in_progress' = TRUE
                     /\ mutex' = None
                     /\ pc' = [pc EXCEPT ![t] = "idle"]
                     /\ UNCHANGED <<msg, ok, queue, sent, network>>
-----------------------------------------------------------------------------
(***************************************************************************)
(* sendResponseFromQueue, writeToMDPlatform: the callback of a Write.      *)
(***************************************************************************)
Completed(t) == /\ pc[t] = "idle"
                /\ stream \in {"done", "failed"}
                /\ ok' = [ok EXCEPT ![t] = (stream = "done")]
                /\ stream' = "free"
                /\ pc' = [pc EXCEPT ![t] = "finished"]
                /\ UNCHANGED <<msg, mutex, queue, write_in_progress, sent,
                               writing, delivered, broken, overlapped>>

LockCallback(t) == /\ Enter(t, "finished", "pop")
                   /\ UNCHANGED <<msg, ok, queue, write_in_progress, sent, network>>

(* pop_front, undefined on an empty list: see PopsWhatWasWritten. *)
Pop(t) == /\ pc[t] = "pop"
          /\ queue' = IF queue = << >> THEN queue ELSE Tail(queue)
          /\ pc' = [pc EXCEPT ![t] = "next"]
          /\ UNCHANGED <<msg, ok, mutex, write_in_progress, sent, network>>

AfterPop(t) == IF queue = << >> \/ ~ok[t] THEN "clear" ELSE "next"

StartNext(t) == /\ pc[t] = "next" /\ AfterPop(t) = "next"
                /\ StartWrite(Head(queue))
                /\ mutex' = None
                /\ pc' = [pc EXCEPT ![t] = "idle"]
                /\ UNCHANGED <<msg, ok, queue, write_in_progress, sent>>

NothingToStart(t) == /\ pc[t] = "next" /\ AfterPop(t) = "clear"
                     /\ write_in_progress' = FALSE
                     /\ mutex' = None
                     /\ pc' = [pc EXCEPT ![t] = "idle"]
                     /\ UNCHANGED <<msg, ok, queue, sent, network>>
-----------------------------------------------------------------------------
(***************************************************************************)
(* The stream, as the code uses it: a Write completes with success while   *)
(* the stream is up and with failure once it is not, and it never comes up *)
(* again.                                                                  *)
(***************************************************************************)
Taken == /\ stream = "writing" /\ ~broken
         /\ delivered' = Append(delivered, writing)
         /\ stream' = "done"
         /\ UNCHANGED <<pc, msg, ok, mutex, queue, write_in_progress, sent,
                        writing, broken, overlapped>>

Break == /\ ~broken
         /\ broken' = TRUE
         /\ UNCHANGED <<pc, msg, ok, mutex, queue, write_in_progress, sent,
                        stream, writing, delivered, overlapped>>

Failed == /\ stream = "writing" /\ broken
          /\ stream' = "failed"
          /\ UNCHANGED <<pc, msg, ok, mutex, queue, write_in_progress, sent,
                         writing, delivered, broken, overlapped>>
-----------------------------------------------------------------------------
Step(t) == \/ LockWrite(t) \/ Push(t) \/ StartFirst(t) \/ MarkInProgress(t)
           \/ LockCallback(t) \/ Pop(t) \/ StartNext(t) \/ NothingToStart(t)

Next == \/ \E t \in Thread : Write(t) \/ Completed(t) \/ Step(t)
        \/ Taken \/ Break \/ Failed

Fairness == /\ \A t \in Thread : WF_wvars(Step(t))
            /\ WF_wvars(\E t \in Thread : Completed(t))
            /\ WF_wvars(Taken \/ Failed)

Spec == Init /\ [][Next]_wvars /\ Fairness
-----------------------------------------------------------------------------
(***************************************************************************)
(* Properties.                                                             *)
(***************************************************************************)
(* Only messages that were sent are queued and written.                    *)
TypeOK ==
  /\ sent \in Nat
  /\ pc \in [Thread -> {"idle", "write"} \cup Inside \cup Callback]
  /\ msg \in [Thread -> 0..sent]
  /\ ok \in [Thread -> BOOLEAN]
  /\ mutex \in Thread \cup {None}
  /\ queue \in Seq(1..sent)
  /\ write_in_progress \in BOOLEAN
  /\ stream \in {"free", "writing", "done", "failed"}
  /\ writing \in 0..sent
  /\ delivered \in Seq(Nat)
  /\ broken \in BOOLEAN
  /\ overlapped \in BOOLEAN

(* A stream takes one Write at a time: no thread starts one before the     *)
(* callback of the one before, whichever threads write and complete.       *)
NoOverlap == ~overlapped

(* When no thread is inside the mutex, write_in_progress says whether a    *)
(* Write is on its way or its callback still has to run.                   *)
InProgressIsExact ==
  mutex = None =>
    (write_in_progress <=> \/ stream # "free"
                           \/ \E t \in Thread : pc[t] \in Callback)

(* No message waits for a write that nobody will start.                    *)
QueuedWillBeWritten ==
  ~broken /\ queue # << >> =>
    \/ stream # "free"
    \/ \E t \in Thread : pc[t] \in {"start"} \cup Callback

(* The callback takes off the queue the message that was written; while    *)
(* the stream is up that is its front, and there always is one.            *)
PopsWhatWasWritten ==
  \A t \in Thread : pc[t] = "pop" =>
    queue # << >> /\ (ok[t] => Head(queue) = writing)

(* The queue and its stream are a FIFO channel, that loses nothing unless  *)
(* the stream breaks.                                                      *)
Channel == INSTANCE MessageChannel
ImplementsChannel == Channel!CSpec
=============================================================================
