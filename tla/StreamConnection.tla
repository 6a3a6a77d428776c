-------------------------- MODULE StreamConnection --------------------------
(***************************************************************************)
(* The order entry connections of the server                               *)
(* (orderentrystreamconnection.cpp) and the pool threads that run their    *)
(* callbacks (tradeserver.cpp).  A connection counts the asynchronous      *)
(* operations it has started; once its stream is cancelled and the count   *)
(* is 0 it deletes itself.  Its callbacks run on any thread of the pool,   *)
(* several of one connection at once, and no lock guards the count and the *)
(* flag together.                                                          *)
(*                                                                         *)
(* Each access to shared state is an action of its own, except that        *)
(* writeToClient is one: WriteQueue is about its inside.                   *)
(***************************************************************************)
EXTENDS Integers, FiniteSets

CONSTANTS
  Conn,         \* bound: the connections that can be made
  Thread,       \* the threads of the pool
  User,         \* user ids
  None,         \* no connection, no user id
  MaxRequests,  \* bound: requests received in all
  MaxMatches,   \* bound: matches of the order of one request
  Rejections,   \* how many rejections the book may answer a request with
  StoreBuffer,  \* a store of the flag may be late for other threads (x86)
  Memory        \* what the memory a connection is made in holds where its
                \* current_async_ops_ will be: a number modulo 2^64, those
                \* of the upper half written as negative numbers

ASSUME ConnectionAssumption == /\ None \notin Conn \cup User
                               /\ MaxRequests \in Nat /\ MaxMatches \in Nat
                               /\ Rejections \subseteq 1..3
                               /\ StoreBuffer \in BOOLEAN
                               /\ Memory \in [Conn -> Int]

VARIABLES
  conn,       \* the connections: see NewConnection
  streams,    \* client_streams_: user id to connection, or None
  thread,     \* pc: where it is; at: its connection; ok: the callback's
              \* success; user: the user id of the request; left: the
              \* responses that the book has still to send
  requests,   \* requests received
  undefined   \* freed or uninitialised memory was used

vars == <<conn, streams, thread, requests, undefined>>

(* Operations that are counted, by the callback that ends them.            *)
Operation == {"init", "verify", "read", "write"}

(* Neither userid_ nor current_async_ops_ has an initialiser: the count    *)
(* goes on from what the memory held when the accept is counted.           *)
NewConnection(c) ==
  [state |-> "alive", ops |-> Memory[c] + 1, on_streamcancelled_called |-> "no", userid |-> None,
   pending |-> {"init"}, queued |-> 0, write_in_progress |-> FALSE,
   peer |-> "none", leaked |-> 0]

Idle == [pc |-> "idle", at |-> None, ok |-> FALSE, user |-> None, left |-> 0]
-----------------------------------------------------------------------------
(***************************************************************************)
(* Slips: wrong variants of definitions below, used by no behaviour.       *)
(***************************************************************************)
QueuesOnlyWhenBusy(c) ==
  IF conn[c].write_in_progress THEN [conn EXCEPT ![c].queued = @ + 1]
  ELSE [conn EXCEPT ![c].ops = @ + 1, ![c].pending = @ \cup {"write"},
                    ![c].write_in_progress = TRUE]
EraseNone(c) == {streams}
NotLastAtCancel(t) ==
  LET c == thread[t].at IN
  /\ thread[t].pc = "cancel_check" /\ conn[c].state = "alive"
  /\ thread' = [thread EXCEPT ![t].pc = "cancel_return"]
  /\ UNCHANGED <<conn, streams, requests, undefined>>
IgnoresCount(c) == conn[c].on_streamcancelled_called = "yes"
CountsEveryResponse(c) ==
  [conn EXCEPT ![c].ops = @ + 1, ![c].pending = @ \cup {"write"},
               ![c].queued = @ + 1, ![c].write_in_progress = TRUE]
ReadsAfterWriting(t) ==
  LET c == thread[t].at IN
  /\ thread[t].pc = "next_write" /\ conn[c].state = "alive"
  /\ conn' = [conn EXCEPT ![c].queued = @ - 1, ![c].write_in_progress = FALSE]
  /\ thread' = [thread EXCEPT ![t].pc = "start_read"]
  /\ UNCHANGED <<streams, requests, undefined>>
-----------------------------------------------------------------------------
Init == /\ \E c \in Conn :
             conn = [d \in Conn |-> IF d = c THEN NewConnection(d)
                                    ELSE [NewConnection(d) EXCEPT !.state = "unborn"]]
        /\ streams = [u \in User |-> None]
        /\ thread = [t \in Thread |-> Idle]
        /\ requests = 0
        /\ undefined = FALSE

At(t, p) == thread[t].pc = p /\ conn[thread[t].at].state = "alive"

Goto(t, p) == thread' = IF p = "idle" THEN [thread EXCEPT ![t] = Idle]
                                      ELSE [thread EXCEPT ![t].pc = p]

(* The same, with n responses of the book left to send.                    *)
GotoWith(t, p, n) == thread' = [thread EXCEPT ![t].pc = p, ![t].left = n]

(* asyncOpStarted, and the operation.                                      *)
Started(c, op) == [conn EXCEPT ![c].ops = @ + 1, ![c].pending = @ \cup {op}]

(* writeToClient: queue a response, and write it if no write is under way. *)
WriteToClient(c) ==
  LET k == IF conn[c].write_in_progress THEN conn ELSE Started(c, "write")
  IN  [k EXCEPT ![c].queued = @ + 1, ![c].write_in_progress = TRUE]

(* client_streams_.erase(userid_).  A connection that was refused has no   *)
(* userid_: what it erases is left to what its memory held.                *)
Erased(c) ==
  LET without(u) == [streams EXCEPT ![u] = None]
  IN  IF conn[c].userid # None THEN {without(conn[c].userid)}
      ELSE {streams} \cup {without(u) : u \in User}

TerminateConnection(c) == /\ conn' = [conn EXCEPT ![c].state = "deleted"]
                          /\ streams' \in Erased(c)
-----------------------------------------------------------------------------
(***************************************************************************)
(* asyncOpFinished, and what its caller goes on to do.                     *)
(***************************************************************************)
CheckAfter == [init_dec |-> "init_check", dup_dec |-> "dup_check",
               read_dec |-> "read_check", write_dec |-> "write_check"]

AfterCheck(p, ok) == CASE p = "init_check"  -> IF ok THEN "start_verify" ELSE "idle"
                       [] p = "dup_check"   -> "dup_flag"
                       [] p = "read_check"  -> IF ok THEN "process" ELSE "idle"
                       [] p = "write_check" -> "next_write"

Decrement(t) == /\ thread[t].pc \in DOMAIN CheckAfter
                /\ At(t, thread[t].pc)
                /\ conn' = [conn EXCEPT ![thread[t].at].ops = @ - 1]
                /\ Goto(t, CheckAfter[thread[t].pc])
                /\ UNCHANGED <<streams, requests, undefined>>

LastOperation(c) == conn[c].on_streamcancelled_called = "yes" /\ conn[c].ops = 0

Checking(t) == \E p \in DOMAIN CheckAfter : At(t, CheckAfter[p])

(* The caller goes on whether or not the connection was deleted.           *)
Check(t) == LET c == thread[t].at IN
            /\ Checking(t)
            /\ IF LastOperation(c) THEN TerminateConnection(c)
                                   ELSE UNCHANGED <<conn, streams>>
            /\ Goto(t, AfterCheck(thread[t].pc, thread[t].ok))
            /\ UNCHANGED <<requests, undefined>>
-----------------------------------------------------------------------------
(***************************************************************************)
(* initialiseOEConn.                                                       *)
(***************************************************************************)
(* makeNewOrderEntryConnection: the next client gets another connection.   *)
Create(t) == /\ At(t, "create")
             /\ \E d \in Conn : /\ conn[d].state = "unborn"
                                /\ conn' = [conn EXCEPT ![d].state = "alive"]
             /\ Goto(t, "init_dec")
             /\ UNCHANGED <<streams, requests, undefined>>

StartVerify(t) == /\ At(t, "start_verify")
                  /\ conn' = Started(thread[t].at, "verify")
                  /\ Goto(t, "idle")
                  /\ UNCHANGED <<streams, requests, undefined>>
-----------------------------------------------------------------------------
(***************************************************************************)
(* verifyID.                                                               *)
(***************************************************************************)
(* The first Read failed: the request has no type, and common is never set.*)
NoRequest(t) == /\ At(t, "verify") /\ ~thread[t].ok
                /\ undefined' = TRUE
                /\ UNCHANGED <<conn, streams, thread, requests>>

FindUser(t) == /\ At(t, "verify") /\ thread[t].ok
               /\ Goto(t, IF streams[thread[t].user] # None THEN "dup_dec" ELSE "claim")
               /\ UNCHANGED <<conn, streams, requests, undefined>>

(* client_streams_.emplace leaves an entry that is there by now as it is.  *)
Claim(t) == LET u == thread[t].user IN
            /\ At(t, "claim")
            /\ streams' = IF streams[u] = None THEN [streams EXCEPT ![u] = thread[t].at]
                                               ELSE streams
            /\ Goto(t, "claimed")
            /\ UNCHANGED <<conn, requests, undefined>>

(* userid_ is set once the map can be seen to have the connection.         *)
SetUser(t) == /\ At(t, "claimed")
              /\ conn' = [conn EXCEPT ![thread[t].at].userid = thread[t].user]
              /\ Goto(t, "read_dec")
              /\ UNCHANGED <<streams, requests, undefined>>

FlagRefused(t) == /\ At(t, "dup_flag")
                  /\ conn' = [conn EXCEPT ![thread[t].at].on_streamcancelled_called = "yes"]
                  /\ Goto(t, "dup_write")
                  /\ UNCHANGED <<streams, requests, undefined>>

WriteRefused(t) == /\ At(t, "dup_write")
                   /\ conn' = WriteToClient(thread[t].at)
                   /\ Goto(t, "idle")
                   /\ UNCHANGED <<streams, requests, undefined>>
-----------------------------------------------------------------------------
(***************************************************************************)
(* readOrderEntryCallback: processEntry, then the next Read.               *)
(***************************************************************************)
(* userIDUsageRejection: refused, but the connection goes on reading.      *)
WrongUser(t) ==
  LET c == thread[t].at IN
  /\ At(t, "process") /\ thread[t].user # conn[c].userid
  /\ conn' = [conn EXCEPT ![c].on_streamcancelled_called = "yes"]
  /\ Goto(t, "wrong_write")
  /\ UNCHANGED <<streams, requests, undefined>>

WriteWrongUser(t) == /\ At(t, "wrong_write")
                     /\ conn' = WriteToClient(thread[t].at)
                     /\ Goto(t, "start_read")
                     /\ UNCHANGED <<streams, requests, undefined>>

Acknowledge(t) ==
  LET c == thread[t].at IN
  /\ At(t, "process") /\ thread[t].user = conn[c].userid
  /\ conn' = WriteToClient(c)
  /\ Goto(t, "book")
  /\ UNCHANGED <<streams, requests, undefined>>

(* communicateMatchResults: the two fills of each match go to the          *)
(* connection of the order that came in.                                   *)
BookAccepts(t) == /\ At(t, "book")
                  /\ \E k \in 0..MaxMatches : GotoWith(t, "fills", 2 * k)
                  /\ UNCHANGED <<conn, streams, requests, undefined>>

FillResponse(t) == /\ At(t, "fills") /\ thread[t].left > 0
                   /\ conn' = WriteToClient(thread[t].at)
                   /\ GotoWith(t, "fills", thread[t].left - 1)
                   /\ UNCHANGED <<streams, requests, undefined>>

(* processModifyError sends a rejection for each of three errors.          *)
BookRefuses(t) == /\ At(t, "book")
                  /\ \E n \in Rejections : GotoWith(t, "reject", n)
                  /\ UNCHANGED <<conn, streams, requests, undefined>>

(* sendRejection counts an operation that nothing will finish.             *)
SendRejection(t) ==
  LET c == thread[t].at IN
  /\ At(t, "reject") /\ thread[t].left > 0
  /\ conn' = [conn EXCEPT ![c].ops = @ + 1, ![c].leaked = @ + 1]
  /\ GotoWith(t, "reject_write", thread[t].left - 1)
  /\ UNCHANGED <<streams, requests, undefined>>

WriteRejection(t) == /\ At(t, "reject_write")
                     /\ conn' = WriteToClient(thread[t].at)
                     /\ Goto(t, "reject")
                     /\ UNCHANGED <<streams, requests, undefined>>

BookReturns(t) == /\ At(t, "fills") \/ At(t, "reject")
                  /\ thread[t].left = 0
                  /\ Goto(t, "start_read")
                  /\ UNCHANGED <<conn, streams, requests, undefined>>

StartRead(t) == /\ At(t, "start_read")
                /\ conn' = Started(thread[t].at, "read")
                /\ Goto(t, "idle")
                /\ UNCHANGED <<streams, requests, undefined>>
-----------------------------------------------------------------------------
(***************************************************************************)
(* sendResponseFromQueue, after asyncOpFinished.                           *)
(***************************************************************************)
NextWrite(t) ==
  LET c == thread[t].at
      more == conn[c].queued > 1 /\ thread[t].ok
      k == IF more THEN Started(c, "write") ELSE conn
  IN  /\ At(t, "next_write")
      /\ conn' = [k EXCEPT ![c].queued = @ - 1, ![c].write_in_progress = more]
      /\ Goto(t, "idle")
      /\ UNCHANGED <<streams, requests, undefined>>
-----------------------------------------------------------------------------
(***************************************************************************)
(* onStreamCancelled.  The flag is a plain bool, and the store of it may   *)
(* still be in the thread's store buffer when the thread reads the count.  *)
(***************************************************************************)
FlagCancelled(t) ==
  LET c == thread[t].at IN
  /\ At(t, "cancel")
  /\ conn' = [conn EXCEPT ![c].on_streamcancelled_called =
                IF StoreBuffer /\ @ = "no" THEN "buffered" ELSE "yes"]
  /\ Goto(t, "cancel_check")
  /\ UNCHANGED <<streams, requests, undefined>>

CheckCancelled(t) ==
  LET c == thread[t].at IN
  /\ At(t, "cancel_check")
  /\ IF conn[c].ops = 0 THEN TerminateConnection(c) /\ Goto(t, "idle")
     ELSE UNCHANGED <<conn, streams>> /\ Goto(t, "cancel_return")
  /\ UNCHANGED <<requests, undefined>>

FlagSeen(t) == LET c == thread[t].at IN
               /\ At(t, "cancel_check") \/ At(t, "cancel_return")
               /\ conn[c].on_streamcancelled_called = "buffered"
               /\ conn' = [conn EXCEPT ![c].on_streamcancelled_called = "yes"]
               /\ UNCHANGED <<streams, thread, requests, undefined>>

ReturnCancelled(t) == LET c == thread[t].at IN
                      /\ thread[t].pc = "cancel_return"
                      /\ conn[c].on_streamcancelled_called = "yes" \/ conn[c].state # "alive"
                      /\ Goto(t, "idle")
                      /\ UNCHANGED <<conn, streams, requests, undefined>>
-----------------------------------------------------------------------------
(* The thread's next step is on a connection that has been deleted.        *)
UseAfterDelete(t) == /\ thread[t].pc \notin {"idle", "cancel_return"}
                     /\ conn[thread[t].at].state = "deleted"
                     /\ undefined' = TRUE
                     /\ UNCHANGED <<conn, streams, thread, requests>>

Step(t) == \/ Decrement(t) \/ Check(t) \/ Create(t) \/ StartVerify(t) \/ NoRequest(t)
           \/ FindUser(t) \/ Claim(t) \/ SetUser(t) \/ FlagRefused(t) \/ WriteRefused(t)
           \/ WrongUser(t) \/ WriteWrongUser(t) \/ Acknowledge(t)
           \/ BookAccepts(t) \/ FillResponse(t) \/ BookRefuses(t) \/ SendRejection(t)
           \/ WriteRejection(t) \/ BookReturns(t) \/ StartRead(t) \/ NextWrite(t)
           \/ FlagCancelled(t) \/ CheckCancelled(t) \/ FlagSeen(t) \/ ReturnCancelled(t)
           \/ UseAfterDelete(t)
-----------------------------------------------------------------------------
(***************************************************************************)
(* Completions: an idle thread takes a tag off the completion queue and    *)
(* calls it.  An operation succeeds while the client is there and fails    *)
(* when it has gone; the notification of AsyncNotifyWhenDone comes when it *)
(* has gone or the server dropped the stream.                              *)
(***************************************************************************)
Callback == [init |-> "create", verify |-> "verify", read |-> "read_dec",
             write |-> "write_dec", cancel |-> "cancel"]

Run(t, c, op, ok, u) ==
  /\ thread[t].pc = "idle" /\ op \in conn[c].pending
  /\ thread' = [thread EXCEPT ![t] = [pc |-> Callback[op], at |-> c, ok |-> ok, user |-> u,
                                      left |-> 0]]

Taken(c, op) == [conn EXCEPT ![c].pending = @ \ {op}]

(* Bound: as long as there is a connection left to make for the next one. *)
Connect(t, c) == /\ conn[c].state = "alive" /\ \E d \in Conn : conn[d].state = "unborn"
                 /\ Run(t, c, "init", TRUE, None)
                 /\ conn' = [Taken(c, "init") EXCEPT ![c].peer = "connected",
                                                     ![c].pending = @ \cup {"cancel"}]
                 /\ UNCHANGED <<streams, requests, undefined>>

Request(t, c, op, u) == /\ op \in {"verify", "read"}
                        /\ conn[c].peer = "connected" /\ requests < MaxRequests
                        /\ Run(t, c, op, TRUE, u)
                        /\ conn' = Taken(c, op)
                        /\ requests' = requests + 1
                        /\ UNCHANGED <<streams, undefined>>

ReadFails(t, c, op) == /\ op \in {"verify", "read"}
                       /\ conn[c].peer = "gone"
                       /\ Run(t, c, op, FALSE, None)
                       /\ conn' = Taken(c, op)
                       /\ UNCHANGED <<streams, requests, undefined>>

Written(t, c) == /\ Run(t, c, "write", conn[c].peer = "connected", None)
                 /\ conn' = Taken(c, "write")
                 /\ UNCHANGED <<streams, requests, undefined>>

Cancelled(t, c) == /\ conn[c].peer = "gone" \/ conn[c].state = "deleted"
                   /\ Run(t, c, "cancel", TRUE, None)
                   /\ conn' = Taken(c, "cancel")
                   /\ UNCHANGED <<streams, requests, undefined>>

ClientLeaves(c) == /\ conn[c].peer = "connected"
                   /\ conn' = [conn EXCEPT ![c].peer = "gone"]
                   /\ UNCHANGED <<streams, thread, requests, undefined>>

Completion(t, c) == \/ Connect(t, c)
                    \/ \E op \in {"verify", "read"}, u \in User : Request(t, c, op, u)
                    \/ \E op \in {"verify", "read"} : ReadFails(t, c, op)
                    \/ Written(t, c)
                    \/ Cancelled(t, c)

Next == /\ ~undefined
        /\ \/ \E t \in Thread : Step(t)
           \/ \E t \in Thread, c \in Conn : Completion(t, c)
           \/ \E c \in Conn : ClientLeaves(c)

Fairness ==
  /\ \A t \in Thread : WF_vars(~undefined /\ Step(t))
  /\ \A c \in Conn :
       /\ WF_vars(~undefined /\ \E t \in Thread, op \in {"verify", "read"} : ReadFails(t, c, op))
       /\ WF_vars(~undefined /\ \E t \in Thread : Written(t, c))
       /\ WF_vars(~undefined /\ \E t \in Thread : Cancelled(t, c))

Spec == Init /\ [][Next]_vars /\ Fairness
-----------------------------------------------------------------------------
(***************************************************************************)
(* Properties, of executions up to the first undefined behaviour.          *)
(***************************************************************************)
Program == {"idle", "create", "init_dec", "init_check", "start_verify", "verify", "claim",
            "claimed", "dup_dec", "dup_check", "dup_flag", "dup_write", "read_dec",
            "read_check", "process", "wrong_write", "book", "fills", "reject",
            "reject_write", "start_read", "write_dec", "write_check", "next_write",
            "cancel", "cancel_check", "cancel_return"}

TypeOK ==
  /\ conn \in [Conn -> [state : {"unborn", "alive", "deleted"}, ops : Int,
                        on_streamcancelled_called : {"no", "buffered", "yes"},
                        userid : User \cup {None}, pending : SUBSET (Operation \cup {"cancel"}),
                        queued : Nat, write_in_progress : BOOLEAN,
                        peer : {"none", "connected", "gone"}, leaked : Nat]]
  /\ streams \in [User -> Conn \cup {None}]
  /\ thread \in [Thread -> [pc : Program, at : Conn \cup {None}, ok : BOOLEAN,
                            user : User \cup {None}, left : Nat]]
  /\ requests \in Nat
  /\ undefined \in BOOLEAN

(* Threads that run a callback of c and have not yet counted it finished.  *)
Uncounted(c) == {t \in Thread : /\ thread[t].at = c
                                /\ thread[t].pc \in {"create", "init_dec", "verify", "claim",
                                                     "claimed", "dup_dec", "read_dec",
                                                     "write_dec"}}

(* current_async_ops_ is what the memory held and the number of operations *)
(* outstanding, whatever callbacks run at once, but for those that         *)
(* sendRejection counts: no update of it is lost, doubled or forgotten.    *)
OperationsCounted ==
  \A c \in Conn : conn[c].state # "unborn" =>
    conn[c].ops = Memory[c] + Cardinality(conn[c].pending \cap Operation)
                  + Cardinality(Uncounted(c)) + conn[c].leaked

(* No Read or Write completes on a connection that has been deleted, as    *)
(* long as its count did not start below 0.                                *)
NoOperationOutlivesConnection ==
  \A c \in Conn : conn[c].state = "deleted" /\ Memory[c] >= 0 =>
    conn[c].pending \cap Operation = {}

(* A thread has put c under u in client_streams_ and not yet set userid_.  *)
Claiming(c, u) == \E t \in Thread :
  thread[t].pc = "claimed" /\ thread[t].at = c /\ thread[t].user = u

(* client_streams_ holds no dangling pointer, which shutdown would follow, *)
(* even when two connections raced for one user id; but between emplace    *)
(* and userid_, where deleting it would leave its entry, a connection      *)
(* stays alive only if its count did not start below 0.                    *)
RegisteredIsAlive ==
  \A u \in User : LET c == streams[u] IN
    c # None => \/ conn[c].state = "alive" /\ conn[c].userid = u
                \/ Claiming(c, u) /\ (Memory[c] >= 0 => conn[c].state = "alive")

(* A stream has one Read outstanding at most: a callback that starts one   *)
(* is the only one that could.                                             *)
OneReader ==
  \A c \in Conn :
    Cardinality(conn[c].pending \cap {"init", "verify", "read"})
    + Cardinality({t \in Thread : thread[t].at = c
        /\ thread[t].pc \in {"create", "init_dec", "init_check", "start_verify", "verify",
                             "claim", "claimed", "read_dec", "read_check", "process",
                             "wrong_write", "book", "fills", "reject", "reject_write",
                             "start_read"}}) <= 1

(* A connection whose client has gone is deleted, if its count started at  *)
(* 0; from anything above 0 it is never deleted.                           *)
GoneIsDeleted == \A c \in Conn :
  conn[c].peer = "gone" /\ Memory[c] = 0 ~> conn[c].state = "deleted" \/ undefined
=============================================================================
