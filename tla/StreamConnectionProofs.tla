----------------------- MODULE StreamConnectionProofs -----------------------
(***************************************************************************)
(* Theorems about StreamConnection, for any number of connections, pool    *)
(* threads, users, requests, matches and rejections, whether or not stores *)
(* are buffered, and whatever the memory of the connections held.          *)
(***************************************************************************)
EXTENDS StreamConnection, FiniteSetTheorems, TLAPS

(***************************************************************************)
(* Where a thread that runs a callback of a connection can be.             *)
(***************************************************************************)
(* In the chain of callbacks from the accept to the next Read, in which    *)
(* each callback starts the operation whose callback comes next.           *)
Serial == {"create", "init_dec", "init_check", "start_verify", "verify", "claim",
           "claimed", "dup_dec", "dup_check", "dup_flag", "dup_write",
           "read_dec", "read_check", "process", "wrong_write", "book", "fills", "reject",
           "reject_write", "start_read"}

Unclaimed == {"create", "init_dec", "init_check", "start_verify", "verify", "claim",
              "claimed"}

Unfinished == {"create", "init_dec", "verify", "claim", "claimed", "dup_dec", "read_dec",
               "write_dec"}

Writing == {"write_dec", "write_check", "next_write"}

Within(c, K) == {t \in Thread : thread[t].at = c /\ thread[t].pc \in K}

Reads == {"init", "verify", "read"}
-----------------------------------------------------------------------------
(***************************************************************************)
(* The inductive invariant, of each connection on its own.                 *)
(***************************************************************************)
OneChain(c) == /\ \A s, t \in Within(c, Serial) : s = t
               /\ Within(c, Serial) # {} => conn[c].pending \cap Reads = {}
               /\ \A a, b \in conn[c].pending \cap Reads : a = b

OneWriter(c) == /\ \A s, t \in Within(c, Writing) : s = t
                /\ Within(c, Writing) # {} => "write" \notin conn[c].pending
                /\ conn[c].write_in_progress <=>
                     "write" \in conn[c].pending \/ Within(c, Writing) # {}
                /\ conn[c].write_in_progress => conn[c].queued > 0

Counted(c) == /\ IsFiniteSet(Within(c, Unfinished))
              /\ conn[c].ops = Memory[c] + Cardinality(conn[c].pending \cap Operation)
                               + Cardinality(Within(c, Unfinished)) + conn[c].leaked

(* With a count from 0 nothing is left when it is deleted, with a count    *)
(* from above 0 it is not deleted.                                         *)
Drained(c) == conn[c].state = "deleted" =>
                /\ Memory[c] >= 0 => conn[c].pending \cap Operation = {}
                /\ ~(Memory[c] > 0)

NoUserYet(c) == Within(c, Unclaimed) # {} \/ {"init", "verify"} \cap conn[c].pending # {}
                  => conn[c].userid = None

Local(c) == OneChain(c) /\ OneWriter(c) /\ Counted(c) /\ Drained(c) /\ NoUserYet(c)

Placed == \A t \in Thread : IF thread[t].pc = "idle" THEN thread[t].at = None
                                                     ELSE thread[t].at \in Conn

ConnInv == TypeOK /\ Placed /\ RegisteredIsAlive /\ \A c \in Conn : Local(c)
-----------------------------------------------------------------------------
(***************************************************************************)
(* Counting.                                                               *)
(***************************************************************************)
(* The operations outstanding of a connection can be counted.              *)
LEMMA OperationsFinite == \A P : IsFiniteSet(P \cap Operation)
<1>1. IsFiniteSet(Operation)
  <2>1. IsFiniteSet({})
    BY FS_EmptySet
  <2>2. IsFiniteSet({} \cup {"init"})
    BY <2>1, FS_AddElement
  <2>3. IsFiniteSet({} \cup {"init"} \cup {"verify"})
    BY <2>2, FS_AddElement
  <2>4. IsFiniteSet({} \cup {"init"} \cup {"verify"} \cup {"read"})
    BY <2>3, FS_AddElement
  <2>5. IsFiniteSet({} \cup {"init"} \cup {"verify"} \cup {"read"} \cup {"write"})
    BY <2>4, FS_AddElement
  <2>6. Operation = {} \cup {"init"} \cup {"verify"} \cup {"read"} \cup {"write"}
    BY DEF Operation
  <2> QED
    BY <2>5, <2>6
<1> QED
  BY <1>1, FS_Intersection

(* Counting an element that is new.                                        *)
LEMMA OneMore == ASSUME NEW S, IsFiniteSet(S), NEW x, x \notin S
                 PROVE  /\ IsFiniteSet(S \cup {x})
                        /\ Cardinality(S) \in Nat
                        /\ Cardinality(S \cup {x}) = Cardinality(S) + 1
  BY FS_AddElement, FS_CardinalityType

(* Counting out an element that was there.                                 *)
LEMMA OneLess == ASSUME NEW S, IsFiniteSet(S), NEW x \in S
                 PROVE  /\ IsFiniteSet(S \ {x})
                        /\ Cardinality(S) \in Nat /\ Cardinality(S) > 0
                        /\ Cardinality(S \ {x}) = Cardinality(S) - 1
<1>1. IsFiniteSet(S \ {x}) /\ Cardinality(S \ {x}) = Cardinality(S) - 1
  BY FS_RemoveElement
<1>2. Cardinality(S) \in Nat /\ Cardinality(S \ {x}) \in Nat
  BY <1>1, FS_CardinalityType
<1> QED
  BY <1>1, <1>2
-----------------------------------------------------------------------------
(***************************************************************************)
(* What a step can do to one connection, and that it keeps Local.          *)
(***************************************************************************)
SameCount(c) == /\ conn'[c].ops = conn[c].ops /\ conn'[c].leaked = conn[c].leaked
                /\ conn'[c].pending \cap Operation = conn[c].pending \cap Operation
                /\ Within(c, Unfinished)' = Within(c, Unfinished)

SameWriter(c) == /\ conn'[c].write_in_progress = conn[c].write_in_progress
                 /\ conn'[c].queued = conn[c].queued
                 /\ Within(c, Writing)' = Within(c, Writing)

SameChain(c) == /\ Within(c, Serial)' \subseteq Within(c, Serial)
                /\ Within(c, Unclaimed)' \subseteq Within(c, Unclaimed)

SameState(c) == conn'[c].state = "deleted" => conn[c].state = "deleted"

(* A step that changes neither the count, nor the writer, nor the chain.   *)
LEMMA KeptByQuietStep ==
  ASSUME NEW c \in Conn, Local(c), SameCount(c), SameWriter(c), SameChain(c),
         SameState(c), conn'[c].userid = conn[c].userid
  PROVE  Local(c)'
<1>1. /\ conn'[c].pending \cap Reads = conn[c].pending \cap Reads
      /\ "write" \in conn'[c].pending <=> "write" \in conn[c].pending
      /\ {"init", "verify"} \cap conn'[c].pending = {"init", "verify"} \cap conn[c].pending
  <2>1. conn'[c].pending \cap Operation = conn[c].pending \cap Operation
    BY DEF SameCount
  <2> QED
    BY <2>1 DEF Operation, Reads
<1>2. OneChain(c)'
  BY <1>1 DEF Local, OneChain, SameChain
<1>3. OneWriter(c)'
  BY <1>1 DEF Local, OneWriter, SameWriter
<1>4. Counted(c)'
  BY DEF Local, Counted, SameCount
<1>5. Drained(c)'
  BY DEF Local, Drained, SameCount, SameState
<1>6. NoUserYet(c)'
  BY <1>1 DEF Local, NoUserYet, SameChain
<1> QED
  BY <1>2, <1>3, <1>4, <1>5, <1>6 DEF Local

(* asyncOpStarted counts an operation that was not outstanding.            *)
LEMMA CountedStart ==
  ASSUME TypeOK, NEW c \in Conn, Counted(c), NEW op \in Operation, op \notin conn[c].pending,
         conn'[c].pending = conn[c].pending \cup {op}, conn'[c].ops = conn[c].ops + 1,
         conn'[c].leaked = conn[c].leaked, Within(c, Unfinished)' = Within(c, Unfinished)
  PROVE  Counted(c)'
<1> DEFINE P == conn[c].pending \cap Operation
           U == Within(c, Unfinished)
<1>1. conn'[c].pending \cap Operation = P \cup {op} /\ op \notin P
  OBVIOUS
<1>2. IsFiniteSet(P)
  BY OperationsFinite
<1>3. Cardinality(P) \in Nat /\ Cardinality(P \cup {op}) = Cardinality(P) + 1
  BY <1>1, <1>2, OneMore
<1>4. Cardinality(U) \in Nat /\ conn[c].leaked \in Nat /\ Memory[c] \in Int
  BY FS_CardinalityType, ConnectionAssumption DEF Counted, TypeOK
<1>5. conn[c].ops = Memory[c] + Cardinality(P) + Cardinality(U) + conn[c].leaked /\ IsFiniteSet(U)
  BY DEF Counted
<1> HIDE DEF P, U
<1>6. conn'[c].ops = Memory[c] + Cardinality(P \cup {op}) + Cardinality(U) + conn[c].leaked
  BY <1>3, <1>4, <1>5
<1> QED
  BY <1>1, <1>5, <1>6 DEF Counted, U

(* A completion that a thread takes is counted until its callback ends.    *)
LEMMA CountedTake ==
  ASSUME TypeOK, NEW c \in Conn, Counted(c), NEW op \in Operation, op \in conn[c].pending,
         NEW t \in Thread, t \notin Within(c, Unfinished),
         conn'[c].pending \cap Operation = (conn[c].pending \cap Operation) \ {op},
         conn'[c].ops = conn[c].ops, conn'[c].leaked = conn[c].leaked,
         Within(c, Unfinished)' = Within(c, Unfinished) \cup {t}
  PROVE  Counted(c)'
<1> DEFINE P == conn[c].pending \cap Operation
           U == Within(c, Unfinished)
<1>1. op \in P /\ t \notin U
  OBVIOUS
<1>2. IsFiniteSet(P)
  BY OperationsFinite
<1>3. conn[c].ops = Memory[c] + Cardinality(P) + Cardinality(U) + conn[c].leaked /\ IsFiniteSet(U)
  BY DEF Counted
<1>4. conn[c].leaked \in Nat /\ Memory[c] \in Int
  BY ConnectionAssumption DEF TypeOK
<1> HIDE DEF P, U
<1>5. Cardinality(P) \in Nat /\ Cardinality(P \ {op}) = Cardinality(P) - 1
  BY <1>1, <1>2, OneLess
<1>6. /\ Cardinality(U) \in Nat /\ Cardinality(U \cup {t}) = Cardinality(U) + 1
      /\ IsFiniteSet(U \cup {t})
  BY <1>1, <1>3, OneMore
<1>7. conn[c].ops = Memory[c] + Cardinality(P \ {op}) + Cardinality(U \cup {t}) + conn[c].leaked
  BY <1>3, <1>4, <1>5, <1>6
<1> QED
  BY <1>6, <1>7 DEF Counted, P, U

(* asyncOpFinished: there was one to count.                                *)
LEMMA CountedFinish ==
  ASSUME TypeOK, NEW c \in Conn, Counted(c), NEW t \in Within(c, Unfinished),
         conn'[c].pending = conn[c].pending,
         conn'[c].ops = conn[c].ops - 1, conn'[c].leaked = conn[c].leaked,
         Within(c, Unfinished)' = Within(c, Unfinished) \ {t}
  PROVE  Counted(c)' /\ conn'[c].ops \in Int
<1> DEFINE P == conn[c].pending \cap Operation
           U == Within(c, Unfinished)
<1>1. t \in U
  OBVIOUS
<1>2. Cardinality(P) \in Nat
  BY OperationsFinite, FS_CardinalityType
<1>3. conn[c].ops = Memory[c] + Cardinality(P) + Cardinality(U) + conn[c].leaked /\ IsFiniteSet(U)
  BY DEF Counted
<1>4. conn[c].leaked \in Nat /\ Memory[c] \in Int
  BY ConnectionAssumption DEF TypeOK
<1> HIDE DEF P, U
<1>5. /\ Cardinality(U) \in Nat /\ Cardinality(U) > 0
      /\ Cardinality(U \ {t}) = Cardinality(U) - 1
      /\ IsFiniteSet(U \ {t})
  BY <1>1, <1>3, OneLess
<1>6. /\ conn[c].ops - 1 = Memory[c] + Cardinality(P) + Cardinality(U \ {t}) + conn[c].leaked
      /\ conn[c].ops - 1 \in Int
  BY <1>2, <1>3, <1>4, <1>5
<1> QED
  BY <1>5, <1>6 DEF Counted, P, U

(* The operation that sendRejection counts and nobody finishes.            *)
LEMMA CountedLeak ==
  ASSUME TypeOK, NEW c \in Conn, Counted(c), conn'[c].pending = conn[c].pending,
         conn'[c].ops = conn[c].ops + 1, conn'[c].leaked = conn[c].leaked + 1,
         Within(c, Unfinished)' = Within(c, Unfinished)
  PROVE  Counted(c)'
<1> DEFINE P == conn[c].pending \cap Operation
           U == Within(c, Unfinished)
<1>1. Cardinality(P) \in Nat
  BY OperationsFinite, FS_CardinalityType
<1>2. Cardinality(U) \in Nat /\ conn[c].leaked \in Nat /\ Memory[c] \in Int
  BY FS_CardinalityType, ConnectionAssumption DEF Counted, TypeOK
<1>3. conn[c].ops = Memory[c] + Cardinality(P) + Cardinality(U) + conn[c].leaked /\ IsFiniteSet(U)
  BY DEF Counted
<1> HIDE DEF P, U
<1>4. conn[c].ops + 1 = Memory[c] + Cardinality(P) + Cardinality(U) + (conn[c].leaked + 1)
  BY <1>1, <1>2, <1>3
<1> QED
  BY <1>3, <1>4 DEF Counted, P, U

(* A count of 0 that did not start below 0 started at 0, and means that    *)
(* nothing is outstanding.                                                 *)
LEMMA NoneOutstanding ==
  ASSUME TypeOK, NEW c \in Conn, Counted(c), conn[c].ops = 0, Memory[c] >= 0
  PROVE  /\ conn[c].pending \cap Operation = {} /\ Within(c, Unfinished) = {}
         /\ ~(Memory[c] > 0)
<1> DEFINE P == conn[c].pending \cap Operation
           U == Within(c, Unfinished)
           m == Memory[c]
<1>1. IsFiniteSet(P) /\ IsFiniteSet(U)
  BY OperationsFinite DEF Counted
<1>2. /\ 0 = m + Cardinality(P) + Cardinality(U) + conn[c].leaked
      /\ conn[c].leaked \in Nat /\ m \in Int /\ m >= 0
  BY ConnectionAssumption DEF Counted, TypeOK
<1> HIDE DEF P, U, m
<1>3. Cardinality(P) = 0 /\ Cardinality(U) = 0 /\ m = 0
  BY <1>1, <1>2, FS_CardinalityType
<1>4. P = {} /\ U = {}
  BY <1>1, <1>3, FS_EmptySet
<1> QED
  BY <1>3, <1>4 DEF P, U, m

(* The chain starts its next operation.                                    *)
LEMMA KeptByStart ==
  ASSUME TypeOK, NEW c \in Conn, Local(c), NEW op \in {"verify", "read"},
         NEW t \in Within(c, Serial), op = "verify" => t \in Within(c, Unclaimed),
         Within(c, Serial)' = Within(c, Serial) \ {t},
         Within(c, Unclaimed)' \subseteq Within(c, Unclaimed),
         Within(c, Unfinished)' = Within(c, Unfinished),
         SameWriter(c), conn[c].state = "alive", conn'[c].state = "alive",
         conn'[c].userid = conn[c].userid, conn'[c].leaked = conn[c].leaked,
         conn'[c].ops = conn[c].ops + 1, conn'[c].pending = conn[c].pending \cup {op}
  PROVE  Local(c)'
<1>1. conn[c].pending \cap Reads = {} /\ Within(c, Serial)' = {}
  BY DEF Local, OneChain
<1>2. op \notin conn[c].pending /\ op \in Operation /\ op # "write"
  BY <1>1 DEF Reads, Operation
<1>3. OneChain(c)'
  BY <1>1 DEF OneChain
<1>4. OneWriter(c)'
  BY <1>2 DEF Local, OneWriter, SameWriter
<1>5. Counted(c)'
  BY <1>2, CountedStart DEF Local
<1>6. Drained(c)'
  BY DEF Drained
<1>7. NoUserYet(c)'
  <2>1. CASE op = "verify"
    BY <2>1 DEF Local, NoUserYet
  <2>2. CASE op = "read"
    <3>1. {"init", "verify"} \cap conn'[c].pending = {}
      BY <1>1, <2>2 DEF Reads
    <3>2. Within(c, Unclaimed)' \subseteq Within(c, Serial)'
      BY DEF Within, Unclaimed, Serial
    <3> QED
      BY <1>1, <3>1, <3>2 DEF NoUserYet
  <2> QED
    BY <2>1, <2>2
<1> QED
  BY <1>3, <1>4, <1>5, <1>6, <1>7 DEF Local

(* A thread takes the completion of the chain's operation.                 *)
LEMMA KeptByTake ==
  ASSUME TypeOK, NEW c \in Conn, Local(c), NEW op \in Reads, op \in conn[c].pending,
         NEW t \in Thread, t \notin Within(c, Unfinished),
         Within(c, Serial)' = Within(c, Serial) \cup {t},
         \/ Within(c, Unclaimed)' \subseteq Within(c, Unclaimed)
         \/ op \in {"init", "verify"},
         Within(c, Unfinished)' = Within(c, Unfinished) \cup {t},
         SameWriter(c), SameState(c),
         conn'[c].userid = conn[c].userid, conn'[c].leaked = conn[c].leaked,
         conn'[c].ops = conn[c].ops,
         conn'[c].pending \cap Operation = (conn[c].pending \cap Operation) \ {op}
  PROVE  Local(c)'
<1>1. Within(c, Serial) = {} /\ conn[c].pending \cap Reads = {op}
  BY DEF Local, OneChain
<1>2. conn'[c].pending \cap Reads = {}
  BY <1>1 DEF Operation, Reads
<1>3. op \in Operation /\ ("write" \in conn'[c].pending <=> "write" \in conn[c].pending)
  BY DEF Operation, Reads
<1>4. OneChain(c)'
  BY <1>1, <1>2 DEF OneChain
<1>5. OneWriter(c)'
  BY <1>3 DEF Local, OneWriter, SameWriter
<1>6. Counted(c)'
  BY <1>3, CountedTake DEF Local
<1>7. Drained(c)'
  BY DEF Local, Drained, SameState
<1>8. NoUserYet(c)'
  <2>1. {"init", "verify"} \cap conn'[c].pending = {}
    BY <1>2 DEF Reads
  <2> QED
    BY <2>1 DEF Local, NoUserYet
<1> QED
  BY <1>4, <1>5, <1>6, <1>7, <1>8 DEF Local

(* A thread takes the completion of a Write.                               *)
LEMMA KeptByWritten ==
  ASSUME TypeOK, NEW c \in Conn, Local(c), "write" \in conn[c].pending,
         NEW t \in Thread, t \notin Within(c, Unfinished), SameChain(c),
         Within(c, Writing)' = Within(c, Writing) \cup {t},
         Within(c, Unfinished)' = Within(c, Unfinished) \cup {t},
         SameState(c),
         conn'[c].write_in_progress = conn[c].write_in_progress,
         conn'[c].queued = conn[c].queued,
         conn'[c].userid = conn[c].userid, conn'[c].leaked = conn[c].leaked,
         conn'[c].ops = conn[c].ops, conn'[c].pending = conn[c].pending \ {"write"}
  PROVE  Local(c)'
<1>1. /\ conn'[c].pending \cap Reads = conn[c].pending \cap Reads
      /\ {"init", "verify"} \cap conn'[c].pending = {"init", "verify"} \cap conn[c].pending
      /\ conn'[c].pending \cap Operation = (conn[c].pending \cap Operation) \ {"write"}
      /\ "write" \in Operation
  BY DEF Reads, Operation
<1>2. OneChain(c)'
  BY <1>1 DEF Local, OneChain, SameChain
<1>3. OneWriter(c)'
  BY DEF Local, OneWriter
<1>4. Counted(c)'
  BY <1>1, CountedTake DEF Local
<1>5. Drained(c)'
  BY DEF Local, Drained, SameState
<1>6. NoUserYet(c)'
  BY <1>1 DEF Local, NoUserYet, SameChain
<1> QED
  BY <1>2, <1>3, <1>4, <1>5, <1>6 DEF Local

(* asyncOpFinished's decrement.                                            *)
LEMMA KeptByFinish ==
  ASSUME TypeOK, NEW c \in Conn, Local(c), NEW t \in Within(c, Unfinished), SameChain(c),
         SameWriter(c), SameState(c),
         Within(c, Unfinished)' = Within(c, Unfinished) \ {t},
         conn'[c].userid = conn[c].userid, conn'[c].leaked = conn[c].leaked,
         conn'[c].ops = conn[c].ops - 1, conn'[c].pending = conn[c].pending
  PROVE  Local(c)' /\ conn'[c].ops \in Int
<1>1. Counted(c)' /\ conn'[c].ops \in Int
  BY CountedFinish DEF Local
<1>2. OneChain(c)' /\ OneWriter(c)'
  BY DEF Local, OneChain, OneWriter, SameChain, SameWriter
<1>3. Drained(c)' /\ NoUserYet(c)'
  BY DEF Local, Drained, NoUserYet, SameState, SameChain
<1> QED
  BY <1>1, <1>2, <1>3 DEF Local

(* sendRejection's count.                                                  *)
LEMMA KeptByLeak ==
  ASSUME TypeOK, NEW c \in Conn, Local(c), SameChain(c), SameWriter(c), SameState(c),
         Within(c, Unfinished)' = Within(c, Unfinished),
         conn'[c].userid = conn[c].userid, conn'[c].leaked = conn[c].leaked + 1,
         conn'[c].ops = conn[c].ops + 1, conn'[c].pending = conn[c].pending
  PROVE  Local(c)'
<1>1. Counted(c)'
  BY CountedLeak DEF Local
<1>2. OneChain(c)' /\ OneWriter(c)'
  BY DEF Local, OneChain, OneWriter, SameChain, SameWriter
<1>3. Drained(c)' /\ NoUserYet(c)'
  BY DEF Local, Drained, NoUserYet, SameState, SameChain
<1> QED
  BY <1>1, <1>2, <1>3 DEF Local

(* terminateConnection, with the count at 0.                               *)
LEMMA KeptByTerminate ==
  ASSUME TypeOK, NEW c \in Conn, Local(c), SameCount(c), SameChain(c), SameWriter(c),
         conn'[c].userid = conn[c].userid, conn[c].ops = 0,
         conn'[c].pending = conn[c].pending
  PROVE  Local(c)'
<1>1. /\ Memory[c] \in Int
      /\ Memory[c] >= 0 => conn[c].pending \cap Operation = {} /\ ~(Memory[c] > 0)
  BY NoneOutstanding, ConnectionAssumption DEF Local
<1>2. Counted(c)'
  BY DEF Local, Counted, SameCount
<1>3. OneChain(c)' /\ OneWriter(c)'
  BY DEF Local, OneChain, OneWriter, SameChain, SameWriter
<1>4. Drained(c)' /\ NoUserYet(c)'
  BY <1>1 DEF Local, Drained, NoUserYet, SameChain
<1> QED
  BY <1>2, <1>3, <1>4 DEF Local

(* verifyID accepts the user id.                                           *)
LEMMA KeptByClaim ==
  ASSUME TypeOK, NEW c \in Conn, Local(c), NEW t \in Within(c, Unclaimed),
         SameCount(c), SameWriter(c), SameState(c),
         Within(c, Serial)' = Within(c, Serial),
         Within(c, Unclaimed)' = Within(c, Unclaimed) \ {t},
         conn'[c].pending = conn[c].pending
  PROVE  Local(c)'
<1>1. Within(c, Unclaimed) \subseteq Within(c, Serial)
  BY DEF Within, Unclaimed, Serial
<1>2. Within(c, Unclaimed)' = {} /\ conn[c].pending \cap Reads = {}
  BY <1>1 DEF Local, OneChain
<1>3. Counted(c)'
  BY DEF Local, Counted, SameCount
<1>4. OneChain(c)' /\ OneWriter(c)'
  BY DEF Local, OneChain, OneWriter, SameWriter
<1>5. Drained(c)' /\ NoUserYet(c)'
  BY <1>2 DEF Local, Drained, NoUserYet, SameState, Reads
<1> QED
  BY <1>3, <1>4, <1>5 DEF Local

(* writeToClient.                                                          *)
LEMMA KeptByWriteToClient ==
  ASSUME TypeOK, NEW c \in Conn, Local(c), SameChain(c), conn[c].state = "alive",
         conn' = WriteToClient(c),
         Within(c, Writing)' = Within(c, Writing),
         Within(c, Unfinished)' = Within(c, Unfinished)
  PROVE  Local(c)'
<1>1. /\ conn'[c].queued = conn[c].queued + 1 /\ conn'[c].write_in_progress = TRUE
      /\ conn'[c].leaked = conn[c].leaked /\ conn'[c].userid = conn[c].userid
      /\ conn'[c].state = "alive"
  BY DEF WriteToClient, Started, TypeOK
<1>2. conn[c].queued \in Nat
  BY DEF TypeOK
<1>3. CASE conn[c].write_in_progress
  <2>1. conn'[c].ops = conn[c].ops /\ conn'[c].pending = conn[c].pending
    BY <1>3 DEF WriteToClient, TypeOK
  <2>2. OneChain(c)' /\ NoUserYet(c)' /\ Drained(c)'
    BY <1>1, <2>1 DEF Local, OneChain, NoUserYet, Drained, SameChain
  <2>3. OneWriter(c)'
    BY <1>1, <1>2, <1>3, <2>1 DEF Local, OneWriter
  <2>4. Counted(c)'
    BY <1>1, <2>1 DEF Local, Counted
  <2> QED
    BY <2>2, <2>3, <2>4 DEF Local
<1>4. CASE ~conn[c].write_in_progress
  <2>1. /\ conn'[c].ops = conn[c].ops + 1
        /\ conn'[c].pending = conn[c].pending \cup {"write"}
    BY <1>4 DEF WriteToClient, Started, TypeOK
  <2>2. "write" \notin conn[c].pending /\ Within(c, Writing) = {}
    BY <1>4 DEF Local, OneWriter
  <2>3. /\ conn'[c].pending \cap Reads = conn[c].pending \cap Reads
        /\ {"init", "verify"} \cap conn'[c].pending = {"init", "verify"} \cap conn[c].pending
        /\ "write" \in Operation
    BY <2>1 DEF Reads, Operation
  <2>4. OneChain(c)' /\ NoUserYet(c)' /\ Drained(c)'
    BY <1>1, <2>3 DEF Local, OneChain, NoUserYet, Drained, SameChain
  <2>5. OneWriter(c)'
    BY <1>1, <1>2, <2>1, <2>2 DEF OneWriter
  <2>6. Counted(c)'
    BY <1>1, <2>1, <2>2, <2>3, CountedStart DEF Local
  <2> QED
    BY <2>4, <2>5, <2>6 DEF Local
<1> QED
  BY <1>3, <1>4

(* sendResponseFromQueue, after asyncOpFinished.                           *)
LEMMA KeptByNextWrite ==
  ASSUME TypeOK, NEW c \in Conn, Local(c), SameChain(c), NEW t \in Thread,
         t \in Within(c, Writing), NextWrite(t), thread[t].at = c,
         Within(c, Writing)' = Within(c, Writing) \ {t},
         Within(c, Unfinished)' = Within(c, Unfinished)
  PROVE  Local(c)' /\ conn[c].queued > 0
<1>1. "write" \notin conn[c].pending /\ Within(c, Writing)' = {} /\ conn[c].queued > 0
  BY DEF Local, OneWriter
<1>2. PICK more \in BOOLEAN :
        /\ more <=> conn[c].queued > 1 /\ thread[t].ok
        /\ conn' = [(IF more THEN Started(c, "write") ELSE conn) EXCEPT
                      ![c].queued = @ - 1, ![c].write_in_progress = more]
        /\ conn[c].state = "alive"
  BY DEF NextWrite, At, TypeOK
<1>3. /\ conn'[c].queued = conn[c].queued - 1 /\ conn'[c].write_in_progress = more
      /\ conn'[c].leaked = conn[c].leaked /\ conn'[c].userid = conn[c].userid
      /\ conn'[c].state = "alive"
  BY <1>2 DEF Started, TypeOK
<1>4. conn[c].queued \in Nat
  BY DEF TypeOK
<1>5. CASE ~more
  <2>1. conn'[c].ops = conn[c].ops /\ conn'[c].pending = conn[c].pending
    BY <1>2, <1>5 DEF TypeOK
  <2>2. OneChain(c)' /\ NoUserYet(c)' /\ Drained(c)'
    BY <1>3, <2>1 DEF Local, OneChain, NoUserYet, Drained, SameChain
  <2>3. OneWriter(c)'
    BY <1>1, <1>3, <1>5, <2>1 DEF OneWriter
  <2>4. Counted(c)'
    BY <1>3, <2>1 DEF Local, Counted
  <2> QED
    BY <1>1, <2>2, <2>3, <2>4 DEF Local
<1>6. CASE more
  <2>1. /\ conn'[c].ops = conn[c].ops + 1
        /\ conn'[c].pending = conn[c].pending \cup {"write"}
    BY <1>2, <1>6 DEF Started, TypeOK
  <2>2. /\ conn'[c].pending \cap Reads = conn[c].pending \cap Reads
        /\ {"init", "verify"} \cap conn'[c].pending = {"init", "verify"} \cap conn[c].pending
        /\ "write" \in Operation
    BY <2>1 DEF Reads, Operation
  <2>3. OneChain(c)' /\ NoUserYet(c)' /\ Drained(c)'
    BY <1>3, <2>2 DEF Local, OneChain, NoUserYet, Drained, SameChain
  <2>4. OneWriter(c)'
    <3>1. conn[c].queued > 1
      BY <1>2, <1>6
    <3>2. conn'[c].queued > 0 /\ conn'[c].write_in_progress
      BY <1>3, <1>4, <1>6, <3>1
    <3> QED
      BY <1>1, <2>1, <3>2 DEF OneWriter
  <2>5. Counted(c)'
    BY <1>1, <1>3, <2>1, <2>2, CountedStart DEF Local
  <2> QED
    BY <1>1, <2>3, <2>4, <2>5 DEF Local
<1> QED
  BY <1>5, <1>6
-----------------------------------------------------------------------------
(***************************************************************************)
(* A step of one thread, on one connection.                                *)
(***************************************************************************)
ThreadRecord == [pc : Program, at : Conn \cup {None}, ok : BOOLEAN, user : User \cup {None},
                 left : Nat]

ConnRecord == [state : {"unborn", "alive", "deleted"}, ops : Int,
               on_streamcancelled_called : {"no", "buffered", "yes"},
               userid : User \cup {None}, pending : SUBSET (Operation \cup {"cancel"}),
               queued : Nat, write_in_progress : BOOLEAN,
               peer : {"none", "connected", "gone"}, leaked : Nat]

Moves(t, r) == thread' = [thread EXCEPT ![t] = r] /\ r \in ThreadRecord

(* The connections with some fields of one of them set.                    *)
WithOps(k, c, n) == [k EXCEPT ![c].ops = n]
WithPending(k, c, n, P) == [k EXCEPT ![c].ops = n, ![c].pending = P]
WithQueued(k, c, n, b) == [k EXCEPT ![c].queued = n, ![c].write_in_progress = b]
WithLeaked(k, c, n, m) == [k EXCEPT ![c].ops = n, ![c].leaked = m]

(* Setting such fields to values of their types keeps the type.            *)
LEMMA TypeFields ==
  ASSUME NEW k \in [Conn -> ConnRecord], NEW c \in Conn, NEW n \in Int
  PROVE  /\ WithOps(k, c, n) \in [Conn -> ConnRecord]
         /\ \A P \in SUBSET (Operation \cup {"cancel"}) :
              WithPending(k, c, n, P) \in [Conn -> ConnRecord]
         /\ \A b \in BOOLEAN : n \in Nat => WithQueued(k, c, n, b) \in [Conn -> ConnRecord]
         /\ \A m \in Nat : WithLeaked(k, c, n, m) \in [Conn -> ConnRecord]
<1>1. PICK i : i = [k EXCEPT ![c].ops = n]
  OBVIOUS
<1>2. i \in [Conn -> ConnRecord] /\ WithOps(k, c, n) = i
  BY <1>1 DEF WithOps, ConnRecord
<1>3. ASSUME NEW P \in SUBSET (Operation \cup {"cancel"})
      PROVE  WithPending(k, c, n, P) \in [Conn -> ConnRecord]
  <2>1. WithPending(k, c, n, P) = [i EXCEPT ![c].pending = P]
    BY <1>1 DEF WithPending
  <2>2. [i EXCEPT ![c].pending = P] \in [Conn -> ConnRecord]
    BY <1>2 DEF ConnRecord
  <2> QED
    BY <2>1, <2>2
<1>4. ASSUME NEW b \in BOOLEAN, n \in Nat
      PROVE  WithQueued(k, c, n, b) \in [Conn -> ConnRecord]
  <2>1. PICK j : j = [k EXCEPT ![c].queued = n]
    OBVIOUS
  <2>2. j \in [Conn -> ConnRecord]
    BY <1>4, <2>1 DEF ConnRecord
  <2>3. [j EXCEPT ![c].write_in_progress = b] \in [Conn -> ConnRecord]
    BY <2>2 DEF ConnRecord
  <2>4. WithQueued(k, c, n, b) = [j EXCEPT ![c].write_in_progress = b]
    BY <2>1 DEF WithQueued
  <2> QED
    BY <2>3, <2>4
<1>5. ASSUME NEW m \in Nat
      PROVE  WithLeaked(k, c, n, m) \in [Conn -> ConnRecord]
  <2>1. WithLeaked(k, c, n, m) = [i EXCEPT ![c].leaked = m]
    BY <1>1 DEF WithLeaked
  <2>2. [i EXCEPT ![c].leaked = m] \in [Conn -> ConnRecord]
    BY <1>2 DEF ConnRecord
  <2> QED
    BY <2>1, <2>2
<1> QED
  BY <1>2, <1>3, <1>4, <1>5

(* asyncOpStarted keeps the type of the connections.                       *)
LEMMA TypeStarted ==
  ASSUME TypeOK, NEW c \in Conn, NEW op \in Operation
  PROVE  Started(c, op) \in [Conn -> ConnRecord]
<1>1. conn \in [Conn -> ConnRecord]
  BY DEF TypeOK, ConnRecord
<1>2. PICK n \in Int : n = conn[c].ops + 1
  BY <1>1 DEF ConnRecord
<1>3. PICK P \in SUBSET (Operation \cup {"cancel"}) : P = conn[c].pending \cup {op}
  BY <1>1 DEF ConnRecord
<1>4. Started(c, op) = WithPending(conn, c, n, P)
  BY <1>1, <1>2, <1>3 DEF Started, WithPending
<1> QED
  BY <1>1, <1>4, TypeFields

(* writeToClient keeps the type of the connections.                        *)
LEMMA TypeWriteToClient ==
  ASSUME TypeOK, NEW c \in Conn
  PROVE  WriteToClient(c) \in [Conn -> ConnRecord]
<1>1. conn \in [Conn -> ConnRecord]
  BY DEF TypeOK, ConnRecord
<1>2. PICK k : k = IF conn[c].write_in_progress THEN conn ELSE Started(c, "write")
  OBVIOUS
<1>3. k \in [Conn -> ConnRecord]
  BY <1>1, <1>2, TypeStarted DEF Operation
<1>4. PICK n \in Nat : n = k[c].queued + 1
  BY <1>3 DEF ConnRecord
<1>5. PICK b \in BOOLEAN : b = TRUE
  OBVIOUS
<1>6. WriteToClient(c) = WithQueued(k, c, n, b)
  BY <1>2, <1>4, <1>5 DEF WriteToClient, WithQueued
<1> QED
  BY <1>3, <1>6, TypeFields

(* Going to another place in the program moves the thread, and drops its   *)
(* connection when it becomes idle.                                        *)
Leads(t, q) == \E r : /\ Moves(t, r)
                      /\ r.pc = q
                      /\ r.at = IF q = "idle" THEN None ELSE thread[t].at

LEMMA GotoMoves ==
  ASSUME TypeOK, NEW t \in Thread, NEW q \in Program, Goto(t, q)
  PROVE  Leads(t, q)
<1>1. CASE q = "idle"
  <2>1. Idle \in ThreadRecord
    BY DEF Idle, ThreadRecord, Program
  <2>2. Moves(t, Idle) /\ Idle.pc = "idle" /\ Idle.at = None
    BY <1>1, <2>1 DEF Goto, Moves, Idle
  <2> QED
    BY <1>1, <2>2 DEF Leads
<1>2. CASE q # "idle"
  <2> DEFINE r == [thread[t] EXCEPT !.pc = q]
  <2>1. r \in ThreadRecord /\ r.pc = q /\ r.at = thread[t].at
    BY DEF TypeOK, ThreadRecord
  <2>2. thread' = [thread EXCEPT ![t] = r]
    BY <1>2 DEF Goto, TypeOK
  <2> HIDE DEF r
  <2>3. Moves(t, r)
    BY <2>1, <2>2 DEF Moves
  <2> QED
    BY <1>2, <2>1, <2>3 DEF Leads
<1> QED
  BY <1>1, <1>2

(* So does a step of the book, with responses left to send.                *)
LEMMA GotoWithMoves ==
  ASSUME TypeOK, NEW t \in Thread, NEW q \in Program \ {"idle"}, NEW n \in Nat,
         GotoWith(t, q, n)
  PROVE  Leads(t, q)
<1> DEFINE r == [thread[t] EXCEPT !.pc = q, !.left = n]
<1>1. r \in ThreadRecord /\ r.pc = q /\ r.at = thread[t].at
  BY DEF TypeOK, ThreadRecord
<1>2. thread' = [thread EXCEPT ![t] = r]
  BY DEF GotoWith, TypeOK
<1> HIDE DEF r
<1>3. Moves(t, r)
  BY <1>1, <1>2 DEF Moves
<1> QED
  BY <1>1, <1>3 DEF Leads

(* A thread that comes to a part of the program is within it.              *)
LEMMA Enters ==
  ASSUME TypeOK, NEW c \in Conn, NEW K, NEW t \in Thread, NEW r, Moves(t, r),
         r.at = c, r.pc \in K
  PROVE  Within(c, K)' = Within(c, K) \cup {t}
  BY DEF Within, TypeOK, Moves

(* A thread that goes elsewhere is not within it any more.                 *)
LEMMA StaysOut ==
  ASSUME TypeOK, NEW c \in Conn, NEW K, NEW t \in Thread, NEW r, Moves(t, r),
         ~(r.at = c /\ r.pc \in K)
  PROVE  Within(c, K)' = Within(c, K) \ {t}
  BY DEF Within, TypeOK, Moves

(* A thread that stays within a part, or out of it, changes nothing there. *)
LEMMA Unmoved ==
  ASSUME TypeOK, NEW c \in Conn, NEW K, NEW t \in Thread, NEW r, Moves(t, r),
         (thread[t].at = c /\ thread[t].pc \in K) <=> (r.at = c /\ r.pc \in K)
  PROVE  Within(c, K)' = Within(c, K)
  BY DEF Within, TypeOK, Moves

(* The type invariant, from the type of what the step changed.             *)
LEMMA TypeKept ==
  ASSUME TypeOK, NEW t \in Thread, NEW r, Moves(t, r),
         conn' \in [Conn -> ConnRecord], streams' \in [User -> Conn \cup {None}],
         requests' \in Nat, undefined' \in BOOLEAN
  PROVE  TypeOK'
<1>1. thread' \in [Thread -> ThreadRecord]
  BY DEF TypeOK, Moves, ThreadRecord
<1> QED
  BY <1>1 DEF TypeOK, ThreadRecord, ConnRecord

(* Connections other than the one the thread works on keep Local.          *)
LEMMA OneThreadMoves ==
  ASSUME ConnInv, NEW t \in Thread, NEW c \in Conn, NEW r, Moves(t, r),
         thread[t].at = c \/ thread[t].at = None,
         r.at = IF r.pc = "idle" THEN None ELSE c,
         \A d \in Conn \ {c} : \/ conn'[d] = conn[d]
                               \/ conn'[d] = [conn[d] EXCEPT !.state = "alive"],
         Local(c)'
  PROVE  Placed' /\ \A d \in Conn : Local(d)'
<1>1. Placed'
  BY DEF ConnInv, Placed, Moves, TypeOK
<1>2. ASSUME NEW d \in Conn, d # c
      PROVE  Local(d)'
  <2>1. thread[t].at # d /\ r.at # d
    BY <1>2, ConnectionAssumption
  <2>2. \A K : Within(d, K)' = Within(d, K)
    BY <2>1, Unmoved DEF ConnInv
  <2>3. /\ SameState(d)
        /\ conn'[d].ops = conn[d].ops /\ conn'[d].leaked = conn[d].leaked
        /\ conn'[d].pending = conn[d].pending /\ conn'[d].userid = conn[d].userid
        /\ conn'[d].write_in_progress = conn[d].write_in_progress
        /\ conn'[d].queued = conn[d].queued
    <3>1. CASE conn'[d] = conn[d]
      BY <3>1 DEF SameState
    <3>2. CASE conn'[d] = [conn[d] EXCEPT !.state = "alive"]
      <4>1. conn[d] \in ConnRecord
        BY DEF ConnInv, TypeOK, ConnRecord
      <4> QED
        BY <3>2, <4>1 DEF ConnRecord, SameState
    <3> QED
      BY <1>2, <3>1, <3>2
  <2>4. SameCount(d) /\ SameWriter(d) /\ SameChain(d)
    BY <2>2, <2>3 DEF SameCount, SameWriter, SameChain
  <2> QED
    BY <2>3, <2>4, KeptByQuietStep DEF ConnInv
<1> QED
  BY <1>1, <1>2

(* The threads between emplace and userid_ stay there.                     *)
StillClaiming == \A s \in Thread : thread[s].pc = "claimed" => thread'[s] = thread[s]

LEMMA ClaimersStay ==
  ASSUME TypeOK, NEW t \in Thread, NEW r, Moves(t, r), thread[t].pc # "claimed"
  PROVE  StillClaiming
  BY DEF StillClaiming, TypeOK, Moves

LEMMA ClaimStays ==
  ASSUME StillClaiming, NEW c, NEW u, Claiming(c, u)
  PROVE  Claiming(c, u)'
  BY DEF StillClaiming, Claiming

(* client_streams_ is unchanged, and nothing it points to is deleted.      *)
LEMMA RegisteredKept ==
  ASSUME ConnInv, streams' = streams, StillClaiming,
         \A d \in Conn : conn[d].state = "alive" =>
           conn'[d].state = "alive" /\ conn'[d].userid = conn[d].userid
  PROVE  RegisteredIsAlive'
<1> SUFFICES ASSUME NEW u \in User, streams[u] # None
             PROVE  \/ conn'[streams[u]].state = "alive" /\ conn'[streams[u]].userid = u
                    \/ /\ Claiming(streams[u], u)'
                       /\ Memory[streams[u]] >= 0 => conn'[streams[u]].state = "alive"
  BY DEF RegisteredIsAlive, Claiming
<1>1. streams[u] \in Conn
  BY DEF ConnInv, TypeOK
<1>2. \/ conn[streams[u]].state = "alive" /\ conn[streams[u]].userid = u
      \/ /\ Claiming(streams[u], u)
         /\ Memory[streams[u]] >= 0 => conn[streams[u]].state = "alive"
  BY DEF ConnInv, RegisteredIsAlive
<1> QED
  BY <1>1, <1>2, ClaimStays

(* A thread moves on; at most the cancelled flag is set.                   *)
LEMMA QuietThreadStep ==
  ASSUME ConnInv, NEW t \in Thread, NEW c \in Conn, thread[t].pc # "idle", thread[t].at = c,
         NEW q \in Program, Leads(t, q), thread[t].pc # "claimed",
         thread[t].pc \in Unfinished <=> q \in Unfinished,
         thread[t].pc \in Writing <=> q \in Writing,
         q \in Serial => thread[t].pc \in Serial,
         q \in Unclaimed => thread[t].pc \in Unclaimed,
         NEW v \in {"no", "buffered", "yes"},
         conn' = [conn EXCEPT ![c].on_streamcancelled_called = v],
         UNCHANGED <<streams, requests, undefined>>
  PROVE  ConnInv'
<1>1. PICK r : /\ Moves(t, r)
               /\ r.pc = q
               /\ r.at = IF q = "idle" THEN None ELSE c
  BY DEF Leads
<1>2. None # c
  BY ConnectionAssumption
<1>3. TypeOK'
  <2>1. conn' \in [Conn -> ConnRecord]
    BY DEF ConnInv, TypeOK, ConnRecord
  <2> QED
    BY <1>1, <2>1, TypeKept DEF ConnInv, TypeOK
<1>4. /\ \A d \in Conn : conn'[d].state = conn[d].state /\ conn'[d].userid = conn[d].userid
      /\ \A d \in Conn \ {c} : conn'[d] = conn[d]
  BY DEF ConnInv, TypeOK
<1>5. RegisteredIsAlive'
  BY <1>1, <1>4, RegisteredKept, ClaimersStay DEF ConnInv
<1>6. SameCount(c) /\ SameWriter(c)
  <2>1. Within(c, Unfinished)' = Within(c, Unfinished)
    BY <1>1, <1>2, Unmoved DEF ConnInv, Unfinished
  <2>2. Within(c, Writing)' = Within(c, Writing)
    BY <1>1, <1>2, Unmoved DEF ConnInv, Writing
  <2> QED
    BY <2>1, <2>2 DEF SameCount, SameWriter, ConnInv, TypeOK
<1>7. SameChain(c)
  BY <1>1 DEF SameChain, Within, Moves, ConnInv, TypeOK
<1>8. Local(c)'
  BY <1>4, <1>6, <1>7, KeptByQuietStep DEF ConnInv, SameState
<1> QED
  BY <1>1, <1>3, <1>4, <1>5, <1>8, OneThreadMoves DEF ConnInv

(* The actions that are such steps.                                        *)
LEMMA QuietSteps ==
  ASSUME ConnInv, NEW t \in Thread,
         \/ FindUser(t) \/ FlagRefused(t) \/ WrongUser(t)
         \/ BookAccepts(t) \/ BookRefuses(t) \/ BookReturns(t)
         \/ FlagCancelled(t) \/ ReturnCancelled(t)
  PROVE  ConnInv'
<1> DEFINE c == thread[t].at
           flag == conn[c].on_streamcancelled_called
<1>1. thread[t].pc # "idle" => c \in Conn
  BY DEF ConnInv, Placed
<1>2. c \in Conn => flag \in {"no", "buffered", "yes"}
                    /\ conn = [conn EXCEPT ![c].on_streamcancelled_called = flag]
  BY DEF ConnInv, TypeOK
<1> USE DEF Program, Unfinished, Writing, Serial, Unclaimed
<1>a. TypeOK
  BY DEF ConnInv
<1>3. CASE FindUser(t)
  <2>1. PICK q \in {"dup_dec", "claim"} : Goto(t, q)
    BY <1>3 DEF FindUser
  <2>2. thread[t].pc = "verify" /\ conn' = conn /\ UNCHANGED <<streams, requests, undefined>>
    BY <1>3 DEF FindUser, At
  <2> HIDE DEF c, flag
  <2> QED
    BY <1>1, <1>2, <1>a, <2>1, <2>2, GotoMoves, QuietThreadStep DEF c
<1>4. CASE FlagRefused(t)
  <2>1. /\ thread[t].pc = "dup_flag" /\ Goto(t, "dup_write")
        /\ conn' = [conn EXCEPT ![c].on_streamcancelled_called = "yes"]
        /\ UNCHANGED <<streams, requests, undefined>>
    BY <1>4 DEF FlagRefused, At
  <2> HIDE DEF c, flag
  <2> QED
    BY <1>1, <1>a, <2>1, GotoMoves, QuietThreadStep DEF c
<1>5. CASE WrongUser(t)
  <2>1. /\ thread[t].pc = "process" /\ Goto(t, "wrong_write")
        /\ conn' = [conn EXCEPT ![c].on_streamcancelled_called = "yes"]
        /\ UNCHANGED <<streams, requests, undefined>>
    BY <1>5 DEF WrongUser, At
  <2> HIDE DEF c, flag
  <2> QED
    BY <1>1, <1>a, <2>1, GotoMoves, QuietThreadStep DEF c
<1>6. CASE BookAccepts(t) \/ BookRefuses(t)
  <2>1. PICK q \in {"fills", "reject"}, n \in Nat : GotoWith(t, q, n)
    <3>1. CASE BookAccepts(t)
      <4>1. PICK k \in 0..MaxMatches : GotoWith(t, "fills", 2 * k)
        BY <3>1 DEF BookAccepts
      <4>2. 2 * k \in Nat
        BY ConnectionAssumption
      <4> QED
        BY <4>1, <4>2
    <3>2. CASE BookRefuses(t)
      BY <3>2, ConnectionAssumption DEF BookRefuses
    <3> QED
      BY <1>6, <3>1, <3>2
  <2>2. /\ thread[t].pc = "book"
        /\ conn' = conn /\ UNCHANGED <<streams, requests, undefined>>
    BY <1>6 DEF BookAccepts, BookRefuses, At
  <2>3. q \in Program \ {"idle"}
    OBVIOUS
  <2> HIDE DEF c, flag
  <2>4. Leads(t, q)
    BY <1>a, <2>1, <2>3, GotoWithMoves
  <2> QED
    BY <1>1, <1>2, <2>2, <2>4, QuietThreadStep DEF c
<1>b. CASE BookReturns(t)
  <2>1. /\ thread[t].pc \in {"fills", "reject"} /\ Goto(t, "start_read")
        /\ conn' = conn /\ UNCHANGED <<streams, requests, undefined>>
    BY <1>b DEF BookReturns, At
  <2> HIDE DEF c, flag
  <2> QED
    BY <1>1, <1>2, <1>a, <2>1, GotoMoves, QuietThreadStep DEF c
<1>7. CASE FlagCancelled(t)
  <2>1. PICK v \in {"no", "buffered", "yes"} :
          conn' = [conn EXCEPT ![c].on_streamcancelled_called = v]
    BY <1>7 DEF FlagCancelled
  <2>2. /\ thread[t].pc = "cancel" /\ Goto(t, "cancel_check")
        /\ UNCHANGED <<streams, requests, undefined>>
    BY <1>7 DEF FlagCancelled, At
  <2> HIDE DEF c, flag
  <2> QED
    BY <1>1, <1>a, <2>1, <2>2, GotoMoves, QuietThreadStep DEF c
<1>8. CASE ReturnCancelled(t)
  <2>1. /\ thread[t].pc = "cancel_return" /\ Goto(t, "idle")
        /\ conn' = conn /\ UNCHANGED <<streams, requests, undefined>>
    BY <1>8 DEF ReturnCancelled
  <2> HIDE DEF c, flag
  <2> QED
    BY <1>1, <1>2, <1>a, <2>1, GotoMoves, QuietThreadStep DEF c
<1> QED
  BY <1>3, <1>4, <1>5, <1>6, <1>7, <1>8, <1>b

(* Steps that leave the threads where they are.                            *)
LEMMA NoThreadMoves ==
  ASSUME ConnInv, UNCHANGED thread, conn' \in [Conn -> ConnRecord],
         \A d \in Conn :
           /\ conn'[d].state = conn[d].state
           /\ conn'[d].ops = conn[d].ops /\ conn'[d].leaked = conn[d].leaked
           /\ conn'[d].pending = conn[d].pending /\ conn'[d].userid = conn[d].userid
           /\ conn'[d].write_in_progress = conn[d].write_in_progress
           /\ conn'[d].queued = conn[d].queued,
         UNCHANGED <<streams, requests>>, undefined' \in BOOLEAN
  PROVE  ConnInv'
<1>1. TypeOK' /\ Placed'
  BY DEF ConnInv, TypeOK, Placed, ConnRecord
<1>2. RegisteredIsAlive'
  BY RegisteredKept DEF StillClaiming
<1>3. ASSUME NEW d \in Conn
      PROVE  Local(d)'
  <2>1. \A K : Within(d, K)' = Within(d, K)
    BY DEF Within
  <2>2. SameCount(d) /\ SameWriter(d) /\ SameChain(d) /\ SameState(d)
    BY <2>1 DEF SameCount, SameWriter, SameChain, SameState
  <2> QED
    BY <2>2, KeptByQuietStep DEF ConnInv
<1> QED
  BY <1>1, <1>2, <1>3 DEF ConnInv

(* The actions that are such steps.                                        *)
LEMMA StillSteps ==
  ASSUME ConnInv,
         \/ UNCHANGED vars
         \/ \E t \in Thread : NoRequest(t) \/ UseAfterDelete(t) \/ FlagSeen(t)
         \/ \E c \in Conn : ClientLeaves(c)
  PROVE  ConnInv'
<1>1. conn \in [Conn -> ConnRecord] /\ undefined \in BOOLEAN
  BY DEF ConnInv, TypeOK, ConnRecord
<1>2. CASE UNCHANGED vars
  BY <1>1, <1>2, NoThreadMoves DEF vars
<1>3. ASSUME NEW t \in Thread, NoRequest(t) \/ UseAfterDelete(t)
      PROVE  ConnInv'
  BY <1>1, <1>3, NoThreadMoves DEF NoRequest, UseAfterDelete
<1>4. ASSUME NEW t \in Thread, FlagSeen(t)
      PROVE  ConnInv'
  <2>1. PICK c \in Conn : conn' = [conn EXCEPT ![c].on_streamcancelled_called = "yes"]
    BY <1>4 DEF FlagSeen, At, ConnInv, Placed
  <2>2. conn' \in [Conn -> ConnRecord]
    BY <1>1, <2>1 DEF ConnRecord
  <2> QED
    BY <1>1, <1>4, <2>1, <2>2, NoThreadMoves DEF FlagSeen, ConnRecord
<1>5. ASSUME NEW c \in Conn, ClientLeaves(c)
      PROVE  ConnInv'
  BY <1>1, <1>5, NoThreadMoves DEF ClientLeaves, ConnRecord
<1> QED
  BY <1>2, <1>3, <1>4, <1>5

(* Steps in which writeToClient is called.                                 *)
LEMMA WriteStep ==
  ASSUME ConnInv, NEW t \in Thread, NEW c \in Conn, thread[t].pc # "idle", thread[t].at = c,
         NEW q \in Program, Leads(t, q), conn[c].state = "alive",
         thread[t].pc \in Serial, thread[t].pc \notin Unfinished \cup Writing \cup Unclaimed,
         q \notin Unfinished \cup Writing \cup Unclaimed,
         conn' = WriteToClient(c),
         UNCHANGED <<streams, requests, undefined>>
  PROVE  ConnInv'
<1>1. PICK r : /\ Moves(t, r)
               /\ r.pc = q
               /\ r.at = IF q = "idle" THEN None ELSE c
  BY DEF Leads
<1>2. TypeOK'
  <2>1. conn' \in [Conn -> ConnRecord]
    BY TypeWriteToClient DEF ConnInv
  <2> QED
    BY <1>1, <2>1, TypeKept DEF ConnInv, TypeOK
<1>3. /\ \A d \in Conn : conn'[d].state = conn[d].state /\ conn'[d].userid = conn[d].userid
      /\ \A d \in Conn \ {c} : conn'[d] = conn[d]
  BY DEF ConnInv, TypeOK, WriteToClient, Started
<1>4. RegisteredIsAlive'
  BY <1>1, <1>3, RegisteredKept, ClaimersStay DEF ConnInv, Unfinished
<1>5. /\ Within(c, Unfinished)' = Within(c, Unfinished)
      /\ Within(c, Writing)' = Within(c, Writing)
  BY <1>1, Unmoved DEF ConnInv
<1>6. SameChain(c)
  BY <1>1 DEF SameChain, Within, Moves, ConnInv, TypeOK
<1>7. Local(c)'
  BY <1>5, <1>6, KeptByWriteToClient DEF ConnInv
<1> QED
  BY <1>1, <1>2, <1>3, <1>4, <1>7, OneThreadMoves DEF ConnInv

(* The responses: refused, wrong user, acknowledged, filled, rejected.     *)
LEMMA WriteSteps ==
  ASSUME ConnInv, NEW t \in Thread,
         \/ WriteRefused(t) \/ WriteWrongUser(t) \/ Acknowledge(t)
         \/ FillResponse(t) \/ WriteRejection(t)
  PROVE  ConnInv'
<1>1. PICK c : c = thread[t].at
  OBVIOUS
<1>2. /\ thread[t].pc \in {"dup_write", "wrong_write", "process", "fills", "reject_write"}
      /\ conn[c].state = "alive" /\ conn' = WriteToClient(c)
      /\ UNCHANGED <<streams, requests, undefined>>
  BY <1>1 DEF WriteRefused, WriteWrongUser, Acknowledge, FillResponse, WriteRejection, At
<1>3. PICK q \in {"idle", "start_read", "book", "fills", "reject"} : Leads(t, q)
  <2>1. CASE WriteRefused(t) \/ WriteWrongUser(t) \/ Acknowledge(t) \/ WriteRejection(t)
    <3>1. PICK q \in {"idle", "start_read", "book", "reject"} : Goto(t, q)
      BY <2>1 DEF WriteRefused, WriteWrongUser, Acknowledge, WriteRejection
    <3> QED
      BY <3>1, GotoMoves DEF ConnInv, Program
  <2>2. CASE FillResponse(t)
    <3>1. thread[t].left - 1 \in Nat /\ GotoWith(t, "fills", thread[t].left - 1)
      BY <2>2 DEF FillResponse, ConnInv, TypeOK
    <3> QED
      BY <3>1, GotoWithMoves DEF ConnInv, Program
  <2> QED
    BY <2>1, <2>2
<1>4. c \in Conn
  BY <1>1, <1>2 DEF ConnInv, Placed
<1> QED
  BY <1>1, <1>2, <1>3, <1>4, WriteStep DEF Program, Serial, Unfinished, Writing, Unclaimed

(* asyncOpFinished: the decrement.                                         *)
LEMMA StepDecrement ==
  ASSUME ConnInv, NEW t \in Thread, Decrement(t)
  PROVE  ConnInv'
<1>1. PICK c : c = thread[t].at
  OBVIOUS
<1>2. /\ thread[t].pc \in {"init_dec", "dup_dec", "read_dec", "write_dec"}
      /\ conn' = [conn EXCEPT ![c].ops = @ - 1]
      /\ UNCHANGED <<streams, requests, undefined>>
  BY <1>1 DEF Decrement, CheckAfter
<1>3. c \in Conn
  BY <1>1, <1>2 DEF ConnInv, Placed
<1>4. PICK q \in {"init_check", "dup_check", "read_check", "write_check"} :
        /\ Goto(t, q)
        /\ q = "init_check" <=> thread[t].pc = "init_dec"
        /\ q = "write_check" <=> thread[t].pc = "write_dec"
  BY <1>2 DEF Decrement, CheckAfter
<1>5. q \in Program /\ q # "idle"
  BY DEF Program
<1>6. PICK r : Moves(t, r) /\ r.pc = q /\ r.at = c
  BY <1>1, <1>4, <1>5, GotoMoves DEF ConnInv, Leads
<1>7. /\ \A d \in Conn : conn'[d].state = conn[d].state /\ conn'[d].userid = conn[d].userid
      /\ \A d \in Conn \ {c} : conn'[d] = conn[d]
      /\ conn'[c].ops = conn[c].ops - 1 /\ conn'[c].pending = conn[c].pending
      /\ conn'[c].leaked = conn[c].leaked
      /\ conn'[c].write_in_progress = conn[c].write_in_progress
      /\ conn'[c].queued = conn[c].queued
  BY <1>2, <1>3 DEF ConnInv, TypeOK
<1>8. RegisteredIsAlive'
  BY <1>2, <1>6, <1>7, RegisteredKept, ClaimersStay DEF ConnInv
<1>9. t \in Within(c, Unfinished) /\ Within(c, Unfinished)' = Within(c, Unfinished) \ {t}
  <2>1. t \in Within(c, Unfinished)
    BY <1>1, <1>2 DEF Within, Unfinished
  <2>2. r.pc \notin Unfinished
    BY <1>4, <1>6 DEF Unfinished
  <2> QED
    BY <1>3, <1>6, <2>1, <2>2, StaysOut DEF ConnInv
<1>10. SameWriter(c)
  <2>1. Within(c, Writing)' = Within(c, Writing)
    BY <1>1, <1>2, <1>3, <1>4, <1>6, Unmoved DEF ConnInv, Writing
  <2> QED
    BY <1>7, <2>1 DEF SameWriter
<1>11. SameChain(c)
  <2>1. Within(c, Serial)' = Within(c, Serial)
    BY <1>1, <1>2, <1>3, <1>4, <1>6, Unmoved DEF ConnInv, Serial
  <2>2. Within(c, Unclaimed)' = Within(c, Unclaimed)
    BY <1>1, <1>2, <1>3, <1>4, <1>6, Unmoved DEF ConnInv, Unclaimed
  <2> QED
    BY <2>1, <2>2 DEF SameChain
<1>12. Local(c)' /\ conn'[c].ops \in Int
  BY <1>3, <1>7, <1>9, <1>10, <1>11, KeptByFinish DEF ConnInv, SameState
<1>13. TypeOK'
  <2>1. conn' \in [Conn -> ConnRecord]
    <3>1. conn \in [Conn -> ConnRecord]
      BY DEF ConnInv, TypeOK, ConnRecord
    <3>2. conn' = WithOps(conn, c, conn'[c].ops)
      BY <1>2, <1>7 DEF WithOps
    <3> QED
      BY <1>3, <1>12, <3>1, <3>2, TypeFields
  <2> QED
    BY <1>2, <1>6, <2>1, TypeKept DEF ConnInv, TypeOK
<1> QED
  BY <1>1, <1>3, <1>5, <1>6, <1>7, <1>8, <1>12, <1>13, OneThreadMoves DEF ConnInv

(* Steps in which the connection may be deleted.                           *)
LEMMA TerminateStep ==
  ASSUME ConnInv, NEW t \in Thread, NEW c \in Conn, thread[t].pc # "idle", thread[t].at = c,
         NEW q \in Program, Leads(t, q), conn[c].ops = 0,
         thread[t].pc # "claimed",
         thread[t].pc \in Unfinished <=> q \in Unfinished,
         thread[t].pc \in Writing <=> q \in Writing,
         q \in Serial => thread[t].pc \in Serial,
         q \in Unclaimed => thread[t].pc \in Unclaimed,
         TerminateConnection(c), UNCHANGED <<requests, undefined>>
  PROVE  ConnInv'
<1>1. PICK r : /\ Moves(t, r)
               /\ r.pc = q
               /\ r.at = IF q = "idle" THEN None ELSE c
  BY DEF Leads
<1>2. None # c
  BY ConnectionAssumption
<1>3. conn' = [conn EXCEPT ![c].state = "deleted"]
  BY DEF TerminateConnection
<1>4. TypeOK'
  <2>1. conn' \in [Conn -> ConnRecord]
    <3>1. conn \in [Conn -> ConnRecord]
      BY DEF ConnInv, TypeOK, ConnRecord
    <3>2. [conn[c] EXCEPT !.state = "deleted"] \in ConnRecord
      BY <3>1 DEF ConnRecord
    <3>3. conn' = [conn EXCEPT ![c] = [conn[c] EXCEPT !.state = "deleted"]]
      BY <1>3, <3>1
    <3> QED
      BY <3>1, <3>2, <3>3
  <2>2. streams' \in [User -> Conn \cup {None}]
    BY DEF TerminateConnection, Erased, ConnInv, TypeOK
  <2> QED
    BY <1>1, <2>1, <2>2, TypeKept DEF ConnInv, TypeOK
<1>5. /\ conn'[c].ops = conn[c].ops /\ conn'[c].leaked = conn[c].leaked
      /\ conn'[c].pending = conn[c].pending /\ conn'[c].userid = conn[c].userid
      /\ conn'[c].write_in_progress = conn[c].write_in_progress
      /\ conn'[c].queued = conn[c].queued
      /\ \A d \in Conn \ {c} : conn'[d] = conn[d]
  BY <1>3 DEF ConnInv, TypeOK
<1>6. RegisteredIsAlive'
  <2> SUFFICES ASSUME NEW u \in User, NEW e, e = streams'[u], e # None
               PROVE  \/ conn'[e].state = "alive" /\ conn'[e].userid = u
                      \/ Claiming(e, u)' /\ (Memory[e] >= 0 => conn'[e].state = "alive")
    BY DEF RegisteredIsAlive, Claiming
  <2>1. /\ e = streams[u] /\ e \in Conn
        /\ conn[c].userid # u \/ conn[c].userid = None
    BY DEF TerminateConnection, Erased, ConnInv, TypeOK
  <2>2. CASE conn[e].state = "alive" /\ conn[e].userid = u
    <3>1. u # None
      BY ConnectionAssumption
    <3>2. e # c
      BY <2>1, <2>2, <3>1
    <3> QED
      BY <1>5, <2>1, <2>2, <3>2
  <2>3. CASE Claiming(e, u) /\ (Memory[e] >= 0 => conn[e].state = "alive")
    <3>1. Claiming(e, u)'
      BY <1>1, <2>3, ClaimersStay, ClaimStays DEF ConnInv
    <3>2. ASSUME Memory[e] >= 0
          PROVE  e # c
      <4>1. Within(e, Unfinished) # {}
        BY <2>3 DEF Claiming, Within, Unfinished
      <4> QED
        BY <3>2, <4>1, NoneOutstanding DEF ConnInv, Local
    <3> QED
      BY <1>5, <2>1, <2>3, <3>1, <3>2
  <2> QED
    BY <2>1, <2>2, <2>3 DEF ConnInv, RegisteredIsAlive
<1>7. SameCount(c) /\ SameWriter(c)
  <2>1. Within(c, Unfinished)' = Within(c, Unfinished)
    BY <1>1, <1>2, Unmoved DEF ConnInv, Unfinished
  <2>2. Within(c, Writing)' = Within(c, Writing)
    BY <1>1, <1>2, Unmoved DEF ConnInv, Writing
  <2> QED
    BY <1>5, <2>1, <2>2 DEF SameCount, SameWriter
<1>8. SameChain(c)
  BY <1>1 DEF SameChain, Within, Moves, ConnInv, TypeOK
<1>9. Local(c)'
  BY <1>5, <1>7, <1>8, KeptByTerminate DEF ConnInv
<1> QED
  BY <1>1, <1>4, <1>5, <1>6, <1>9, OneThreadMoves DEF ConnInv

(* The check after the decrement, and the one of onStreamCancelled.        *)
LEMMA CheckSteps ==
  ASSUME ConnInv, NEW t \in Thread, Check(t) \/ CheckCancelled(t)
  PROVE  ConnInv'
<1>1. PICK c : c = thread[t].at
  OBVIOUS
<1>2. PICK q \in Program :
        /\ Goto(t, q)
        /\ thread[t].pc \notin {"idle", "claimed"}
        /\ thread[t].pc \in Unfinished <=> q \in Unfinished
        /\ thread[t].pc \in Writing <=> q \in Writing
        /\ q \in Serial => thread[t].pc \in Serial
        /\ q \in Unclaimed => thread[t].pc \in Unclaimed
  <2> USE DEF Program, Unfinished, Writing, Serial, Unclaimed
  <2>1. CASE Check(t)
    <3>1. thread[t].pc \in {"init_check", "dup_check", "read_check", "write_check"}
      BY <2>1 DEF Check, Checking, At, CheckAfter
    <3>2. Goto(t, AfterCheck(thread[t].pc, thread[t].ok))
      BY <2>1 DEF Check
    <3>3. PICK q \in {"start_verify", "idle", "dup_flag", "process", "next_write"} :
            /\ Goto(t, q)
            /\ q = "start_verify" => thread[t].pc = "init_check"
            /\ q = "dup_flag" => thread[t].pc = "dup_check"
            /\ q = "process" => thread[t].pc = "read_check"
            /\ q = "next_write" <=> thread[t].pc = "write_check"
      BY <3>1, <3>2 DEF AfterCheck
    <3> QED
      BY <3>1, <3>3
  <2>2. CASE CheckCancelled(t)
    BY <2>2 DEF CheckCancelled, At
  <2> QED
    BY <2>1, <2>2
<1>3. c \in Conn /\ Leads(t, q)
  BY <1>1, <1>2, GotoMoves DEF ConnInv, Placed
<1>4. /\ UNCHANGED <<requests, undefined>>
      /\ \/ UNCHANGED <<conn, streams>>
         \/ conn[c].ops = 0 /\ TerminateConnection(c)
  BY <1>1 DEF Check, CheckCancelled, LastOperation
<1>5. CASE UNCHANGED <<conn, streams>>
  <2>1. PICK v \in {"no", "buffered", "yes"} :
          conn = [conn EXCEPT ![c].on_streamcancelled_called = v]
    BY <1>3 DEF ConnInv, TypeOK
  <2> QED
    BY <1>1, <1>2, <1>3, <1>4, <1>5, <2>1, QuietThreadStep
<1>6. CASE conn[c].ops = 0 /\ TerminateConnection(c)
  BY <1>1, <1>2, <1>3, <1>4, <1>6, TerminateStep
<1> QED
  BY <1>4, <1>5, <1>6

(* The next client gets another connection.                                *)
LEMMA StepCreate ==
  ASSUME ConnInv, NEW t \in Thread, Create(t)
  PROVE  ConnInv'
<1>1. PICK c : c = thread[t].at
  OBVIOUS
<1>2. /\ thread[t].pc = "create" /\ Goto(t, "init_dec") /\ conn[c].state = "alive"
      /\ UNCHANGED <<streams, requests, undefined>>
  BY <1>1 DEF Create, At
<1>3. c \in Conn
  BY <1>1, <1>2 DEF ConnInv, Placed
<1>4. PICK d \in Conn : conn[d].state = "unborn" /\ conn' = [conn EXCEPT ![d].state = "alive"]
  BY DEF Create
<1>5. PICK r : Moves(t, r) /\ r.pc = "init_dec" /\ r.at = c
  BY <1>1, <1>2, GotoMoves DEF ConnInv, Program, Leads
<1>6. TypeOK'
  <2>1. conn' \in [Conn -> ConnRecord]
    <3>1. conn \in [Conn -> ConnRecord]
      BY DEF ConnInv, TypeOK, ConnRecord
    <3>2. [conn[d] EXCEPT !.state = "alive"] \in ConnRecord
      BY <3>1 DEF ConnRecord
    <3>3. conn' = [conn EXCEPT ![d] = [conn[d] EXCEPT !.state = "alive"]]
      BY <1>4, <3>1
    <3> QED
      BY <3>1, <3>2, <3>3
  <2> QED
    BY <1>2, <1>5, <2>1, TypeKept DEF ConnInv, TypeOK
<1>7. /\ conn'[d] = [conn[d] EXCEPT !.state = "alive"]
      /\ \A b \in Conn \ {d} : conn'[b] = conn[b]
      /\ c # d
  BY <1>2, <1>4 DEF ConnInv, TypeOK
<1>8. RegisteredIsAlive'
  BY <1>2, <1>4, <1>5, <1>7, RegisteredKept, ClaimersStay DEF ConnInv
<1>9. /\ Within(c, Unfinished)' = Within(c, Unfinished)
      /\ Within(c, Writing)' = Within(c, Writing)
      /\ Within(c, Serial)' = Within(c, Serial)
      /\ Within(c, Unclaimed)' = Within(c, Unclaimed)
  BY <1>1, <1>2, <1>3, <1>5, Unmoved DEF ConnInv, Unfinished, Writing, Serial, Unclaimed
<1>10. SameCount(c) /\ SameWriter(c) /\ SameChain(c) /\ SameState(c)
  BY <1>3, <1>7, <1>9 DEF SameCount, SameWriter, SameChain, SameState
<1>11. Local(c)'
  BY <1>3, <1>7, <1>10, KeptByQuietStep DEF ConnInv
<1> QED
  BY <1>1, <1>3, <1>5, <1>6, <1>7, <1>8, <1>11, OneThreadMoves DEF ConnInv

(* The chain starts its next operation.                                    *)
LEMMA StartSteps ==
  ASSUME ConnInv, NEW t \in Thread, StartVerify(t) \/ StartRead(t)
  PROVE  ConnInv'
<1>1. PICK c : c = thread[t].at
  OBVIOUS
<1>2. PICK op \in {"verify", "read"} :
        /\ conn' = Started(c, op)
        /\ thread[t].pc = IF op = "verify" THEN "start_verify" ELSE "start_read"
        /\ Goto(t, "idle") /\ conn[c].state = "alive"
        /\ UNCHANGED <<streams, requests, undefined>>
  BY <1>1 DEF StartVerify, StartRead, At
<1>3. c \in Conn /\ None # c
  BY <1>1, <1>2, ConnectionAssumption DEF ConnInv, Placed
<1>4. PICK r : Moves(t, r) /\ r.pc = "idle" /\ r.at = None
  BY <1>2, GotoMoves DEF ConnInv, Program, Leads
<1>5. TypeOK'
  <2>1. conn' \in [Conn -> ConnRecord]
    BY <1>2, <1>3, TypeStarted DEF ConnInv, Operation
  <2> QED
    BY <1>2, <1>4, <2>1, TypeKept DEF ConnInv, TypeOK
<1>6. /\ \A d \in Conn \ {c} : conn'[d] = conn[d]
      /\ conn'[c].state = conn[c].state /\ conn'[c].userid = conn[c].userid
      /\ conn'[c].ops = conn[c].ops + 1 /\ conn'[c].pending = conn[c].pending \cup {op}
      /\ conn'[c].leaked = conn[c].leaked /\ conn'[c].queued = conn[c].queued
      /\ conn'[c].write_in_progress = conn[c].write_in_progress
  BY <1>2, <1>3 DEF Started, ConnInv, TypeOK
<1>7. RegisteredIsAlive'
  BY <1>2, <1>3, <1>4, <1>6, RegisteredKept, ClaimersStay DEF ConnInv
<1>8. /\ Within(c, Unfinished)' = Within(c, Unfinished)
      /\ Within(c, Writing)' = Within(c, Writing)
  BY <1>1, <1>2, <1>3, <1>4, Unmoved DEF ConnInv, Unfinished, Writing
<1>9. /\ Within(c, Serial)' = Within(c, Serial) \ {t}
      /\ Within(c, Unclaimed)' = Within(c, Unclaimed) \ {t}
  BY <1>3, <1>4, StaysOut DEF ConnInv
<1>10. t \in Within(c, Serial) /\ (op = "verify" => t \in Within(c, Unclaimed))
  BY <1>1, <1>2 DEF Within, Serial, Unclaimed
<1>11. Local(c)'
  BY <1>2, <1>3, <1>6, <1>8, <1>9, <1>10, KeptByStart DEF ConnInv, SameWriter
<1> QED
  BY <1>1, <1>3, <1>4, <1>5, <1>6, <1>7, <1>11, OneThreadMoves DEF ConnInv

(* verifyID accepts: client_streams_.emplace.                              *)
LEMMA StepClaim ==
  ASSUME ConnInv, NEW t \in Thread, Claim(t)
  PROVE  ConnInv'
<1>1. PICK c, u : c = thread[t].at /\ u = thread[t].user
  OBVIOUS
<1>2. /\ thread[t].pc = "claim" /\ Goto(t, "claimed") /\ conn[c].state = "alive"
      /\ streams' = IF streams[u] = None THEN [streams EXCEPT ![u] = c] ELSE streams
      /\ UNCHANGED <<conn, requests, undefined>>
  BY <1>1 DEF Claim, At
<1>3. c \in Conn /\ None # c /\ u \in User \cup {None}
  BY <1>1, <1>2, ConnectionAssumption DEF ConnInv, Placed, TypeOK
<1>4. PICK r : Moves(t, r) /\ r.pc = "claimed" /\ r.at = c
  BY <1>1, <1>2, GotoMoves DEF ConnInv, Program, Leads
<1>5. TypeOK'
  <2>1. conn' \in [Conn -> ConnRecord]
    BY <1>2 DEF ConnInv, TypeOK, ConnRecord
  <2>2. streams' \in [User -> Conn \cup {None}]
    BY <1>2, <1>3 DEF ConnInv, TypeOK
  <2> QED
    BY <1>2, <1>4, <2>1, <2>2, TypeKept DEF ConnInv, TypeOK
<1>6. Claiming(c, u)'
  <2>1. thread'[t].pc = "claimed" /\ thread'[t].at = c /\ thread'[t].user = u
    BY <1>1, <1>2 DEF Goto, ConnInv, TypeOK
  <2> QED
    BY <2>1 DEF Claiming
<1>7. RegisteredIsAlive'
  <2> SUFFICES ASSUME NEW w \in User, NEW e, e = streams'[w], e # None
               PROVE  \/ conn'[e].state = "alive" /\ conn'[e].userid = w
                      \/ Claiming(e, w)' /\ (Memory[e] >= 0 => conn'[e].state = "alive")
    BY DEF RegisteredIsAlive, Claiming
  <2>1. CASE e = streams[w]
    <3>1. StillClaiming
      BY <1>2, <1>4, ClaimersStay DEF ConnInv
    <3>2. \/ conn[e].state = "alive" /\ conn[e].userid = w
          \/ Claiming(e, w) /\ (Memory[e] >= 0 => conn[e].state = "alive")
      BY <2>1 DEF ConnInv, RegisteredIsAlive
    <3> QED
      BY <1>2, <3>1, <3>2, ClaimStays
  <2>2. CASE e # streams[w]
    <3>1. w = u /\ e = c
      BY <1>2, <2>2 DEF ConnInv, TypeOK
    <3> QED
      BY <1>2, <1>6, <3>1
  <2> QED
    BY <2>1, <2>2
<1>8. /\ Within(c, Unfinished)' = Within(c, Unfinished)
      /\ Within(c, Writing)' = Within(c, Writing)
      /\ Within(c, Serial)' = Within(c, Serial)
      /\ Within(c, Unclaimed)' = Within(c, Unclaimed)
  BY <1>1, <1>2, <1>3, <1>4, Unmoved DEF ConnInv, Unfinished, Writing, Serial, Unclaimed
<1>9. SameCount(c) /\ SameWriter(c) /\ SameChain(c) /\ SameState(c)
  BY <1>2, <1>8 DEF SameCount, SameWriter, SameChain, SameState
<1>10. Local(c)'
  BY <1>2, <1>3, <1>9, KeptByQuietStep DEF ConnInv
<1> QED
  BY <1>1, <1>2, <1>3, <1>4, <1>5, <1>7, <1>10, OneThreadMoves DEF ConnInv

(* verifyID accepts: userid_.                                              *)
LEMMA StepSetUser ==
  ASSUME ConnInv, NEW t \in Thread, SetUser(t)
  PROVE  ConnInv'
<1>1. PICK c, u : c = thread[t].at /\ u = thread[t].user
  OBVIOUS
<1>2. /\ thread[t].pc = "claimed" /\ Goto(t, "read_dec") /\ conn[c].state = "alive"
      /\ conn' = [conn EXCEPT ![c].userid = u]
      /\ UNCHANGED <<streams, requests, undefined>>
  BY <1>1 DEF SetUser, At
<1>3. c \in Conn /\ None # c /\ u \in User \cup {None}
  BY <1>1, <1>2, ConnectionAssumption DEF ConnInv, Placed, TypeOK
<1>4. PICK r : Moves(t, r) /\ r.pc = "read_dec" /\ r.at = c
  BY <1>1, <1>2, GotoMoves DEF ConnInv, Program, Leads
<1>5. TypeOK'
  <2>1. conn' \in [Conn -> ConnRecord]
    BY <1>2, <1>3 DEF ConnInv, TypeOK, ConnRecord
  <2> QED
    BY <1>2, <1>4, <2>1, TypeKept DEF ConnInv, TypeOK
<1>6. /\ \A d \in Conn \ {c} : conn'[d] = conn[d]
      /\ conn'[c].state = conn[c].state /\ conn'[c].userid = u
      /\ conn'[c].ops = conn[c].ops /\ conn'[c].pending = conn[c].pending
      /\ conn'[c].leaked = conn[c].leaked /\ conn'[c].queued = conn[c].queued
      /\ conn'[c].write_in_progress = conn[c].write_in_progress
  BY <1>2, <1>3 DEF ConnInv, TypeOK
<1>7. t \in Within(c, Unclaimed)
  BY <1>1, <1>2 DEF Within, Unclaimed
<1>8. RegisteredIsAlive'
  <2> SUFFICES ASSUME NEW w \in User, NEW e, e = streams[w], e # None
               PROVE  \/ conn'[e].state = "alive" /\ conn'[e].userid = w
                      \/ Claiming(e, w)' /\ (Memory[e] >= 0 => conn'[e].state = "alive")
    BY <1>2 DEF RegisteredIsAlive, Claiming
  <2>1. e \in Conn /\ w # None
    BY ConnectionAssumption DEF ConnInv, TypeOK
  <2>2. CASE conn[e].state = "alive" /\ conn[e].userid = w
    <3>1. conn[c].userid = None
      BY <1>3, <1>7 DEF ConnInv, Local, NoUserYet
    <3>2. e # c
      BY <2>1, <2>2, <3>1
    <3> QED
      BY <1>6, <2>1, <2>2, <3>2
  <2>3. CASE Claiming(e, w) /\ (Memory[e] >= 0 => conn[e].state = "alive")
    <3>1. PICK s \in Thread : /\ thread[s].pc = "claimed" /\ thread[s].at = e
                              /\ thread[s].user = w
      BY <2>3 DEF Claiming
    <3>2. CASE s = t
      BY <1>1, <1>2, <1>6, <3>1, <3>2
    <3>3. CASE s # t
      <4>1. thread'[s] = thread[s]
        BY <1>4, <3>3 DEF Moves, ConnInv, TypeOK
      <4>2. Claiming(e, w)'
        BY <3>1, <4>1 DEF Claiming
      <4>3. conn'[e].state = conn[e].state
        BY <1>6, <2>1
      <4> QED
        BY <2>3, <4>2, <4>3
    <3> QED
      BY <3>2, <3>3
  <2> QED
    BY <2>2, <2>3 DEF ConnInv, RegisteredIsAlive
<1>9. /\ Within(c, Unfinished)' = Within(c, Unfinished)
      /\ Within(c, Writing)' = Within(c, Writing)
      /\ Within(c, Serial)' = Within(c, Serial)
  BY <1>1, <1>2, <1>3, <1>4, Unmoved DEF ConnInv, Unfinished, Writing, Serial
<1>10. Within(c, Unclaimed)' = Within(c, Unclaimed) \ {t}
  <2>1. r.pc \notin Unclaimed
    BY <1>4 DEF Unclaimed
  <2> QED
    BY <1>3, <1>4, <2>1, StaysOut DEF ConnInv
<1>11. Local(c)'
  <2>1. SameCount(c) /\ SameWriter(c) /\ SameState(c)
    BY <1>6, <1>9 DEF SameCount, SameWriter, SameState
  <2> QED
    BY <1>3, <1>6, <1>7, <1>9, <1>10, <2>1, KeptByClaim DEF ConnInv
<1> QED
  BY <1>1, <1>3, <1>4, <1>5, <1>6, <1>8, <1>11, OneThreadMoves DEF ConnInv

(* sendRejection counts an operation it does not start.                    *)
LEMMA StepSendRejection ==
  ASSUME ConnInv, NEW t \in Thread, SendRejection(t)
  PROVE  ConnInv'
<1>1. PICK c : c = thread[t].at
  OBVIOUS
<1>2. /\ thread[t].pc = "reject" /\ GotoWith(t, "reject_write", thread[t].left - 1)
      /\ conn' = [conn EXCEPT ![c].ops = @ + 1, ![c].leaked = @ + 1]
      /\ UNCHANGED <<streams, requests, undefined>>
  BY <1>1 DEF SendRejection, At
<1>3. c \in Conn
  BY <1>1, <1>2 DEF ConnInv, Placed
<1>4. PICK r : Moves(t, r) /\ r.pc = "reject_write" /\ r.at = c
  <2>1. thread[t].left - 1 \in Nat
    BY DEF SendRejection, ConnInv, TypeOK
  <2> QED
    BY <1>1, <1>2, <2>1, GotoWithMoves DEF ConnInv, Program, Leads
<1>5. TypeOK'
  <2>1. conn \in [Conn -> ConnRecord]
    BY DEF ConnInv, TypeOK, ConnRecord
  <2>2. PICK n \in Int, m \in Nat : n = conn[c].ops + 1 /\ m = conn[c].leaked + 1
    BY <1>3, <2>1 DEF ConnRecord
  <2>3. conn' = WithLeaked(conn, c, n, m)
    BY <1>2, <1>3, <2>1, <2>2 DEF WithLeaked
  <2>4. conn' \in [Conn -> ConnRecord]
    BY <1>3, <2>1, <2>3, TypeFields
  <2> QED
    BY <1>2, <1>4, <2>4, TypeKept DEF ConnInv, TypeOK
<1>6. /\ \A d \in Conn \ {c} : conn'[d] = conn[d]
      /\ conn'[c].state = conn[c].state /\ conn'[c].userid = conn[c].userid
      /\ conn'[c].ops = conn[c].ops + 1 /\ conn'[c].pending = conn[c].pending
      /\ conn'[c].leaked = conn[c].leaked + 1 /\ conn'[c].queued = conn[c].queued
      /\ conn'[c].write_in_progress = conn[c].write_in_progress
  BY <1>2, <1>3 DEF ConnInv, TypeOK
<1>7. RegisteredIsAlive'
  BY <1>2, <1>3, <1>4, <1>6, RegisteredKept, ClaimersStay DEF ConnInv
<1>8. /\ Within(c, Unfinished)' = Within(c, Unfinished)
      /\ Within(c, Writing)' = Within(c, Writing)
      /\ Within(c, Serial)' = Within(c, Serial)
      /\ Within(c, Unclaimed)' = Within(c, Unclaimed)
  BY <1>1, <1>2, <1>3, <1>4, Unmoved DEF ConnInv, Unfinished, Writing, Serial, Unclaimed
<1>9. Local(c)'
  BY <1>3, <1>6, <1>8, KeptByLeak DEF ConnInv, SameChain, SameWriter, SameState
<1> QED
  BY <1>1, <1>3, <1>4, <1>5, <1>6, <1>7, <1>9, OneThreadMoves DEF ConnInv

(* The callback of a Write pops the queue and starts the next Write.       *)
LEMMA StepNextWrite ==
  ASSUME ConnInv, NEW t \in Thread, NextWrite(t)
  PROVE  ConnInv'
<1>1. PICK c : c = thread[t].at
  OBVIOUS
<1>2. /\ thread[t].pc = "next_write" /\ Goto(t, "idle")
      /\ UNCHANGED <<streams, requests, undefined>>
  BY DEF NextWrite, At
<1>3. c \in Conn /\ None # c
  BY <1>1, <1>2, ConnectionAssumption DEF ConnInv, Placed
<1>4. PICK r : Moves(t, r) /\ r.pc = "idle" /\ r.at = None
  BY <1>2, GotoMoves DEF ConnInv, Program, Leads
<1>5. t \in Within(c, Writing) /\ Within(c, Writing)' = Within(c, Writing) \ {t}
  <2>1. t \in Within(c, Writing)
    BY <1>1, <1>2 DEF Within, Writing
  <2> QED
    BY <1>3, <1>4, <2>1, StaysOut DEF ConnInv
<1>6. /\ Within(c, Unfinished)' = Within(c, Unfinished)
      /\ Within(c, Serial)' = Within(c, Serial)
      /\ Within(c, Unclaimed)' = Within(c, Unclaimed)
  BY <1>1, <1>2, <1>3, <1>4, Unmoved DEF ConnInv, Unfinished, Serial, Unclaimed
<1>7. Local(c)' /\ conn[c].queued > 0
  BY <1>1, <1>3, <1>5, <1>6, KeptByNextWrite DEF ConnInv, SameChain
<1>a. PICK more \in BOOLEAN : \E k :
        /\ k = IF more THEN Started(c, "write") ELSE conn
        /\ conn' = [k EXCEPT ![c].queued = @ - 1, ![c].write_in_progress = more]
  BY <1>1 DEF NextWrite, ConnInv, TypeOK
<1>8. PICK k :
        /\ k = IF more THEN Started(c, "write") ELSE conn
        /\ conn' = [k EXCEPT ![c].queued = @ - 1, ![c].write_in_progress = more]
  BY <1>a
<1>9. k \in [Conn -> ConnRecord]
  <2>1. conn \in [Conn -> ConnRecord]
    BY DEF ConnInv, TypeOK, ConnRecord
  <2> QED
    BY <1>3, <1>8, <2>1, TypeStarted DEF ConnInv, Operation
<1>10. /\ \A d \in Conn \ {c} : k[d] = conn[d]
       /\ k[c].state = conn[c].state /\ k[c].userid = conn[c].userid
       /\ k[c].queued = conn[c].queued
  BY <1>3, <1>8 DEF Started, ConnInv, TypeOK
<1>11. TypeOK'
  <2>1. PICK n \in Nat : n = k[c].queued - 1
    BY <1>3, <1>7, <1>9, <1>10 DEF ConnRecord
  <2>2. conn' = WithQueued(k, c, n, more)
    BY <1>8, <2>1 DEF WithQueued
  <2>3. conn' \in [Conn -> ConnRecord]
    BY <1>3, <1>9, <2>2, TypeFields
  <2> QED
    BY <1>2, <1>4, <2>3, TypeKept DEF ConnInv, TypeOK
<1>12. /\ \A d \in Conn \ {c} : conn'[d] = conn[d]
       /\ conn'[c].state = conn[c].state /\ conn'[c].userid = conn[c].userid
  BY <1>3, <1>8, <1>9, <1>10 DEF ConnRecord
<1>13. RegisteredIsAlive'
  BY <1>2, <1>3, <1>4, <1>12, RegisteredKept, ClaimersStay DEF ConnInv
<1> QED
  BY <1>1, <1>3, <1>4, <1>7, <1>11, <1>12, <1>13, OneThreadMoves DEF ConnInv
-----------------------------------------------------------------------------
(***************************************************************************)
(* Completions.                                                            *)
(***************************************************************************)
(* An idle thread takes the completion of an operation of the chain.       *)
LEMMA TakeStep ==
  ASSUME ConnInv, NEW t \in Thread, NEW c \in Conn, NEW op \in Reads,
         NEW ok \in BOOLEAN, NEW u \in User \cup {None}, Run(t, c, op, ok, u),
         conn' \in [Conn -> ConnRecord], \A d \in Conn \ {c} : conn'[d] = conn[d],
         conn'[c].pending \cap Operation = (conn[c].pending \cap Operation) \ {op},
         conn'[c].state = conn[c].state, conn'[c].userid = conn[c].userid,
         conn'[c].ops = conn[c].ops, conn'[c].leaked = conn[c].leaked,
         conn'[c].queued = conn[c].queued,
         conn'[c].write_in_progress = conn[c].write_in_progress,
         requests' \in Nat, UNCHANGED <<streams, undefined>>
  PROVE  ConnInv'
<1>1. PICK q \in {"create", "verify", "read_dec"} :
        /\ q = Callback[op]
        /\ op = "read" <=> q = "read_dec"
  BY DEF Callback, Reads
<1>2. PICK r : /\ r = [pc |-> q, at |-> c, ok |-> ok, user |-> u, left |-> 0]
               /\ r \in ThreadRecord /\ r.pc = q /\ r.at = c
  <2>1. [pc |-> q, at |-> c, ok |-> ok, user |-> u, left |-> 0] \in ThreadRecord
    BY DEF ThreadRecord, Program
  <2> QED
    BY <2>1
<1>3. Moves(t, r) /\ thread[t].pc = "idle" /\ op \in conn[c].pending
  BY <1>1, <1>2 DEF Run, Moves
<1>4. thread[t].at = None /\ None # c
  BY <1>3, ConnectionAssumption DEF ConnInv, Placed
<1>5. TypeOK'
  BY <1>3, TypeKept DEF ConnInv, TypeOK
<1>6. RegisteredIsAlive'
  BY <1>3, RegisteredKept, ClaimersStay DEF ConnInv
<1>7. /\ Within(c, Serial)' = Within(c, Serial) \cup {t}
      /\ Within(c, Unfinished)' = Within(c, Unfinished) \cup {t}
  BY <1>2, <1>3, Enters DEF ConnInv, Serial, Unfinished
<1>8. Within(c, Writing)' = Within(c, Writing)
  BY <1>2, <1>3, <1>4, Unmoved DEF ConnInv, Writing
<1>9. op \in {"init", "verify"} \/ Within(c, Unclaimed)' = Within(c, Unclaimed)
  BY <1>1, <1>2, <1>3, <1>4, Unmoved DEF ConnInv, Unclaimed, Reads
<1>10. t \notin Within(c, Unfinished)
  BY <1>4 DEF Within
<1>11. SameWriter(c) /\ SameState(c)
  BY <1>8 DEF SameWriter, SameState
<1>12. Local(c)'
  BY <1>3, <1>7, <1>9, <1>10, <1>11, KeptByTake DEF ConnInv
<1> QED
  BY <1>2, <1>3, <1>4, <1>5, <1>6, <1>12, OneThreadMoves DEF ConnInv

(* Taking a completion off the queue changes only what is pending.         *)
LEMMA TypeTaken ==
  ASSUME TypeOK, NEW c \in Conn, NEW op
  PROVE  /\ Taken(c, op) \in [Conn -> ConnRecord]
         /\ \A d \in Conn \ {c} : Taken(c, op)[d] = conn[d]
         /\ Taken(c, op)[c].pending = conn[c].pending \ {op}
         /\ Taken(c, op)[c].state = conn[c].state /\ Taken(c, op)[c].userid = conn[c].userid
         /\ Taken(c, op)[c].ops = conn[c].ops /\ Taken(c, op)[c].leaked = conn[c].leaked
         /\ Taken(c, op)[c].queued = conn[c].queued
         /\ Taken(c, op)[c].write_in_progress = conn[c].write_in_progress
<1>1. conn \in [Conn -> ConnRecord]
  BY DEF TypeOK, ConnRecord
<1>2. PICK P \in SUBSET (Operation \cup {"cancel"}) : P = conn[c].pending \ {op}
  BY <1>1 DEF ConnRecord
<1>3. Taken(c, op) = [conn EXCEPT ![c].pending = P]
  BY <1>1, <1>2 DEF Taken
<1>4. [conn EXCEPT ![c].pending = P] \in [Conn -> ConnRecord]
  BY <1>1 DEF ConnRecord
<1> QED
  BY <1>1, <1>2, <1>3, <1>4 DEF ConnRecord

(* The first Read, and each one after it, succeeds or fails.               *)
LEMMA ReadSteps ==
  ASSUME ConnInv, NEW t \in Thread, NEW c \in Conn, NEW op \in {"verify", "read"},
         (\E u \in User : Request(t, c, op, u)) \/ ReadFails(t, c, op)
  PROVE  ConnInv'
<1>1. PICK ok \in BOOLEAN, u \in User \cup {None} : Run(t, c, op, ok, u)
  BY DEF Request, ReadFails
<1>2. conn' = Taken(c, op) /\ requests' \in Nat /\ UNCHANGED <<streams, undefined>>
  <2>1. requests \in Nat
    BY DEF ConnInv, TypeOK
  <2>2. ASSUME NEW w \in User, Request(t, c, op, w)
        PROVE  conn' = Taken(c, op) /\ requests' \in Nat /\ UNCHANGED <<streams, undefined>>
    BY <2>1, <2>2 DEF Request
  <2>3. CASE ReadFails(t, c, op)
    BY <2>1, <2>3 DEF ReadFails
  <2> QED
    BY <2>2, <2>3
<1>3. /\ conn' \in [Conn -> ConnRecord]
      /\ \A d \in Conn \ {c} : conn'[d] = conn[d]
      /\ conn'[c].pending = conn[c].pending \ {op}
      /\ conn'[c].state = conn[c].state /\ conn'[c].userid = conn[c].userid
      /\ conn'[c].ops = conn[c].ops /\ conn'[c].leaked = conn[c].leaked
      /\ conn'[c].queued = conn[c].queued
      /\ conn'[c].write_in_progress = conn[c].write_in_progress
  BY <1>2, TypeTaken DEF ConnInv
<1>4. conn'[c].pending \cap Operation = (conn[c].pending \cap Operation) \ {op}
  BY <1>3
<1> QED
  BY <1>1, <1>2, <1>3, <1>4, TakeStep DEF Reads

(* A client connects.                                                      *)
LEMMA StepConnect ==
  ASSUME ConnInv, NEW t \in Thread, NEW c \in Conn, Connect(t, c)
  PROVE  ConnInv'
<1>1. PICK ok \in BOOLEAN, u \in User \cup {None} : Run(t, c, "init", ok, u)
  BY DEF Connect
<1>2. PICK k : /\ k = Taken(c, "init")
               /\ conn' = [k EXCEPT ![c].peer = "connected", ![c].pending = @ \cup {"cancel"}]
  BY DEF Connect
<1>3. UNCHANGED <<streams, requests, undefined>> /\ requests' \in Nat
  BY DEF Connect, ConnInv, TypeOK
<1>4. /\ k \in [Conn -> ConnRecord]
      /\ \A d \in Conn \ {c} : k[d] = conn[d]
      /\ k[c].pending = conn[c].pending \ {"init"}
      /\ k[c].state = conn[c].state /\ k[c].userid = conn[c].userid
      /\ k[c].ops = conn[c].ops /\ k[c].leaked = conn[c].leaked
      /\ k[c].queued = conn[c].queued /\ k[c].write_in_progress = conn[c].write_in_progress
  BY <1>2, TypeTaken DEF ConnInv
<1>5. conn' \in [Conn -> ConnRecord]
  <2>1. PICK j : j = [k EXCEPT ![c].peer = "connected"]
    OBVIOUS
  <2>2. j \in [Conn -> ConnRecord]
    BY <1>4, <2>1 DEF ConnRecord
  <2>3. PICK P \in SUBSET (Operation \cup {"cancel"}) : P = k[c].pending \cup {"cancel"}
    BY <1>4 DEF ConnRecord
  <2>4. conn' = [j EXCEPT ![c].pending = P]
    BY <1>2, <1>4, <2>1, <2>3 DEF ConnRecord
  <2>5. [j EXCEPT ![c].pending = P] \in [Conn -> ConnRecord]
    BY <2>2 DEF ConnRecord
  <2> QED
    BY <2>4, <2>5
<1>6. /\ \A d \in Conn \ {c} : conn'[d] = conn[d]
      /\ conn'[c].pending = (conn[c].pending \ {"init"}) \cup {"cancel"}
      /\ conn'[c].state = conn[c].state /\ conn'[c].userid = conn[c].userid
      /\ conn'[c].ops = conn[c].ops /\ conn'[c].leaked = conn[c].leaked
      /\ conn'[c].queued = conn[c].queued
      /\ conn'[c].write_in_progress = conn[c].write_in_progress
  BY <1>2, <1>4 DEF ConnRecord
<1>7. conn'[c].pending \cap Operation = (conn[c].pending \cap Operation) \ {"init"}
  BY <1>6 DEF Operation
<1> QED
  BY <1>1, <1>3, <1>5, <1>6, <1>7, TakeStep DEF Reads

(* A Write, and the notification that the stream is done.                  *)
LEMMA WrittenSteps ==
  ASSUME ConnInv, NEW t \in Thread, NEW c \in Conn, Written(t, c) \/ Cancelled(t, c)
  PROVE  ConnInv'
<1>1. PICK ok \in BOOLEAN, op \in {"write", "cancel"} :
        /\ Run(t, c, op, ok, None)
        /\ conn' = Taken(c, op) /\ UNCHANGED <<streams, requests, undefined>>
  BY DEF Written, Cancelled
<1>2. PICK q \in {"write_dec", "cancel"} : q = Callback[op] /\ (op = "write" <=> q = "write_dec")
  BY DEF Callback
<1>3. PICK r : /\ r = [pc |-> q, at |-> c, ok |-> ok, user |-> None, left |-> 0]
               /\ r \in ThreadRecord /\ r.pc = q /\ r.at = c
  <2>1. [pc |-> q, at |-> c, ok |-> ok, user |-> None, left |-> 0] \in ThreadRecord
    BY DEF ThreadRecord, Program
  <2> QED
    BY <2>1
<1>4. Moves(t, r) /\ thread[t].pc = "idle" /\ op \in conn[c].pending
  BY <1>1, <1>2, <1>3 DEF Run, Moves
<1>5. thread[t].at = None /\ None # c
  BY <1>4, ConnectionAssumption DEF ConnInv, Placed
<1>6. /\ conn' \in [Conn -> ConnRecord]
      /\ \A d \in Conn \ {c} : conn'[d] = conn[d]
      /\ conn'[c].pending = conn[c].pending \ {op}
      /\ conn'[c].state = conn[c].state /\ conn'[c].userid = conn[c].userid
      /\ conn'[c].ops = conn[c].ops /\ conn'[c].leaked = conn[c].leaked
      /\ conn'[c].queued = conn[c].queued
      /\ conn'[c].write_in_progress = conn[c].write_in_progress
  BY <1>1, TypeTaken DEF ConnInv
<1>7. TypeOK'
  BY <1>1, <1>4, <1>6, TypeKept DEF ConnInv, TypeOK
<1>8. RegisteredIsAlive'
  BY <1>1, <1>4, <1>6, RegisteredKept, ClaimersStay DEF ConnInv
<1>9. SameChain(c)
  <2>1. /\ Within(c, Serial)' = Within(c, Serial)
        /\ Within(c, Unclaimed)' = Within(c, Unclaimed)
    BY <1>2, <1>3, <1>4, <1>5, Unmoved DEF ConnInv, Serial, Unclaimed
  <2> QED
    BY <2>1 DEF SameChain
<1>10. CASE op = "write"
  <2>1. /\ Within(c, Writing)' = Within(c, Writing) \cup {t}
        /\ Within(c, Unfinished)' = Within(c, Unfinished) \cup {t}
    BY <1>2, <1>3, <1>4, <1>10, Enters DEF ConnInv, Writing, Unfinished
  <2>2. t \notin Within(c, Unfinished)
    BY <1>5 DEF Within
  <2>3. Local(c)'
    BY <1>4, <1>6, <1>9, <1>10, <2>1, <2>2, KeptByWritten DEF ConnInv, SameState
  <2> QED
    BY <1>3, <1>4, <1>5, <1>6, <1>7, <1>8, <2>3, OneThreadMoves DEF ConnInv
<1>11. CASE op = "cancel"
  <2>1. /\ Within(c, Writing)' = Within(c, Writing)
        /\ Within(c, Unfinished)' = Within(c, Unfinished)
    BY <1>2, <1>3, <1>4, <1>5, <1>11, Unmoved DEF ConnInv, Writing, Unfinished
  <2>2. conn'[c].pending \cap Operation = conn[c].pending \cap Operation
    BY <1>6, <1>11 DEF Operation
  <2>3. SameCount(c) /\ SameWriter(c) /\ SameState(c)
    BY <1>6, <2>1, <2>2 DEF SameCount, SameWriter, SameState
  <2>4. Local(c)'
    BY <1>6, <1>9, <2>3, KeptByQuietStep DEF ConnInv
  <2> QED
    BY <1>3, <1>4, <1>5, <1>6, <1>7, <1>8, <2>4, OneThreadMoves DEF ConnInv
<1> QED
  BY <1>10, <1>11
-----------------------------------------------------------------------------
(* The invariant holds of the first connection and of those not yet made.  *)
LEMMA ConnInit == Init => ConnInv
<1> SUFFICES ASSUME Init
             PROVE  ConnInv
  OBVIOUS
<1>1. \A d \in Conn : /\ NewConnection(d) \in ConnRecord
                       /\ [NewConnection(d) EXCEPT !.state = "unborn"] \in ConnRecord
  <2> SUFFICES ASSUME NEW d \in Conn
               PROVE  /\ NewConnection(d) \in ConnRecord
                      /\ [NewConnection(d) EXCEPT !.state = "unborn"] \in ConnRecord
    OBVIOUS
  <2>1. Memory[d] + 1 \in Int
    BY ConnectionAssumption
  <2>2. NewConnection(d) \in ConnRecord
    BY <2>1 DEF NewConnection, ConnRecord, Operation
  <2> QED
    BY <2>2 DEF ConnRecord
<1>2. conn \in [Conn -> ConnRecord]
  BY <1>1 DEF Init
<1>3. Idle \in ThreadRecord
  BY DEF Idle, ThreadRecord, Program
<1>4. TypeOK
  <2>1. thread \in [Thread -> ThreadRecord]
    BY <1>3 DEF Init
  <2>2. streams \in [User -> Conn \cup {None}] /\ requests \in Nat /\ undefined \in BOOLEAN
    BY DEF Init
  <2> QED
    BY <1>2, <2>1, <2>2 DEF TypeOK, ConnRecord, ThreadRecord
<1>5. Placed
  BY DEF Init, Placed, Idle
<1>6. RegisteredIsAlive
  BY DEF Init, RegisteredIsAlive
<1>7. ASSUME NEW d \in Conn
      PROVE  Local(d)
  <2>1. /\ conn[d].pending = {"init"} /\ conn[d].ops = Memory[d] + 1 /\ conn[d].leaked = 0
        /\ conn[d].userid = None /\ ~conn[d].write_in_progress /\ conn[d].state # "deleted"
    BY DEF Init, NewConnection
  <2>2. \A K \in {Serial, Unclaimed, Unfinished, Writing} : Within(d, K) = {}
    BY DEF Init, Idle, Within, Serial, Unclaimed, Unfinished, Writing
  <2>3. conn[d].pending \cap Operation = {"init"}
    BY <2>1 DEF Operation
  <2>4. Counted(d)
    <3>1. Cardinality(conn[d].pending \cap Operation) = 1
      BY <2>3, FS_Singleton
    <3>2. IsFiniteSet(Within(d, Unfinished)) /\ Cardinality(Within(d, Unfinished)) = 0
      BY <2>2, FS_EmptySet
    <3> QED
      BY <2>1, <3>1, <3>2, ConnectionAssumption DEF Counted
  <2>5. OneChain(d) /\ OneWriter(d) /\ Drained(d) /\ NoUserYet(d)
    BY <2>1, <2>2 DEF OneChain, OneWriter, Drained, NoUserYet
  <2> QED
    BY <2>4, <2>5 DEF Local
<1> QED
  BY <1>4, <1>5, <1>6, <1>7 DEF ConnInv

(* Every step of a pool thread, completion and departure of a client keeps *)
(* the invariant.                                                          *)
LEMMA ConnStep == ConnInv /\ [Next]_vars => ConnInv'
<1> SUFFICES ASSUME ConnInv, [Next]_vars
             PROVE  ConnInv'
  OBVIOUS
<1>1. ASSUME NEW t \in Thread, Step(t)
      PROVE  ConnInv'
  <2>1. CASE \/ FindUser(t) \/ FlagRefused(t) \/ WrongUser(t) \/ BookAccepts(t)
             \/ BookRefuses(t) \/ BookReturns(t) \/ FlagCancelled(t) \/ ReturnCancelled(t)
    BY <2>1, QuietSteps
  <2>2. CASE \/ WriteRefused(t) \/ WriteWrongUser(t) \/ Acknowledge(t)
             \/ FillResponse(t) \/ WriteRejection(t)
    BY <2>2, WriteSteps
  <2>3. CASE Check(t) \/ CheckCancelled(t)
    BY <2>3, CheckSteps
  <2>4. CASE StartVerify(t) \/ StartRead(t)
    BY <2>4, StartSteps
  <2>5. CASE NoRequest(t) \/ UseAfterDelete(t) \/ FlagSeen(t)
    BY <2>5, StillSteps
  <2>6. CASE \/ Decrement(t) \/ Create(t) \/ Claim(t) \/ SetUser(t)
             \/ SendRejection(t) \/ NextWrite(t)
    BY <2>6, StepDecrement, StepCreate, StepClaim, StepSetUser, StepSendRejection,
       StepNextWrite
  <2> QED
    BY <1>1, <2>1, <2>2, <2>3, <2>4, <2>5, <2>6 DEF Step
<1>2. ASSUME NEW t \in Thread, NEW c \in Conn, Completion(t, c)
      PROVE  ConnInv'
  BY <1>2, StepConnect, ReadSteps, WrittenSteps DEF Completion
<1>3. CASE UNCHANGED vars \/ \E c \in Conn : ClientLeaves(c)
  BY <1>3, StillSteps
<1> QED
  BY <1>1, <1>2, <1>3 DEF Next

(* The invariant holds.                                                    *)
LEMMA ConnCorrect == Spec => []ConnInv
  BY ConnInit, ConnStep, PTL DEF Spec
-----------------------------------------------------------------------------
(* Every variable keeps its type: no callback pops a response from an      *)
(* empty queue, nor does the book send a response it has not got.          *)
THEOREM ConnectionTypeCorrect == Spec => []TypeOK
<1>1. ConnInv => TypeOK
  BY DEF ConnInv
<1> QED
  BY <1>1, ConnCorrect, PTL

(* current_async_ops_ is what its memory held at first, the operations     *)
(* outstanding and the rejections sent, whatever callbacks of the          *)
(* connection run at once: only its initial value is not defined.          *)
THEOREM CountIsExact == Spec => []OperationsCounted
<1>1. ConnInv => OperationsCounted
  <2> SUFFICES ASSUME ConnInv, NEW c \in Conn
               PROVE  conn[c].ops = Memory[c] + Cardinality(conn[c].pending \cap Operation)
                                    + Cardinality(Uncounted(c)) + conn[c].leaked
    BY DEF OperationsCounted
  <2>1. Uncounted(c) = Within(c, Unfinished)
    BY DEF Uncounted, Within, Unfinished
  <2> QED
    BY <2>1 DEF ConnInv, Local, Counted
<1> QED
  BY <1>1, ConnCorrect, PTL

(* No Read or Write of a deleted connection is left to complete, unless    *)
(* its count started below 0 (in the upper half of the numbers modulo      *)
(* 2^64), from where it comes to 0 too soon.                               *)
THEOREM OperationsEndFirst == Spec => []NoOperationOutlivesConnection
<1>1. ConnInv => NoOperationOutlivesConnection
  BY DEF ConnInv, Local, Drained, NoOperationOutlivesConnection
<1> QED
  BY <1>1, ConnCorrect, PTL

(* A connection whose count started above 0 is never deleted, so that the  *)
(* user id it claimed stays taken: initialising current_async_ops_ is      *)
(* necessary.                                                              *)
THEOREM CountFromAboveZeroStays ==
  Spec => [](\A c \in Conn : Memory[c] > 0 => conn[c].state # "deleted")
<1> DEFINE Stays == \A c \in Conn : Memory[c] > 0 => conn[c].state # "deleted"
<1>1. ConnInv => Stays
  BY DEF ConnInv, Local, Drained
<1> QED
  BY <1>1, ConnCorrect, PTL

(* client_streams_ never holds a deleted connection, nor one under a user  *)
(* id that is not its own, although find, emplace and the assignment of    *)
(* userid_ are separate steps; but a connection whose count started below  *)
(* 0 may be deleted between the last two, and leave its entry.             *)
THEOREM NoDanglingStream == Spec => []RegisteredIsAlive
<1>1. ConnInv => RegisteredIsAlive
  BY DEF ConnInv
<1> QED
  BY <1>1, ConnCorrect, PTL

(* A stream has one Read outstanding at most, or one callback that may     *)
(* start one.                                                              *)
THEOREM ReadsDoNotOverlap == Spec => []OneReader
<1>1. ConnInv => OneReader
  <2> SUFFICES ASSUME ConnInv, NEW c \in Conn
               PROVE  Cardinality(conn[c].pending \cap {"init", "verify", "read"})
                      + Cardinality({t \in Thread : thread[t].at = c
                          /\ thread[t].pc \in {"create", "init_dec", "init_check",
                               "start_verify", "verify", "claim", "claimed", "read_dec",
                               "read_check", "process", "wrong_write", "book", "fills",
                               "reject", "reject_write", "start_read"}}) <= 1
    BY DEF OneReader
  <2> DEFINE P == conn[c].pending \cap {"init", "verify", "read"}
             R == {t \in Thread : thread[t].at = c
                     /\ thread[t].pc \in {"create", "init_dec", "init_check",
                          "start_verify", "verify", "claim", "claimed", "read_dec",
                          "read_check", "process", "wrong_write", "book", "fills",
                          "reject", "reject_write", "start_read"}}
  <2>1. R \subseteq Within(c, Serial)
    BY DEF Within, Serial
  <2>2. OneChain(c) /\ P = conn[c].pending \cap Reads
    BY DEF ConnInv, Local, Reads
  <2> HIDE DEF P, R
  <2>3. /\ \A s, t \in R : s = t
        /\ \A a, b \in P : a = b
        /\ R = {} \/ P = {}
    BY <2>1, <2>2 DEF OneChain
  <2>4. \A S : (\A a, b \in S : a = b) => S = {} \/ \E x : S = {x}
    OBVIOUS
  <2>5. /\ P = {} \/ \E x : P = {x}
        /\ R = {} \/ \E x : R = {x}
    BY <2>3, <2>4
  <2>6. /\ (P = {} /\ Cardinality(P) = 0) \/ Cardinality(P) = 1
        /\ (R = {} /\ Cardinality(R) = 0) \/ Cardinality(R) = 1
    BY <2>5, FS_EmptySet, FS_Singleton
  <2>7. Cardinality(P) + Cardinality(R) <= 1
    BY <2>3, <2>6, FS_EmptySet
  <2> QED
    BY <2>7 DEF P, R
<1> QED
  BY <1>1, ConnCorrect, PTL
=============================================================================
