------------------------- MODULE DataPlatformProofs -------------------------
(***************************************************************************)
(* Proofs about DataPlatform, for any set of clients and messages.         *)
(***************************************************************************)
EXTENDS DataPlatform, TLAPS, SequenceTheorems

Send == [to : Client, bytes : Length]

(* What goes through the loop: the sends are to clients, of datagrams.     *)
Loop == /\ at \in Client \cup {None} /\ tosend \subseteq subscribers
        /\ waiting \in Seq(Send)
        /\ failed \in [Client -> Nat]
        /\ network \in [Client -> Seq(Datagram)]

(* A thread that sends has a datagram in the buffer, and so has every send  *)
(* that waits: the buffer is written before the first one.                 *)
Filled == /\ reader = "serialise" => market_data \in Message
          /\ reader = "send" => buffer \in Datagram
          /\ waiting # << >> => buffer \in Datagram

(* Only a send that waits can be cut. *)
Whole == "full" \notin faults => waiting = << >> /\ ~cut

PlatformInv == PlatformTypeOK /\ Loop /\ Filled /\ Whole

(* The length of a send is a number. *)
LEMMA SendsOK ==
  ASSUME PlatformAssumption, NEW s \in Seq(Send)
  PROVE  s \in Seq([to : Client, bytes : Nat])
<1>1. Send \subseteq [to : Client, bytes : Nat]
  BY DEF Send, PlatformAssumption
<1> QED BY ONLY <1>1, s \in Seq(Send), SeqMonotonic

(* The socket takes a datagram. *)
LEMMA PutOK ==
  ASSUME PlatformInv, NEW c \in Client, NEW d \in Datagram, Put(c, d)
  PROVE  network' \in [Client -> Seq(Datagram)] /\ cut' \in BOOLEAN
<1>1. network[c] \in Seq(Datagram) /\ network \in [Client -> Seq(Datagram)]
  BY DEF PlatformInv, Loop
<1>2. Append(network[c], d) \in Seq(Datagram)
  BY <1>1
<1> QED BY <1>1, <1>2 DEF Put

(* A send that fails is counted. *)
LEMMA FailOK ==
  ASSUME PlatformInv, NEW c \in Client, Fail(c)
  PROVE  failed' \in [Client -> Nat]
<1>1. failed \in [Client -> Nat]
  BY DEF PlatformInv, Loop
<1> QED BY <1>1 DEF Fail

(* The platform starts in the invariant. *)
LEMMA PlatformInitOK ==
  ASSUME PlatformInit PROVE PlatformInv
<1>1. << >> \in Seq(Send) /\ << >> \in Seq([to : Client, bytes : Nat]) /\ << >> \in Seq(Datagram)
  OBVIOUS
<1>2. failed \in [Client -> Nat] /\ network \in [Client -> Seq(Datagram)]
  BY <1>1 DEF PlatformInit
<1>3. subscribers \subseteq Client
  BY DEF PlatformInit
<1> QED BY <1>1, <1>2, <1>3 DEF PlatformInit, PlatformInv, PlatformTypeOK, Loop, Filled, Whole

(* The steps of the io thread. *)
LEMMA AcceptOK ==
  ASSUME PlatformInv, NEW c \in Client, Accept(c)
  PROVE  PlatformInv'
<1>1. tosend' \subseteq subscribers' /\ subscribers' \subseteq Client
  BY DEF Accept, PlatformInv, PlatformTypeOK, Loop
<1> QED BY <1>1 DEF Accept, PlatformInv, PlatformTypeOK, Loop, Filled, Whole

(* A receive that fails is the last. *)
LEMMA AcceptFailsOK ==
  ASSUME PlatformInv, AcceptFails
  PROVE  PlatformInv'
BY DEF AcceptFails, PlatformInv, PlatformTypeOK, Loop, Filled, Whole

(* A send that waited goes out, fails, or meets the writing of the buffer. *)
LEMMA TransmitOK ==
  ASSUME PlatformAssumption, PlatformInv, Transmit
  PROVE  PlatformInv'
<1> DEFINE s == Head(waiting)
<1>1. waiting \in Seq(Send) /\ waiting # << >> /\ "full" \in faults
  BY DEF Transmit, PlatformInv, Loop, Whole
<1>2. s \in Send /\ waiting' \in Seq(Send)
  BY <1>1, HeadTailProperties DEF Transmit
<1>3. buffer \in Datagram
  BY <1>1 DEF PlatformInv, Filled
<1>4. \/ (\E d \in ReadAs(buffer, s.bytes) : Put(s.to, d)) /\ UNCHANGED <<failed, undefined>>
      \/ Fail(s.to) /\ UNCHANGED <<network, cut, undefined>>
      \/ undefined' = TRUE /\ UNCHANGED <<failed, network, cut>>
  BY DEF Transmit
<1>5. UNCHANGED <<rvars, market_data, buffer, subscribers, reader, at, tosend>>
  BY DEF Transmit
<1> HIDE DEF s
<1>6. s.to \in Client /\ s.bytes \in Length /\ ReadAs(buffer, s.bytes) \subseteq Datagram
  <2>1. s.to \in Client /\ s.bytes \in Length
    BY <1>2 DEF Send
  <2> QED BY <1>3, <2>1 DEF PlatformAssumption
<1>7. /\ network' \in [Client -> Seq(Datagram)] /\ cut' \in BOOLEAN
      /\ failed' \in [Client -> Nat]
  <2>1. network \in [Client -> Seq(Datagram)] /\ cut \in BOOLEAN /\ failed \in [Client -> Nat]
    BY DEF PlatformInv, PlatformTypeOK, Loop
  <2> QED BY <1>4, <1>6, <2>1, PutOK, FailOK
<1>8. undefined' \in BOOLEAN
  BY <1>4 DEF PlatformInv, PlatformTypeOK
<1> QED
  BY <1>1, <1>2, <1>3, <1>5, <1>7, <1>8, SendsOK
  DEF rvars, PlatformInv, PlatformTypeOK, Loop, Filled, Whole

(* The handler of a failed send erases the subscriber. *)
LEMMA SendFailedOK ==
  ASSUME PlatformInv, NEW c \in Client, SendFailed(c)
  PROVE  PlatformInv'
<1>1. failed' \in [Client -> Nat]
  BY DEF SendFailed, PlatformInv, Loop
<1>2. undefined' \in BOOLEAN
  BY DEF SendFailed
<1> QED BY <1>1, <1>2 DEF SendFailed, rvars, PlatformInv, PlatformTypeOK, Loop, Filled, Whole

(* The steps of the reading thread. *)
LEMMA ReadOK ==
  ASSUME PlatformInv, NEW m \in Message, Read(m)
  PROVE  PlatformInv'
BY DEF Read, rvars, PlatformInv, PlatformTypeOK, Loop, Filled, Whole

(* serialiseMarketData fills the buffer and the loop begins. *)
LEMMA SerialiseOK ==
  ASSUME PlatformAssumption, PlatformInv, SerialiseMarketData
  PROVE  PlatformInv'
<1>1. buffer' \in Datagram
  BY DEF SerialiseMarketData, Serialised, PlatformAssumption, PlatformInv, Filled
<1> QED BY <1>1 DEF SerialiseMarketData, rvars, PlatformInv, PlatformTypeOK, Loop, Filled, Whole

(* async_send_to sends at once, fails or waits. *)
LEMMA SendOK ==
  ASSUME PlatformAssumption, PlatformInv, NEW c \in Client, SendNow(c) \/ SendLater(c)
  PROVE  PlatformInv'
<1> DEFINE s == [to |-> c, bytes |-> Bytes(buffer)]
<1>1. /\ Visit(c)
      /\ \/ Put(c, buffer) /\ UNCHANGED <<failed, waiting>>
         \/ Fail(c) /\ UNCHANGED <<network, cut, waiting>>
         \/ /\ "full" \in faults
            /\ waiting' = Append(waiting, s) /\ UNCHANGED <<failed, network, cut>>
  BY DEF SendNow, SendLater
<1>2. /\ buffer \in Datagram /\ reader = "send" /\ at' = c /\ tosend' = tosend \ {c}
      /\ UNCHANGED <<rvars, market_data, buffer, subscribers, reader, undefined>>
  BY <1>1 DEF Visit, InLoop, PlatformInv, Filled
<1>3. /\ network' \in [Client -> Seq(Datagram)] /\ cut' \in BOOLEAN
      /\ failed' \in [Client -> Nat]
  <2>1. network \in [Client -> Seq(Datagram)] /\ cut \in BOOLEAN /\ failed \in [Client -> Nat]
    BY DEF PlatformInv, PlatformTypeOK, Loop
  <2> QED BY <1>1, <1>2, <2>1, PutOK, FailOK
<1>4. waiting' \in Seq(Send)
  <2>1. waiting \in Seq(Send)
    BY DEF PlatformInv, Loop
  <2>2. s \in Send
    BY <1>2 DEF Length, Send
  <2> HIDE DEF s
  <2> QED BY <1>1, <2>1, <2>2
<1>5. Whole'
  <2>1. cut \in BOOLEAN
    BY DEF PlatformInv, PlatformTypeOK
  <2>2. cut' = cut /\ ("full" \in faults \/ waiting' = waiting)
    BY <1>1, <2>1 DEF Put
  <2> QED BY <1>2, <2>2 DEF Whole, PlatformInv, rvars
<1> QED
  BY <1>2, <1>3, <1>4, <1>5, SendsOK DEF rvars, PlatformInv, PlatformTypeOK, Loop, Filled, Whole

(* The loop ends. *)
LEMMA NextMessageOK ==
  ASSUME PlatformInv, NextMessage
  PROVE  PlatformInv'
BY DEF NextMessage, rvars, PlatformInv, PlatformTypeOK, Loop, Filled, Whole

(* Every step of the two threads keeps the invariant. *)
LEMMA PlatformStepOK ==
  ASSUME PlatformAssumption, PlatformInv, PlatformStep
  PROVE  PlatformInv'
BY SerialiseOK, NextMessageOK, TransmitOK, AcceptOK, AcceptFailsOK, SendOK, SendFailedOK
DEF PlatformStep

(***************************************************************************)
(* Everything under way in the platform is in the set D: what is read,     *)
(* what the buffer holds while it may be sent, and what is on the network  *)
(* until a datagram is cut.                                                *)
(***************************************************************************)
Carries(D) == /\ reader = "serialise" => Layout(market_data) \in D
              /\ reader = "send" \/ waiting # << >> => buffer \in D
              /\ cut \/ \A c \in Client : network[c] \in Seq(D)

(* A send takes its datagram from the buffer, or it is cut. *)
LEMMA PutCarries ==
  ASSUME PlatformInv, NEW D, Carries(D), NEW c \in Client, NEW d, buffer \in D, Put(c, d)
  PROVE  cut' \/ \A e \in Client : network'[e] \in Seq(D)
<1> SUFFICES ASSUME ~cut' PROVE \A e \in Client : network'[e] \in Seq(D)
  OBVIOUS
<1>1. /\ d \in D /\ network \in [Client -> Seq(Datagram)]
      /\ \A e \in Client : network[e] \in Seq(D)
  BY DEF PlatformInv, Loop, Carries, Put
<1>2. Append(network[c], d) \in Seq(D)
  BY <1>1
<1>3. \A e \in Client : network'[e] = IF e = c THEN Append(network[c], d) ELSE network[e]
  BY <1>1 DEF Put
<1> QED BY <1>1, <1>2, <1>3

(* No step puts anything else under way: the steps of the threads only     *)
(* pass on what was read, however often, or cut it.                        *)
LEMMA CarriesStep ==
  ASSUME PlatformInv, NEW D, Carries(D), PlatformStep
  PROVE  Carries(D)'
<1>1. CASE SerialiseMarketData
  BY <1>1 DEF SerialiseMarketData, Serialised, rvars, Carries
<1>2. CASE NextMessage \/ AcceptFails \/ \E c \in Client : Accept(c) \/ SendFailed(c)
  <2>1. /\ reader' = reader \/ reader' = "read"
        /\ UNCHANGED <<market_data, buffer, waiting, network, cut>>
    BY <1>2 DEF NextMessage, AcceptFails, Accept, SendFailed
  <2> QED BY <2>1 DEF Carries
<1>3. CASE Transmit
  <2> DEFINE s == Head(waiting)
  <2>1. /\ waiting # << >>
        /\ (\E d \in ReadAs(buffer, s.bytes) : Put(s.to, d)) \/ UNCHANGED <<network, cut>>
        /\ UNCHANGED <<reader, market_data, buffer>>
    BY <1>3 DEF Transmit
  <2>2. buffer \in D /\ s.to \in Client
    <3>1. waiting \in Seq(Send)
      BY DEF PlatformInv, Loop
    <3>2. s \in Send
      BY <2>1, <3>1, HeadTailProperties
    <3> QED BY <2>1, <3>2 DEF Carries, Send
  <2>3. cut' \/ \A e \in Client : network'[e] \in Seq(D)
    <3> HIDE DEF s
    <3> QED BY <2>1, <2>2, PutCarries DEF Carries
  <2> QED BY <2>1, <2>2, <2>3 DEF Carries
<1>4. ASSUME NEW c \in Client, SendNow(c) \/ SendLater(c)
      PROVE  Carries(D)'
  <2>1. /\ reader = "send" /\ (Put(c, buffer) \/ UNCHANGED <<network, cut>>)
        /\ UNCHANGED <<reader, market_data, buffer>>
    BY <1>4 DEF SendNow, SendLater, Visit, InLoop
  <2>2. buffer \in D
    BY <2>1 DEF Carries
  <2>3. cut' \/ \A e \in Client : network'[e] \in Seq(D)
    BY <2>1, <2>2, PutCarries DEF Carries
  <2> QED BY <2>1, <2>2, <2>3 DEF Carries
<1> QED BY <1>1, <1>2, <1>3, <1>4 DEF PlatformStep

(* Whatever the two threads do, however sends wait or fail and wherever    *)
(* the length of one cuts another message, no send is to anyone but a      *)
(* client, or before the buffer was filled, and what a client is left to   *)
(* read is a datagram, though it need not be one that was written.         *)
THEOREM PlatformTypeCorrect == PlatformAssumption => (PlatformSpec => []PlatformTypeOK)
<1> SUFFICES ASSUME PlatformAssumption PROVE PlatformSpec => []PlatformTypeOK
  OBVIOUS
<1>1. PlatformInit => PlatformInv
  BY PlatformInitOK
<1>2. PlatformInv /\ [PlatformNext]_pvars => PlatformInv'
  <2> SUFFICES ASSUME PlatformInv, [PlatformNext]_pvars PROVE PlatformInv'
    OBVIOUS
  <2>1. CASE PlatformStep
    BY <2>1, PlatformStepOK
  <2>2. CASE \E m \in Message : Read(m)
    BY <2>2, ReadOK
  <2>3. CASE UNCHANGED pvars
    BY <2>3 DEF pvars, PlatformInv, PlatformTypeOK, Loop, Filled, Whole
  <2> QED BY <2>1, <2>2, <2>3 DEF PlatformNext
<1>3. PlatformInv => PlatformTypeOK
  BY DEF PlatformInv
<1> QED BY <1>1, <1>2, <1>3, PTL DEF PlatformSpec
=============================================================================
