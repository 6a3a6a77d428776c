---------------------------- MODULE DataPlatform ----------------------------
(***************************************************************************)
(* The market data platform (dataplatform.cpp): a thread that reads the    *)
(* exchange's market data and sends each message to the subscribers, and   *)
(* an io thread that accepts subscribers and completes the sends.  Nothing *)
(* guards what they share: the buffer that is sent from, and the set.      *)
(***************************************************************************)
EXTENDS Integers, Sequences

CONSTANTS
  Client,    \* endpoints of clients
  Message,   \* market data messages of the exchange
  Datagram,  \* what clients are sent
  Layout(_), \* the datagram of a message
  Bytes(_),  \* the length of a datagram
  ReadAs(_, _), \* what a client may read of a datagram of which that many bytes are sent
  None       \* no client, no message, no datagram

Length == {Bytes(d) : d \in Datagram}

PlatformAssumption ==
  /\ None \notin Client \cup Message \cup Datagram
  /\ \A m \in Message : Layout(m) \in Datagram
  /\ Length \subseteq Nat
  /\ \A d \in Datagram, n \in Length : ReadAs(d, n) \subseteq Datagram

(* What an execution may meet: a client that starts late, a full socket    *)
(* buffer, a send or receive error, loss and reordering of datagrams.      *)
Fault == {"late", "full", "error", "lose", "swap"}

VARIABLES
  faults,       \* the faults of this execution
  market_data,  \* market_data_
  buffer,       \* temp_buffer_, by the datagram it holds
  subscribers,  \* subscribers_
  reader,       \* the reading thread: before Read, before serialising, in the loop
  at,           \* the subscriber the loop's iterator is at
  tosend,       \* the subscribers after it
  waiting,      \* sends the socket has not taken yet, all from buffer, and their lengths
  failed,       \* failed sends whose handlers have not run
  accepting,    \* a receive is outstanding
  asking,       \* clients whose request to subscribe is under way
  network,      \* datagrams on their way to each client, as it will read them
  cut,          \* one was sent in too few bytes, and is read otherwise than written
  undefined     \* freed memory was used, or the buffer sent while it is written

pvars == <<faults, market_data, buffer, subscribers, reader, at, tosend, waiting,
           failed, accepting, asking, network, cut, undefined>>
rvars == <<faults, accepting, asking>>
-----------------------------------------------------------------------------
(* Slips: wrong variants of definitions below, used by no behaviour. *)
PutMessage(c, d) == /\ network' = [network EXCEPT ![c] = Append(@, market_data)]
                    /\ cut' = cut
-----------------------------------------------------------------------------
PlatformInit ==
  /\ faults \in SUBSET Fault
  /\ subscribers = IF "late" \in faults THEN {} ELSE Client
  /\ asking = Client \ subscribers
  /\ market_data = None /\ buffer = None
  /\ reader = "read" /\ at = None /\ tosend = {}
  /\ waiting = << >>
  /\ failed = [c \in Client |-> 0]
  /\ accepting = TRUE
  /\ network = [c \in Client |-> << >>]
  /\ cut = FALSE
  /\ undefined = FALSE

InLoop == reader = "send"
-----------------------------------------------------------------------------
(***************************************************************************)
(* acceptSubscriber, on the io thread.  An insertion turns the tree under  *)
(* the loop that runs: it may miss subscribers, or visit some again.       *)
(***************************************************************************)
Accept(c) ==
  /\ accepting /\ c \in asking
  /\ asking' = asking \ {c}
  /\ subscribers' = subscribers \cup {c}
  /\ tosend' \in IF InLoop THEN SUBSET subscribers' ELSE {tosend}
  /\ UNCHANGED <<faults, accepting, market_data, buffer, reader, at, waiting, failed,
                 network, cut, undefined>>

(* The receive is not started again after an error. *)
AcceptFails ==
  /\ "error" \in faults /\ accepting
  /\ accepting' = FALSE
  /\ UNCHANGED <<faults, asking, market_data, buffer, subscribers, reader, at, tosend,
                 waiting, failed, network, cut, undefined>>
-----------------------------------------------------------------------------
(***************************************************************************)
(* initiateMarketDataStream, on the reading thread.                        *)
(***************************************************************************)
Read(m) ==
  /\ reader = "read"
  /\ market_data' = m
  /\ reader' = "serialise"
  /\ UNCHANGED <<rvars, buffer, subscribers, at, tosend, waiting, failed, network, cut,
                 undefined>>

Serialised == Layout(market_data)

SerialiseMarketData ==
  /\ reader = "serialise"
  /\ buffer' = Serialised
  /\ reader' = "send"
  /\ at' = None
  /\ tosend' = subscribers
  /\ UNCHANGED <<rvars, market_data, subscribers, waiting, failed, network, cut, undefined>>

Visit(c) == /\ InLoop /\ c \in tosend
            /\ at' = c
            /\ tosend' = tosend \ {c}
            /\ UNCHANGED <<rvars, market_data, buffer, subscribers, reader, undefined>>

(* The client is to read d, which should be what the buffer holds. *)
Put(c, d) == /\ network' = [network EXCEPT ![c] = Append(@, d)]
             /\ cut' = (cut \/ d # buffer)
Fail(c) == "error" \in faults /\ failed' = [failed EXCEPT ![c] = @ + 1]

(* async_send_to tries at once, if no send waits; the socket takes the     *)
(* datagram, fails, or has no room.                                        *)
SendNow(c) == /\ Visit(c) /\ waiting = << >>
              /\ \/ Put(c, buffer) /\ UNCHANGED failed
                 \/ Fail(c) /\ UNCHANGED <<network, cut>>
              /\ UNCHANGED waiting

(* A send that waits keeps the address of the buffer and the length that   *)
(* its first byte gives now.                                               *)
SendLater(c) == /\ Visit(c) /\ "full" \in faults
                /\ waiting' = Append(waiting, [to |-> c, bytes |-> Bytes(buffer)])
                /\ UNCHANGED <<failed, network, cut>>

NextMessage ==
  /\ InLoop /\ tosend = {}
  /\ reader' = "read"
  /\ at' = None
  /\ UNCHANGED <<rvars, market_data, buffer, subscribers, tosend, waiting, failed,
                 network, cut, undefined>>
-----------------------------------------------------------------------------
(***************************************************************************)
(* The io thread when the socket has room again: it sends what the buffer  *)
(* holds by now, in the length of what it held then.                       *)
(***************************************************************************)
Transmit ==
  /\ waiting # << >>
  /\ waiting' = Tail(waiting)
  /\ \/ /\ \E d \in ReadAs(buffer, Head(waiting).bytes) : Put(Head(waiting).to, d)
        /\ UNCHANGED <<failed, undefined>>
     \/ Fail(Head(waiting).to) /\ UNCHANGED <<network, cut, undefined>>
     \/ reader = "serialise" /\ undefined' = TRUE /\ UNCHANGED <<failed, network, cut>>
  /\ UNCHANGED <<rvars, market_data, buffer, subscribers, reader, at, tosend>>

(* The handler of a failed send: erase(find(subscriber)), which is undefined *)
(* when it has been erased before and under the iterator of the loop.        *)
SendFailed(c) ==
  /\ failed[c] > 0
  /\ failed' = [failed EXCEPT ![c] = @ - 1]
  /\ subscribers' = subscribers \ {c}
  /\ tosend' = tosend \ {c}
  /\ undefined' = (c \notin subscribers \/ (InLoop /\ at = c))
  /\ UNCHANGED <<rvars, market_data, buffer, reader, at, waiting, network, cut>>
-----------------------------------------------------------------------------
PlatformStep == \/ SerialiseMarketData \/ NextMessage \/ Transmit \/ AcceptFails
                \/ \E c \in Client : Accept(c) \/ SendNow(c) \/ SendLater(c) \/ SendFailed(c)

PlatformNext == ~undefined /\ (PlatformStep \/ \E m \in Message : Read(m))

PlatformSpec == PlatformInit /\ [][PlatformNext]_pvars
-----------------------------------------------------------------------------
(* Every variable has its type: endpoints that are clients', sends of some *)
(* length, and datagrams that a client can read, written so or not.        *)
PlatformTypeOK ==
  /\ faults \subseteq Fault
  /\ market_data \in Message \cup {None} /\ buffer \in Datagram \cup {None}
  /\ subscribers \subseteq Client /\ asking \subseteq Client
  /\ reader \in {"read", "serialise", "send"}
  /\ at \in Client \cup {None}
  /\ tosend \subseteq Client
  /\ waiting \in Seq([to : Client, bytes : Nat])
  /\ failed \in [Client -> Nat]
  /\ {accepting, cut, undefined} \subseteq BOOLEAN
  /\ network \in [Client -> Seq(Datagram)]
=============================================================================
