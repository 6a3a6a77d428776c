--------------------------- MODULE MessageChannel ---------------------------
(***************************************************************************)
(* What the queues in front of the server's gRPC streams promise.  Message *)
(* n is the n-th one sent.  Messages are delivered in the order they were  *)
(* sent, each once, and all of them unless the stream breaks.              *)
(*                                                                         *)
(* WriteQueue.tla implements this module.                                  *)
(***************************************************************************)
EXTENDS Naturals, Sequences

VARIABLES
  sent,       \* number of messages sent
  delivered,  \* the messages delivered, in order
  broken      \* the stream has failed

cvars == <<sent, delivered, broken>>

CInit == sent = 0 /\ delivered = << >> /\ broken = FALSE

Send == sent' = sent + 1 /\ UNCHANGED <<delivered, broken>>

Deliver == /\ ~broken
           /\ Len(delivered) < sent
           /\ delivered' = Append(delivered, Len(delivered) + 1)
           /\ UNCHANGED <<sent, broken>>

Break == broken' = TRUE /\ UNCHANGED <<sent, delivered>>

CNext == Send \/ Deliver \/ Break

CSpec == CInit /\ [][CNext]_cvars /\ WF_cvars(Deliver)
=============================================================================
