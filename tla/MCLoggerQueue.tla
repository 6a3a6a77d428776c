--------------------------- MODULE MCLoggerQueue ---------------------------
(* Instances of LoggerQueue for TLC. *)
EXTENDS LoggerQueue
=============================================================================
