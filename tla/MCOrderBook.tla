---------------------------- MODULE MCOrderBook ----------------------------
(* Instances of OrderBook for TLC. *)
EXTENDS OrderBook, TLC

(* Users are compared for equality only. *)
UserSymmetry == Permutations(User)
=============================================================================
