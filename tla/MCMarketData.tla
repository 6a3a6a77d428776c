---------------------------- MODULE MCMarketData ----------------------------
(* An instance of MarketData for TLC. *)
EXTENDS MarketData

(* No fault or one, with a client that only listens; no fault, with an     *)
(* active one.                                                             *)
FewExecutions ==
  {[faults |-> f, active |-> FALSE] : f \in {{}} \cup {{x} : x \in Platform!Fault}}
  \cup {[faults |-> {}, active |-> TRUE]}

(* The client's buffer as it starts, all zeros, and after an order. *)
ZerosOrOrder == {[ticker |-> "none", side |-> "sell", price |-> 0, qty |-> 0],
                 [ticker |-> "this", side |-> "buy", price |-> 1, qty |-> 1]}

(* What the theorems assume of the constants holds here. *)
ASSUME Platform!PlatformAssumption /\ Feed!FeedAssumption /\ QuantitiesFit
=============================================================================
