------------------------------ MODULE MCBroker ------------------------------
(* Model of Broker for TLC. *)
EXTENDS Broker, TLC

Symmetry == Permutations(Requests) \cup Permutations(Conns)
=============================================================================
