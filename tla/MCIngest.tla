------------------------------ MODULE MCIngest ------------------------------
(* Models of Ingest for TLC. *)
EXTENDS Ingest, TLC

Symmetry == Permutations(Requests) \cup Permutations(Conns)
=============================================================================
