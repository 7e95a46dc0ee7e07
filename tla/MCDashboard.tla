---------------------------- MODULE MCDashboard ----------------------------
(* Models of Dashboard for TLC. *)
EXTENDS Dashboard

Symmetry == Permutations(Requests) \cup Permutations(Slots)
=============================================================================
