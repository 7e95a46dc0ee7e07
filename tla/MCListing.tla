----------------------------- MODULE MCListing -----------------------------
(* Models of Listing for TLC. *)
EXTENDS Listing, TLC

Symmetry == Permutations(Requests)
=============================================================================
