--------------------------- MODULE MCApprovalQueue ---------------------------
(* A small instance of ApprovalQueue. *)
EXTENDS ApprovalInvariant, TLC

\* claims are interchangeable
Symmetry == Permutations(Claims)
=============================================================================
