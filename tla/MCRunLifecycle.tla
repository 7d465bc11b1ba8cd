--------------------------- MODULE MCRunLifecycle ---------------------------
(* Small instances of RunLifecycle. *)
EXTENDS RunExpectations, TLC

\* claims, task slots and request slots are interchangeable
Symmetry ==
  Permutations(Claims) \cup Permutations(Tasks) \cup Permutations(Clients)
=============================================================================
