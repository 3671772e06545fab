-------------------------- MODULE MCConditionalWrite --------------------------
(* Symmetry for the model checking of ConditionalWrite. *)
EXTENDS ConditionalWrite, TLC

MCSymmetry == Permutations(Clients) \union Permutations(Cids) \union Permutations(Names)
===============================================================================
