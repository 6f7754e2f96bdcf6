------------------------- MODULE MCGenericResource -------------------------
(* GenericResource on small instances. *)
EXTENDS GenericResource, TLC

AllSymmetry == Permutations(Threads) \cup Permutations(Devices)
=============================================================================
