----------------------------- MODULE MCSmartLED -----------------------------
(* SmartLED with callbacks that are interchangeable. *)
EXTENDS SmartLED, TLC

Symmetry == Permutations(Threads)

=============================================================================
