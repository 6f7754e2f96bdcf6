---------------------------- MODULE MCDeviceModel ----------------------------
(* DeviceModel on small instances. *)
EXTENDS DeviceModel, TLC

(* A device of class 3 that is alive, as the clients build it: alerted or not. *)
MCNewClasses ==
  {[classId |-> 3, alertState |-> b, aliveState |-> TRUE] : b \in BOOLEAN}

(* Devices and rooms share nothing but the bound on both: a state where something
   was done to each is checked, but its successors are not looked at. *)
OneOfTheTwo ==
  \/ deviceBuilder = [uuid |-> "", class |-> None] /\ device = <<>>
  \/ roomBuilder.location = None /\ set[roomBuilder.set] = {} /\ room = <<>>

Symmetry == Permutations(Objects) \cup Permutations(Cells)
=============================================================================
