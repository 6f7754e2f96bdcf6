-------------------------------- MODULE Alarm --------------------------------
(***************************************************************************)
(* What the evacuation system promises, seen from outside: an alarm is     *)
(* given only where there is danger or where somebody has raised the       *)
(* alert, the alert is raised only in danger, and neither the alert nor    *)
(* the alarm of the device that found the danger is taken back.  A device  *)
(* that only follows may give its alarm up, but only once for each answer  *)
(* that it was given before the alert was raised.                          *)
(***************************************************************************)
CONSTANTS
  Detectors,  \* devices with a sensor
  Followers,  \* devices that only ask whether the alert was raised
  Askers      \* what they ask with, one question at a time each

VARIABLES
  danger,     \* it was hot at some detector, or the alert was raised before
  raised,     \* the alert
  alarmed,    \* devices that have been told to give the alarm
  hearsay     \* askers that were told there is no alert, and have not acted yet

vars == <<danger, raised, alarmed, hearsay>>

Devices == Detectors \cup Followers

Init ==
  /\ danger \in BOOLEAN
  /\ raised \in BOOLEAN
  /\ raised => danger
  /\ alarmed = {}
  /\ hearsay = {}

Detect ==
  /\ danger' = TRUE
  /\ UNCHANGED <<raised, alarmed, hearsay>>

Raise ==
  /\ danger
  /\ raised' = TRUE
  /\ UNCHANGED <<danger, alarmed, hearsay>>

(* A detector knows of the danger; a follower must have heard of it. *)
Start(d) ==
  /\ IF d \in Detectors THEN danger ELSE raised
  /\ alarmed' = alarmed \cup {d}
  /\ UNCHANGED <<danger, raised, hearsay>>

(* Nobody is told any more that there is no alert once it was raised. *)
Hear(a) ==
  /\ ~raised
  /\ hearsay' = hearsay \cup {a}
  /\ UNCHANGED <<danger, raised, alarmed>>

(* A follower acts on what it had heard, be it out of date by now. *)
Lapse(d, a) ==
  /\ a \in hearsay
  /\ hearsay' = hearsay \ {a}
  /\ alarmed' = alarmed \ {d}
  /\ UNCHANGED <<danger, raised>>

Next ==
  \/ Detect
  \/ Raise
  \/ \E d \in Devices : Start(d)
  \/ \E a \in Askers : Hear(a)
  \/ \E d \in Followers, a \in Askers : Lapse(d, a)

Spec == Init /\ [][Next]_vars

-----------------------------------------------------------------------------
(* What follows: who gives the alarm has a reason, and a follower a good one. *)
AlarmHasCause ==
  /\ raised \/ alarmed # {} => danger
  /\ alarmed \subseteq Detectors \/ raised

=============================================================================
