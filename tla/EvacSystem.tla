------------------------------ MODULE EvacSystem ------------------------------
(***************************************************************************)
(* A speaker and a light around one redis.  The speaker measures and       *)
(* raises the alert, the light follows it; neither talks to the other.     *)
(*                                                                         *)
(* The variables of BluetoothSpeaker are the speaker's; the key "alert"    *)
(* and redis itself are shared.  The server appears as what it does to the *)
(* devices: it answers, and goes on notifying them (EveryObserverNotified  *)
(* of GenericResource).  No other speaker raises the alert.                *)
(***************************************************************************)
EXTENDS BluetoothSpeaker

CONSTANT LightThreads   \* bound of the model: callbacks of the light

VARIABLES
  lightProcess, lightRegistered, lightGetting, lightObservations, lightContext,
  lightLock, lightPc, lightAnswer, led, ledSet, colour, lightPosted

Light == INSTANCE SmartLED WITH
  Threads <- LightThreads,
  process <- lightProcess,
  registered <- lightRegistered,
  getting <- lightGetting,
  observations <- lightObservations,
  context <- lightContext,
  lock <- lightLock,
  pc <- lightPc,
  answer <- lightAnswer,
  posted <- lightPosted

(* What belongs to the light alone: as a client, and as a light. *)
lightClientVars == <<lightProcess, lightRegistered, lightGetting,
                     lightObservations, lightContext, lightLock, lightPc>>
lightLedVars == <<lightAnswer, led, ledSet, colour, lightPosted>>
lightVars == <<lightClientVars, lightLedVars>>

systemVars == <<vars, lightVars>>

SystemInit == Init /\ Light!Init

SpeakerActs == Own /\ UNCHANGED lightVars

LightActs == Light!Own /\ UNCHANGED vars

Weather == Temperature /\ UNCHANGED lightVars

(* Both devices lose their connections at once. *)
RedisActs ==
  /\ \/ RedisStops /\ Light!RedisStops
     \/ RedisStarts /\ Light!RedisStarts
  /\ UNCHANGED <<speakerVars, lightLedVars>>

SystemNext == SpeakerActs \/ LightActs \/ Weather \/ RedisActs

SystemSpec == SystemInit /\ [][SystemNext]_systemVars

FairSystemSpec == SystemSpec /\ Fairness /\ Light!Fairness

-----------------------------------------------------------------------------
(* What the system implements.                                               *)

AlarmedDevices == {d \in {"speaker", "light"} :
              \/ d = "speaker" /\ current_song = "emergency"
              \/ d = "light" /\ ledSet /\ led = 2}

AlarmSystem == INSTANCE Alarm WITH
  Detectors <- {"speaker"},
  Followers <- {"light"},
  Askers <- LightThreads,
  raised <- (alert = "1"),
  alarmed <- AlarmedDevices,
  hearsay <- Light!OldNews

(* Whatever callbacks overlap and whatever fails, the devices change their song
   and their colour, and SET alert, only as Alarm allows: in particular the light
   gives the alarm colour up only for an answer from before the alert. *)
ImplementsAlarm == AlarmSystem!Spec

(* The light does not turn to the alarm colour, nor the speaker to the emergency
   song, without a danger that some sensor has seen or an alert that was there. *)
AlarmsGoBackToDanger == AlarmSystem!AlarmHasCause

(* While nothing fails: when the speaker has measured heat, in the end the alert
   is raised, the speaker never plays the normal song again, and the light, which
   has no sensor, shows the alarm and keeps showing it. *)
HeatReachesAll ==
  \A t \in Threads :
    pc[t] = "get" /\ warm[t]
      ~> [](alert = "1" /\ file # "normal" /\ colour = Light!Alarm)

=============================================================================
