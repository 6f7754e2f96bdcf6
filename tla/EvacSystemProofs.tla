-------------------------- MODULE EvacSystemProofs --------------------------
(***************************************************************************)
(* The composition: in the system each device behaves as its own module    *)
(* says, so that its theorems hold there, and the two of them implement    *)
(* Alarm, for any number of callbacks and any subset of the faults.        *)
(***************************************************************************)
EXTENDS EvacSystem, BluetoothSpeakerProofs

(* A step of the system is one of the speaker's module, or does not concern the
   speaker. *)
LEMMA SpeakerSees == SystemNext => [Next]_vars
<1>1. SpeakerActs \/ Weather => Next
  BY DEF SpeakerActs, Weather, Next
<1>2. RedisActs => Next
  BY DEF RedisActs, Environment, Next, speakerVars
<1>3. LightActs => UNCHANGED vars
  BY DEF LightActs
<1> QED
  BY <1>1, <1>2, <1>3 DEF SystemNext

(* In the system the speaker behaves as in BluetoothSpeaker, so that all that is
   proved of that module holds of it. *)
THEOREM SpeakerInSystem == SystemSpec => Spec
<1>1. SystemInit => Init
  BY DEF SystemInit
<1>2. [SystemNext]_systemVars => [Next]_vars
  BY SpeakerSees DEF systemVars
<1> QED
  BY <1>1, <1>2, PTL DEF SystemSpec, Spec

-----------------------------------------------------------------------------
(* What the light sees of the speaker.                                       *)

LEMMA ReplyNeedsConnection ==
  ASSUME context \in Contexts, "reply" \in Outcomes
  PROVE  context = "ok"
<1>1. context # "NULL"
  BY Zenon DEF Outcomes
<1>2. context # "freed"
  BY Zenon DEF Outcomes
<1>3. context \notin {"lost", "refused"}
  BY Zenon DEF Outcomes
<1> QED
  BY <1>1, <1>2, <1>3 DEF Contexts

(* A connection that works has a redis at its other end. *)
ConnectionInv == context = "ok" => redisUp

LEMMA ConnectionStep == ConnectionInv /\ [Next]_vars => ConnectionInv'
<1> SUFFICES ASSUME ConnectionInv, [Next]_vars PROVE ConnectionInv'
  OBVIOUS
<1>1. CASE context' = context /\ (redisUp' = redisUp \/ redisUp')
  BY <1>1 DEF ConnectionInv
<1>2. CASE context' # "ok"
  BY <1>2 DEF ConnectionInv
<1>3. ASSUME NEW t \in Threads, Callback(t) PROVE ConnectionInv'
  <2>1. CASE Connect(t)
    BY <2>1 DEF Connect, ConnectionInv, redisVars
  <2>2. CASE GetAlert(t) \/ Raise(t)
    <3>1. redisUp' = redisUp /\ (context' = context \/ NullReply)
      BY <2>2 DEF GetAlert, Raise, ThrowLocked, Throw, Crash, redisVars
    <3>2. NullReply => context' = context \/ context' = "refused"
      BY DEF NullReply
    <3> QED
      BY <1>1, <1>2, <3>1, <3>2
  <2>3. CASE \/ GetAlertStatus(t) \/ CheckContext(t) \/ FreeContext(t)
             \/ Lock(t, "lock", "read") \/ Lock(t, "device", "value")
             \/ ReadTemperature(t) \/ Decide(t) \/ AssignSong(t) \/ Stop(t)
             \/ Latch(t) \/ GetDeviceValue(t) \/ Post(t)
    <3>1. redisUp' = redisUp /\ (context' = context \/ context' = "freed")
      BY <2>3 DEF GetAlertStatus, CheckContext, FreeContext, Lock,
         ReadTemperature, ThrowLocked, Decide, AssignSong, Stop, Latch,
         GetDeviceValue, Post, redisVars
    <3> QED
      BY <1>1, <1>2, <3>1
  <2> QED
    BY <1>3, <2>1, <2>2, <2>3 DEF Callback
<1>4. ASSUME NEW t \in Threads, Notification(t) PROVE ConnectionInv'
  BY <1>1, <1>4 DEF Notification, OnObserve, redisVars
<1>5. CASE \/ Joining \/ ObserveError \/ Open \/ Play \/ Temperature
           \/ UNCHANGED vars
  BY <1>1, <1>5 DEF Joining, FoundResource, OnGet, ObserveError, OnObserveError,
     Open, Play, Temperature, vars, clientVars, redisVars
<1>6. CASE Environment
  BY <1>6, <1>1 DEF Environment, Raised, RedisStops, RedisStarts, ConnectionInv
<1> QED
  BY <1>3, <1>4, <1>5, <1>6 DEF Next, Own

(* Of what the light can see, the speaker changes nothing but the alert, and
   that only through a redis that works. *)
LEMMA OwnStep ==
  ASSUME TypeOK, ConnectionInv, Own
  PROVE  /\ redisUp' = redisUp
         /\ \/ alert' = alert
            \/ alert' = "1" /\ redisUp /\ \E t \in Threads : Raise(t)
<1>1. ASSUME NEW t \in Threads, Raise(t)
      PROVE  /\ redisUp' = redisUp
             /\ alert' = alert \/ (alert' = "1" /\ redisUp)
  <2>1. CASE "reply" \in Outcomes /\ alert' = "1" /\ redisUp' = redisUp
    <3>1. context = "ok"
      BY <2>1, ReplyNeedsConnection DEF TypeOK, ClientTypeOK
    <3> QED
      BY <2>1, <3>1 DEF ConnectionInv
  <2>2. CASE UNCHANGED redisVars
    BY <2>2 DEF redisVars
  <2> QED
    BY <1>1, <2>1, <2>2 DEF Raise, NullReply, Throw, Crash
<1>2. ASSUME NEW t \in Threads, Callback(t), ~Raise(t) PROVE UNCHANGED redisVars
  BY <1>2 DEF Callback, GetAlertStatus, Connect, CheckContext, FreeContext, Lock,
     ReadTemperature, GetAlert, ThrowLocked, Crash, Decide, AssignSong, Stop,
     Latch, GetDeviceValue, Post
<1>3. ASSUME NEW t \in Threads, Notification(t) PROVE UNCHANGED redisVars
  BY <1>3 DEF Notification, OnObserve
<1>4. CASE Joining \/ ObserveError \/ Open \/ Play
  BY <1>4 DEF Joining, FoundResource, OnGet, ObserveError, OnObserveError, Open,
     Play, clientVars, redisVars
<1> QED
  BY <1>1, <1>2, <1>3, <1>4 DEF Own, redisVars

LEMMA LightSees ==
  ASSUME TypeOK, ConnectionInv, [SystemNext]_systemVars
  PROVE  [Light!Next]_(Light!vars)
<1> USE DEF Light!vars, Light!clientVars, Light!joinVars, Light!redisVars,
            Light!ledVars
<1>1. CASE SpeakerActs
  <2>1. CASE UNCHANGED <<alert, redisUp>>
    BY <1>1, <2>1 DEF SpeakerActs, lightVars, lightClientVars, lightLedVars
  <2>2. CASE alert # "1" /\ alert' = "1" /\ redisUp /\ redisUp' = redisUp
    BY <1>1, <2>2 DEF SpeakerActs, lightVars, lightClientVars, lightLedVars,
       Light!Next, Light!Environment, Light!Raised
  <2> QED
    BY <1>1, <2>1, <2>2, OwnStep DEF SpeakerActs
<1>2. CASE LightActs
  BY <1>2 DEF LightActs, Light!Next
<1>3. CASE Weather \/ UNCHANGED systemVars
  BY <1>3 DEF Weather, Temperature, clientVars, redisVars, systemVars, vars,
     lightVars, lightClientVars, lightLedVars
<1>4. CASE RedisActs
  BY <1>4 DEF RedisActs, lightLedVars, Light!Next, Light!Environment
<1> QED
  BY <1>1, <1>2, <1>3, <1>4 DEF SystemNext

LEMMA SpeakerInv == SystemSpec => [](Inv /\ ConnectionInv)
<1>1. Init => ConnectionInv
  BY DEF Init, ClientInit, ConnectionInv
<1> QED
  BY <1>1, ConnectionStep, InvHolds, SpeakerInSystem, PTL DEF Spec

(* In the system the light behaves as in SmartLED: for it the speaker is another
   device that raises the alert. *)
THEOREM LightInSystem == SystemSpec => Light!Spec
<1>1. SystemInit => Light!Init
  BY DEF SystemInit
<1>2. Inv /\ ConnectionInv /\ [SystemNext]_systemVars => [Light!Next]_(Light!vars)
  BY LightSees DEF Inv
<1> QED
  BY <1>1, <1>2, SpeakerInv, PTL DEF SystemSpec, Light!Spec

-----------------------------------------------------------------------------
(* What the light has been told in the system.                               *)

LightInv ==
  /\ lightAnswer \in [LightThreads -> {"none", "0", "1"}]
  /\ lightPc \in [LightThreads -> Light!Steps]
  /\ Light!AnswerInv

(* What each step of the light does to its callbacks and to their answers. *)
LEMMA LightMoves ==
  ASSUME Light!Own, \A t \in LightThreads : ~Light!SetLed(t)
  PROVE  \/ UNCHANGED <<lightPc, lightAnswer>>
         \/ \E t \in LightThreads, step \in Light!Steps \ {"set"} :
              /\ lightPc[t] # "set"
              /\ lightPc' = [lightPc EXCEPT ![t] = step]
              /\ \/ lightAnswer' = lightAnswer
                 \/ lightAnswer' = [lightAnswer EXCEPT ![t] = "none"]
         \/ \E t \in LightThreads :
              /\ lightPc[t] = "get"
              /\ alert # "absent"
              /\ lightPc' = [lightPc EXCEPT ![t] = "set"]
              /\ lightAnswer' = [lightAnswer EXCEPT ![t] = alert]
<1> DEFINE Kept == UNCHANGED <<lightPc, lightAnswer>>
           Moved == \E t \in LightThreads, step \in Light!Steps \ {"set"} :
              /\ lightPc[t] # "set"
              /\ lightPc' = [lightPc EXCEPT ![t] = step]
              /\ \/ lightAnswer' = lightAnswer
                 \/ lightAnswer' = [lightAnswer EXCEPT ![t] = "none"]
           Asked == \E t \in LightThreads :
              /\ lightPc[t] = "get"
              /\ alert # "absent"
              /\ lightPc' = [lightPc EXCEPT ![t] = "set"]
              /\ lightAnswer' = [lightAnswer EXCEPT ![t] = alert]
<1>1. ASSUME NEW t \in LightThreads, Light!Callback(t), ~Light!SetLed(t)
      PROVE  Kept \/ Moved \/ Asked
  <2>1. CASE Light!GetAlert(t)
    BY <2>1 DEF Light!GetAlert, Light!ThrowLocked, Light!Crash, Light!Goto,
       Light!Steps
  <2>2. CASE Light!Post(t)
    BY <2>2 DEF Light!Post, Light!Goto, Light!Steps
  <2>3. CASE Light!GetAlertStatus(t) /\ UNCHANGED Light!ledVars
    BY <2>3 DEF Light!GetAlertStatus, Light!Goto, Light!Steps, Light!ledVars
  <2>4. CASE Light!Connect(t) /\ UNCHANGED Light!ledVars
    BY <2>4 DEF Light!Connect, Light!Goto, Light!Steps, Light!ledVars
  <2>5. CASE Light!CheckContext(t) /\ UNCHANGED Light!ledVars
    BY <2>5 DEF Light!CheckContext, Light!Goto, Light!Steps, Light!ledVars
  <2>6. CASE Light!FreeContext(t) /\ UNCHANGED Light!ledVars
    BY <2>6 DEF Light!FreeContext, Light!Goto, Light!Steps, Light!ledVars
  <2>7. CASE Light!Lock(t, "lock", "get") /\ UNCHANGED Light!ledVars
    BY <2>7 DEF Light!Lock, Light!Goto, Light!Steps, Light!ledVars
  <2> QED
    BY <1>1, <2>1, <2>2, <2>3, <2>4, <2>5, <2>6, <2>7 DEF Light!Callback
<1>2. ASSUME NEW t \in LightThreads, Light!Notification(t) PROVE Moved
  BY <1>2 DEF Light!Notification, Light!OnObserve, Light!Goto, Light!Steps,
     Light!ledVars
<1>3. CASE Light!Joining \/ Light!ObserveError \/ Light!Control
  BY <1>3 DEF Light!Joining, Light!FoundResource, Light!OnGet, Light!ObserveError,
     Light!OnObserveError, Light!Control, Light!clientVars, Light!ledVars
<1> QED
  BY <1>1, <1>2, <1>3 DEF Light!Own

(* An answer "1" was read from an alert that stays raised. *)
LEMMA LightStep ==
  ASSUME TypeOK, ConnectionInv, LightInv, [SystemNext]_systemVars
  PROVE  LightInv'
<1> USE DEF LightInv, Light!AnswerInv
<1>1. CASE /\ UNCHANGED <<lightAnswer, lightPc>>
           /\ alert' = alert \/ alert' = "1"
  BY <1>1
<1>2. CASE SpeakerActs
  BY <1>1, <1>2, OwnStep DEF SpeakerActs, lightVars, lightClientVars, lightLedVars
<1>3. CASE \/ Weather \/ RedisActs \/ UNCHANGED systemVars
  BY <1>1, <1>3 DEF Weather, Temperature, RedisActs, RedisStops, RedisStarts,
     Light!RedisStops, Light!RedisStarts, clientVars, redisVars, systemVars, vars, lightVars, lightClientVars,
     lightLedVars
<1>4. CASE LightActs
  <2>1. alert' = alert /\ alert \in {"absent", "0", "1"}
    BY <1>4 DEF LightActs, vars, clientVars, redisVars, TypeOK, ClientTypeOK
  <2>2. CASE UNCHANGED <<lightPc, lightAnswer>>
    BY <1>1, <2>1, <2>2
  <2>3. ASSUME NEW t \in LightThreads, Light!SetLed(t) PROVE LightInv'
    BY <2>1, <2>3 DEF Light!SetLed, Light!Goto, Light!Steps
  <2>4. ASSUME NEW t \in LightThreads, NEW step \in Light!Steps,
               lightPc' = [lightPc EXCEPT ![t] = step],
               \/ lightAnswer' = lightAnswer
               \/ lightAnswer' = [lightAnswer EXCEPT ![t] = "none"]
        PROVE  LightInv'
    BY <2>1, <2>4
  <2>5. ASSUME NEW t \in LightThreads, alert # "absent",
               lightPc' = [lightPc EXCEPT ![t] = "set"],
               lightAnswer' = [lightAnswer EXCEPT ![t] = alert]
        PROVE  LightInv'
    BY <2>1, <2>5 DEF Light!Steps
  <2> QED
    BY <1>4, <2>2, <2>3, <2>4, <2>5, LightMoves DEF LightActs
<1> QED
  BY <1>2, <1>3, <1>4 DEF SystemNext

SystemInv == Inv /\ ConnectionInv /\ LightInv

LEMMA SystemInvHolds == SystemSpec => []SystemInv
<1>1. SystemInit => LightInv
  BY DEF SystemInit, Light!Init, Light!ClientInit, LightInv, Light!AnswerInv,
     Light!Steps
<1>2. Inv /\ ConnectionInv /\ LightInv /\ [SystemNext]_systemVars => LightInv'
  BY LightStep DEF Inv
<1> QED
  BY <1>1, <1>2, SpeakerInv, PTL DEF SystemSpec, SystemInv

-----------------------------------------------------------------------------
(* The refinement.                                                           *)

LEMMA AlarmInit == SystemInit => AlarmSystem!Init
BY DEF SystemInit, Init, ClientInit, Light!Init, Light!ClientInit,
   AlarmSystem!Init, AlarmedDevices, Light!OldNews

(* The speaker starts its alarm in the middle of assigning the song, and raises
   the alert at SET; it has seen the danger in both cases. *)
LEMMA SpeakerRefines ==
  ASSUME SystemInv, SpeakerActs
  PROVE  [AlarmSystem!Next]_(AlarmSystem!vars)
<1> USE DEF AlarmSystem!Next, AlarmSystem!vars, AlarmSystem!Devices
<1>1. UNCHANGED <<led, ledSet>> /\ Light!OldNews' = Light!OldNews
  BY DEF SpeakerActs, lightVars, lightClientVars, lightLedVars, Light!OldNews
<1>2. danger' = danger
  BY DEF SpeakerActs, Own, Joining, Notification, Callback, ObserveError, Open,
     Play, ReadTemperature, GetAlert, Decide, AssignSong, Stop, Raise, Latch,
     GetDeviceValue, Post, speakerVars
<1>3. CASE \E t \in Threads : Raise(t)
  <2>1. PICK t \in Threads : Raise(t)
    BY <1>3
  <2>2. danger /\ current_song' = current_song
    BY <2>1 DEF Raise, SystemInv, Inv, CauseInv, Alarming
  <2>3. AlarmedDevices' = AlarmedDevices
    BY <1>1, <2>2 DEF AlarmedDevices
  <2>4. alert' = alert \/ alert' = "1"
    BY OwnStep DEF SystemInv, Inv, SpeakerActs
  <2> QED
    BY <1>1, <1>2, <2>2, <2>3, <2>4 DEF AlarmSystem!Raise
<1>4. CASE \E t \in Threads : AssignSong(t)
  <2>1. PICK t \in Threads : AssignSong(t)
    BY <1>4
  <2>2. danger /\ alert' = alert
    BY <2>1 DEF AssignSong, SystemInv, Inv, CauseInv, Alarming, redisVars
  <2>3. CASE current_song' = "emergency"
    <3>1. AlarmedDevices' = AlarmedDevices \cup {"speaker"}
      BY <1>1, <2>3 DEF AlarmedDevices
    <3> QED
      BY <1>1, <1>2, <2>2, <3>1 DEF AlarmSystem!Start
  <2>4. CASE current_song' # "emergency"
    <3>1. current_song # "emergency"
      BY <2>1, <2>4 DEF AssignSong
    <3>2. AlarmedDevices' = AlarmedDevices
      BY <1>1, <2>4, <3>1 DEF AlarmedDevices
    <3> QED
      BY <1>1, <1>2, <2>2, <3>2
  <2> QED
    BY <2>3, <2>4
<1>5. CASE ~\E t \in Threads : Raise(t) \/ AssignSong(t)
  <2>1. alert' = alert
    BY <1>5, OwnStep DEF SystemInv, Inv, SpeakerActs
  <2>2. current_song' = current_song
    BY <1>5 DEF SpeakerActs, Own, Joining, Notification, Callback, ObserveError,
       Open, Play, ReadTemperature, GetAlert, Decide, Stop, Latch,
       GetDeviceValue, Post, speakerVars
  <2>3. AlarmedDevices' = AlarmedDevices
    BY <1>1, <2>2 DEF AlarmedDevices
  <2> QED
    BY <1>1, <1>2, <2>1, <2>3
<1> QED
  BY <1>3, <1>4, <1>5

(* The light starts the alarm on an answer "1", and lapses on one that was read
   before the alert was raised. *)
LEMMA LightRefines ==
  ASSUME SystemInv, LightActs
  PROVE  [AlarmSystem!Next]_(AlarmSystem!vars)
<1> USE DEF AlarmSystem!Next, AlarmSystem!vars, AlarmSystem!Devices
<1>1. UNCHANGED <<danger, alert, current_song>>
  BY DEF LightActs, vars, clientVars, redisVars, speakerVars
<1>0. /\ lightAnswer \in [LightThreads -> {"none", "0", "1"}]
      /\ lightPc \in [LightThreads -> Light!Steps]
  BY DEF SystemInv, LightInv
<1>2. CASE \A t \in LightThreads : ~Light!SetLed(t)
  <2>1. UNCHANGED <<led, ledSet>>
    BY <1>2 DEF LightActs, Light!Own, Light!Joining, Light!Notification,
       Light!Callback, Light!ObserveError, Light!Control, Light!GetAlert,
       Light!Post, Light!ledVars
  <2>2. AlarmedDevices' = AlarmedDevices
    BY <1>1, <2>1 DEF AlarmedDevices
  <2>3. CASE UNCHANGED <<lightPc, lightAnswer>>
    BY <1>1, <2>2, <2>3 DEF Light!OldNews
  <2>4. ASSUME NEW t \in LightThreads, NEW step, step # "set",
               lightPc[t] # "set", lightPc' = [lightPc EXCEPT ![t] = step],
               \/ lightAnswer' = lightAnswer
               \/ lightAnswer' = [lightAnswer EXCEPT ![t] = "none"]
        PROVE  [AlarmSystem!Next]_(AlarmSystem!vars)
    <3>1. Light!OldNews' = Light!OldNews
      BY <1>0, <2>4 DEF Light!OldNews
    <3> QED
      BY <1>1, <2>2, <3>1
  <2>5. ASSUME NEW t \in LightThreads, lightPc[t] = "get",
               lightPc' = [lightPc EXCEPT ![t] = "set"],
               lightAnswer' = [lightAnswer EXCEPT ![t] = alert]
        PROVE  [AlarmSystem!Next]_(AlarmSystem!vars)
    <3>1. Light!OldNews' = IF alert = "1" THEN Light!OldNews
                                          ELSE Light!OldNews \cup {t}
      BY <1>0, <2>5 DEF Light!OldNews
    <3> QED
      BY <1>1, <2>2, <3>1 DEF AlarmSystem!Hear
  <2> QED
    BY <1>2, <2>3, <2>4, <2>5, LightMoves DEF LightActs
<1>3. ASSUME NEW t \in LightThreads, Light!SetLed(t)
      PROVE  [AlarmSystem!Next]_(AlarmSystem!vars)
  <2>0. /\ lightPc[t] = "set" /\ lightPc' = [lightPc EXCEPT ![t] = "post"]
        /\ lightAnswer' = lightAnswer
    BY <1>3 DEF Light!SetLed, Light!Goto
  <2>3. Light!OldNews' = Light!OldNews \ {t}
    BY <1>0, <2>0 DEF Light!OldNews
  <2>1. CASE lightAnswer[t] = "1"
    <3>1. alert = "1"
      BY <2>1 DEF SystemInv, LightInv, Light!AnswerInv
    <3>2. led' = 2 /\ ledSet'
      BY <1>3, <2>1 DEF Light!SetLed, Light!ColourOf
    <3>3. AlarmedDevices' = AlarmedDevices \cup {"light"}
      BY <1>1, <3>2 DEF AlarmedDevices
    <3>4. Light!OldNews' = Light!OldNews
      BY <2>1, <2>3 DEF Light!OldNews
    <3> QED
      BY <1>1, <3>1, <3>3, <3>4 DEF AlarmSystem!Start
  <2>2. CASE lightAnswer[t] # "1"
    <3>1. led' = 3
      BY <1>3, <2>2 DEF Light!SetLed, Light!ColourOf
    <3>2. AlarmedDevices' = AlarmedDevices \ {"light"}
      BY <1>1, <3>1 DEF AlarmedDevices
    <3>3. t \in Light!OldNews
      BY <2>0, <2>2 DEF Light!OldNews
    <3> QED
      BY <1>1, <2>3, <3>2, <3>3 DEF AlarmSystem!Lapse
  <2> QED
    BY <2>1, <2>2
<1> QED
  BY <1>2, <1>3

LEMMA OthersRefine ==
  ASSUME Weather \/ RedisActs \/ UNCHANGED systemVars
  PROVE  [AlarmSystem!Next]_(AlarmSystem!vars)
<1>1. UNCHANGED <<alert, current_song, led, ledSet, lightPc, lightAnswer>>
  BY DEF Weather, Temperature, RedisActs, RedisStops, RedisStarts,
     Light!RedisStops, Light!RedisStarts,
     speakerVars, clientVars, redisVars, systemVars, vars, lightVars,
     lightClientVars, lightLedVars
<1>2. AlarmedDevices' = AlarmedDevices /\ Light!OldNews' = Light!OldNews
  BY <1>1 DEF AlarmedDevices, Light!OldNews
<1>3. danger' = danger \/ danger' = TRUE
  BY DEF Weather, Temperature, RedisActs, speakerVars, systemVars, vars
<1> QED
  BY <1>1, <1>2, <1>3 DEF AlarmSystem!Next, AlarmSystem!Detect, AlarmSystem!vars

(* Whatever callbacks overlap, and whatever fails, each step of the system is a
   step that Alarm allows, or none. *)
THEOREM AlarmImplemented == SystemSpec => ImplementsAlarm
<1>1. SystemInv /\ [SystemNext]_systemVars
        => [AlarmSystem!Next]_(AlarmSystem!vars)
  BY SpeakerRefines, LightRefines, OthersRefine DEF SystemNext
<1> QED
  BY <1>1, AlarmInit, SystemInvHolds, PTL
  DEF SystemSpec, ImplementsAlarm, AlarmSystem!Spec

(* So an alarm of either device goes back to a danger, whatever fails. *)
THEOREM AlarmsHaveDanger == SystemSpec => []AlarmsGoBackToDanger
<1> USE DEF AlarmSystem!AlarmHasCause, AlarmSystem!vars
<1>1. AlarmSystem!Init => AlarmSystem!AlarmHasCause
  BY DEF AlarmSystem!Init
<1>2. AlarmSystem!AlarmHasCause /\ [AlarmSystem!Next]_(AlarmSystem!vars)
        => AlarmSystem!AlarmHasCause'
  BY DEF AlarmSystem!Next, AlarmSystem!Detect, AlarmSystem!Raise,
     AlarmSystem!Start, AlarmSystem!Hear, AlarmSystem!Lapse, AlarmSystem!Devices
<1> QED
  BY <1>1, <1>2, AlarmImplemented, PTL
  DEF ImplementsAlarm, AlarmSystem!Spec, AlarmsGoBackToDanger

=============================================================================
