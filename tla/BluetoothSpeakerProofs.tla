----------------------- MODULE BluetoothSpeakerProofs -----------------------
(***************************************************************************)
(* The safety properties of BluetoothSpeaker, for any number of callbacks  *)
(* at once and any limit of descriptors: with any faults those of Inv, with *)
(* working redis and sensor those of SteadyInv.                            *)
(***************************************************************************)
EXTENDS BluetoothSpeaker, ClientProofs

(* The variables of the callbacks and of the player. *)
SpeakerType ==
  /\ pc \in [Threads -> Steps]
  /\ hot \in BOOLEAN
  /\ danger \in BOOLEAN
  /\ files \in 0 .. MaxFiles
  /\ warm \in [Threads -> BOOLEAN]
  /\ answer \in [Threads -> {"none", "0", "1", "OK"}]
  /\ current_song \in Songs \cup {"torn"}
  /\ device_alert_state \in BOOLEAN
  /\ posted \in BOOLEAN
  /\ runner \in {"open", "first", "play"}
  /\ file \in Songs \cup {"none"}
  /\ should_kick_stop \in BOOLEAN

LEMMA Types == TypeOK <=> ClientTypeOK /\ SpeakerType /\ Used <= MaxFiles
BY DEF TypeOK, SpeakerType

LEMMA TypesAfter ==
  ClientTypeOK' /\ SpeakerType' /\ Used' <= MaxFiles => TypeOK'
BY DEF TypeOK, SpeakerType, Used

(* One more descriptor is taken only if there was room for it. *)
LEMMA OpenFile ==
  ASSUME files \in 0 .. MaxFiles, NEW song, files + Held(song) < MaxFiles
  PROVE  /\ files + 1 \in 0 .. MaxFiles
         /\ files + 1 + Held(song) <= MaxFiles
BY SpeakerAssumption DEF Held

LEMMA ClientStep == TypeOK /\ JoinInv /\ Next => ClientTypeOK' /\ JoinInv'
<1> SUFFICES ASSUME TypeOK, JoinInv, Next PROVE ClientTypeOK' /\ JoinInv'
  OBVIOUS
<1>0. ClientTypeOK
  BY Types
<1>1. CASE UNCHANGED clientVars
  BY <1>0, <1>1, FieldStep DEF clientVars, joinVars, redisVars, ClientTypeOK
<1>2. ASSUME UNCHANGED <<joinVars, redisVars>>,
             process' \in {"up", "crashed", "exited"},
             context' \in Contexts, lock' \in {"free", "held", "leaked"}
      PROVE  ClientTypeOK' /\ JoinInv'
  BY <1>0, <1>2, FieldStep DEF redisVars, ClientTypeOK
<1>3. ASSUME NEW t \in Threads, Callback(t) PROVE ClientTypeOK' /\ JoinInv'
  <2>1. CASE \/ GetAlertStatus(t)
             \/ Connect(t)
             \/ CheckContext(t)
             \/ FreeContext(t)
             \/ Lock(t, "lock", "read")
             \/ Lock(t, "device", "value")
    BY <1>0, <2>1, ContextStep
  <2>2. CASE ReadTemperature(t) \/ GetDeviceValue(t)
    BY <1>0, <1>2, <2>2 DEF ReadTemperature, GetDeviceValue, ThrowLocked,
       ClientTypeOK
  <2>3. CASE GetAlert(t)
    BY <1>0, <1>2, <2>3 DEF GetAlert, NullReply, ThrowLocked, Crash,
       ClientTypeOK, Contexts
  <2>4. CASE Decide(t) \/ AssignSong(t) \/ Stop(t) \/ Latch(t) \/ Post(t)
    BY <1>0, <1>2, <2>4 DEF Decide, AssignSong, Stop, Latch, Post, ClientTypeOK
  <2>5. CASE Raise(t)
    <3>1. UNCHANGED <<joinVars, redisUp, lock>>
      BY <2>5 DEF Raise, NullReply, Throw, Crash, redisVars
    <3>2. /\ process' \in {"up", "crashed", "exited"}
          /\ alert' \in {"absent", "0", "1"}
          /\ context' \in Contexts
      BY <1>0, <2>5 DEF Raise, NullReply, Throw, Crash, redisVars, ClientTypeOK,
         Contexts
    <3> QED
      BY <1>0, <3>1, <3>2, FieldStep DEF ClientTypeOK
  <2> QED
    BY <1>3, <2>1, <2>2, <2>3, <2>4, <2>5 DEF Callback
<1>4. ASSUME NEW t \in Threads, Notification(t) PROVE ClientTypeOK' /\ JoinInv'
  BY <1>0, <1>2, <1>4 DEF Notification, OnObserve, ClientTypeOK
<1>5. CASE Joining
  BY <1>0, <1>5, JoinStep DEF Joining
<1>6. CASE Open \/ Play \/ Temperature
  BY <1>1, <1>6 DEF Open, Play, Temperature
<1>7. CASE ObserveError \/ Environment
  BY <1>0, <1>7, EnvironmentStep DEF ObserveError, Environment
<1> QED
  BY <1>3, <1>4, <1>5, <1>6, <1>7 DEF Next, Own

LEMMA SpeakerStep == TypeOK /\ Next => SpeakerType'
<1> SUFFICES ASSUME ClientTypeOK, SpeakerType, Next PROVE SpeakerType'
  BY Types
<1>0. pc \in [Threads -> Steps]
  BY DEF SpeakerType
<1>1. ASSUME UNCHANGED speakerVars,
             \/ UNCHANGED pc
             \/ \E t \in Threads, step \in Steps : pc' = [pc EXCEPT ![t] = step]
      PROVE  SpeakerType'
  <2>1. pc' \in [Threads -> Steps]
    BY <1>0, <1>1
  <2> QED
    BY <1>1, <2>1 DEF SpeakerType, speakerVars, localVars, playerVars
<1>2. ASSUME NEW t \in Threads, Callback(t) PROVE SpeakerType'
  <2>1. CASE /\ \/ GetAlertStatus(t)
                \/ Connect(t)
                \/ CheckContext(t)
                \/ FreeContext(t)
             /\ UNCHANGED speakerVars
    <3>1. \/ UNCHANGED pc
          \/ \E step \in Steps : pc' = [pc EXCEPT ![t] = step]
      <4>1. PICK to : to = "lock"
        OBVIOUS
      <4> QED
        BY <2>1, <4>1, ContextPC DEF Steps
    <3> QED
      BY <1>1, <2>1, <3>1
  <2>2. CASE (Lock(t, "lock", "read") \/ Lock(t, "device", "value"))
             /\ UNCHANGED speakerVars
    BY <1>1, <2>2 DEF Lock, Goto, Steps
  <2>3. CASE ReadTemperature(t)
    <3>1. pc' \in [Threads -> Steps]
      BY <1>0, <2>3 DEF ReadTemperature, ThrowLocked, Goto, Steps
    <3>2. files' \in 0 .. MaxFiles
      BY <2>3, OpenFile DEF ReadTemperature, SpeakerType, Readable, Used
    <3>3. warm' \in [Threads -> BOOLEAN]
      BY <2>3 DEF ReadTemperature, SpeakerType
    <3> QED
      BY <2>3, <3>1, <3>2, <3>3 DEF ReadTemperature, SpeakerType, playerVars
  <2>4. CASE GetAlert(t)
    <3>1. /\ pc' \in [Threads -> Steps]
          /\ answer' \in [Threads -> {"none", "0", "1", "OK"}]
      <4>1. \/ /\ Goto(t, "decide")
               /\ \E a \in {"0", "1", "OK"} : answer' = [answer EXCEPT ![t] = a]
            \/ UNCHANGED answer /\ (Goto(t, "none") \/ UNCHANGED pc)
        BY <2>4 DEF GetAlert, ThrowLocked, Crash, ClientTypeOK
      <4>2. pc' \in [Threads -> Steps]
        BY <1>0, <4>1 DEF Goto, Steps
      <4> QED
        BY <4>1, <4>2 DEF SpeakerType
    <3> QED
      BY <2>4, <3>1 DEF GetAlert, SpeakerType, playerVars
  <2>5. CASE Decide(t)
    BY <1>1, <2>5 DEF Decide, Goto, Steps
  <2>6. CASE AssignSong(t) \/ Stop(t) \/ Latch(t)
    <3>1. pc' \in [Threads -> Steps]
      BY <1>0, <2>6 DEF AssignSong, Stop, Latch, Goto, Steps
    <3>2. /\ current_song' \in Songs \cup {"torn"}
          /\ device_alert_state' \in BOOLEAN
          /\ should_kick_stop' \in BOOLEAN
      BY <2>6 DEF AssignSong, Stop, Latch, SpeakerType, Songs
    <3> QED
      BY <2>6, <3>1, <3>2
      DEF AssignSong, Stop, Latch, SpeakerType, localVars, playerVars
  <2>7. CASE Raise(t)
    <3>1. pc' \in [Threads -> Steps]
      BY <1>0, <2>7 DEF Raise, Throw, Crash, Goto, Steps
    <3> QED
      BY <2>7, <3>1 DEF Raise, SpeakerType, playerVars
  <2>8. CASE GetDeviceValue(t)
    <3>1. pc' \in [Threads -> Steps]
      BY <1>0, <2>8 DEF GetDeviceValue, ThrowLocked, Goto, Steps
    <3>2. files' \in 0 .. MaxFiles
      BY <2>8, OpenFile DEF GetDeviceValue, SpeakerType, Readable, Used
    <3> QED
      BY <2>8, <3>1, <3>2 DEF GetDeviceValue, SpeakerType, localVars, playerVars
  <2>9. CASE Post(t)
    <3>1. pc' \in [Threads -> Steps]
      BY <1>0, <2>9 DEF Post, Goto, Steps
    <3>2. warm' \in [Threads -> BOOLEAN]
      BY <2>9 DEF Post, SpeakerType
    <3>3. answer' \in [Threads -> {"none", "0", "1", "OK"}]
      BY <2>9 DEF Post, SpeakerType
    <3> QED
      BY <2>9, <3>1, <3>2, <3>3 DEF Post, SpeakerType, playerVars
  <2> QED
    BY <1>2, <2>1, <2>2, <2>3, <2>4, <2>5, <2>6, <2>7, <2>8, <2>9 DEF Callback
<1>3. ASSUME NEW t \in Threads, Notification(t) PROVE SpeakerType'
  BY <1>1, <1>3 DEF Notification, OnObserve, Goto, Steps
<1>4. CASE Joining
  BY <1>1, <1>4 DEF Joining, FoundResource, OnGet
<1>5. CASE Open
  <2>1. file' \in Songs \cup {"none"}
    BY <1>5 DEF Open, SpeakerType, Songs
  <2>2. files' \in 0 .. MaxFiles
    BY <1>5, OpenFile DEF Open, SpeakerType
  <2> QED
    BY <1>5, <2>1, <2>2 DEF Open, SpeakerType, clientVars, localVars
<1>6. CASE Play
  <2>1. /\ file' \in Songs \cup {"none"}
        /\ runner' \in {"open", "first", "play"}
        /\ should_kick_stop' \in BOOLEAN
    BY <1>6 DEF Play, SpeakerType
  <2> QED
    BY <1>6, <2>1 DEF Play, SpeakerType, clientVars, localVars
<1>7. CASE Temperature
  BY <1>7 DEF Temperature, SpeakerType, clientVars, localVars, playerVars
<1>8. CASE Environment
  BY <1>8 DEF Environment, Raised, RedisStops, RedisStarts, SpeakerType, localVars,
     playerVars
<1>9. CASE ObserveError
  BY <1>9, <1>1 DEF ObserveError, OnObserveError
<1> QED
  BY <1>2, <1>3, <1>4, <1>5, <1>6, <1>7, <1>8, <1>9 DEF Next, Own

(* The probes, the song and its outputs fit into the limit together. *)
LEMMA UsedStep == TypeOK /\ Next => Used' <= MaxFiles
<1> SUFFICES ASSUME TypeOK, Next PROVE Used' <= MaxFiles
  OBVIOUS
<1>0. files \in 0 .. MaxFiles /\ files + Held(file) <= MaxFiles
  BY DEF TypeOK, Used
<1>1. ASSUME UNCHANGED <<files, file>> PROVE Used' <= MaxFiles
  BY <1>0, <1>1 DEF Used, Held
<1>2. ASSUME NEW t \in Threads, Callback(t) PROVE Used' <= MaxFiles
  <2>1. CASE UNCHANGED speakerVars
    BY <2>1, <1>1 DEF speakerVars, playerVars
  <2>2. CASE ReadTemperature(t) \/ GetDeviceValue(t)
    <3>1. UNCHANGED file /\ (UNCHANGED files \/ (Readable /\ files' = files + 1))
      BY <2>2 DEF ReadTemperature, GetDeviceValue, playerVars
    <3> QED
      BY <3>1, <1>0, <1>1, OpenFile DEF Readable, Used, Held
  <2>3. CASE \/ GetAlert(t) \/ Decide(t) \/ AssignSong(t) \/ Stop(t)
             \/ Raise(t) \/ Latch(t) \/ Post(t)
    BY <2>3, <1>1 DEF GetAlert, Decide, AssignSong, Stop, Raise, Latch, Post,
       speakerVars, playerVars
  <2> QED
    BY <1>2, <2>1, <2>2, <2>3 DEF Callback
<1>3. ASSUME Open PROVE Used' <= MaxFiles
  <2>1. files + Held(file') <= MaxFiles
    BY <1>0, <1>3, SpeakerAssumption DEF Open, Held
  <2>2. \/ files' = files
        \/ files + Held(file') < MaxFiles /\ files' = files + 1
    BY <1>3 DEF Open
  <2> QED
    BY <1>0, <2>1, <2>2, OpenFile DEF Used, Held
<1>4. ASSUME Play PROVE Used' <= MaxFiles
  <2>1. UNCHANGED files /\ (UNCHANGED file \/ file' = "none")
    BY <1>4 DEF Play
  <2> QED
    BY <1>0, <2>1, SpeakerAssumption DEF Used, Held
<1>5. ASSUME NEW t \in Threads, Notification(t) PROVE Used' <= MaxFiles
  BY <1>5, <1>1 DEF Notification, speakerVars, playerVars
<1>6. CASE Joining \/ Temperature \/ ObserveError \/ Environment
  BY <1>6, <1>1 DEF Joining, Temperature, ObserveError, Environment, speakerVars,
     playerVars
<1> QED
  BY <1>2, <1>3, <1>4, <1>5, <1>6 DEF Next, Own

(* After the song was changed, only stop() ends a decision, and no file of the
   normal song is opened any more. *)
LEMMA PlayerStep == TypeOK /\ NormalNotResumed /\ Next => NormalNotResumed'
<1> SUFFICES ASSUME SpeakerType, NormalNotResumed, Next
             PROVE  NormalNotResumed'
  BY Types
<1>0. pc \in [Threads -> Steps]
  BY DEF SpeakerType
<1>1. CASE UNCHANGED <<current_song, runner, file, should_kick_stop, pc>>
  BY <1>1 DEF NormalNotResumed, Deciding
<1>2. ASSUME NEW t \in Threads, NEW step, ~Deciding(t),
             UNCHANGED <<current_song, runner, file, should_kick_stop>>,
             Goto(t, step)
      PROVE  NormalNotResumed'
  BY <1>0, <1>2 DEF NormalNotResumed, Deciding, Goto
<1>3. ASSUME NEW t \in Threads, Callback(t) PROVE NormalNotResumed'
  <2>1. CASE /\ \/ GetAlertStatus(t)
                \/ Connect(t)
                \/ CheckContext(t)
                \/ FreeContext(t)
                \/ Lock(t, "lock", "read")
                \/ Lock(t, "device", "value")
             /\ UNCHANGED speakerVars
    BY <2>1, <1>1, <1>2 DEF GetAlertStatus, Connect, CheckContext, FreeContext,
       Lock, Deciding, speakerVars, playerVars
  <2>2. CASE ReadTemperature(t) \/ GetAlert(t)
    BY <2>2, <1>1, <1>2 DEF ReadTemperature, GetAlert, ThrowLocked, Crash,
       Deciding, playerVars
  <2>3. CASE Decide(t)
    BY <2>3, <1>2 DEF Decide, Deciding, speakerVars, playerVars
  <2>4. CASE AssignSong(t)
    <3>1. Deciding(t)'
      BY <1>0, <2>4 DEF AssignSong, Goto, Deciding
    <3> QED
      BY <3>1 DEF NormalNotResumed
  <2>5. CASE Stop(t)
    BY <2>5 DEF Stop, NormalNotResumed
  <2>6. CASE Raise(t)
    BY <2>6, <1>1, <1>2 DEF Raise, Throw, Crash, Deciding, playerVars
  <2>7. CASE Latch(t) \/ GetDeviceValue(t) \/ Post(t)
    BY <2>7, <1>2 DEF Latch, GetDeviceValue, Post, ThrowLocked, Deciding,
       playerVars
  <2> QED
    BY <1>3, <2>1, <2>2, <2>3, <2>4, <2>5, <2>6, <2>7 DEF Callback
<1>4. ASSUME NEW t \in Threads, Notification(t) PROVE NormalNotResumed'
  BY <1>4, <1>2 DEF Notification, OnObserve, Deciding, speakerVars, playerVars
<1>5. CASE Open
  BY <1>5 DEF Open, NormalNotResumed, clientVars, Deciding, SpeakerType, Songs
<1>6. CASE Play
  BY <1>6 DEF Play, NormalNotResumed, clientVars, Deciding, SpeakerType
<1>7. CASE Joining \/ Temperature \/ ObserveError \/ Environment
  BY <1>7, <1>1 DEF Joining, FoundResource, OnGet, Temperature, Raised, ObserveError,
     Environment, RedisStops, RedisStarts, OnObserveError, clientVars, speakerVars,
     playerVars
<1> QED
  BY <1>3, <1>4, <1>5, <1>6, <1>7 DEF Next, Own

(* What makes a callback raise the alert was seen by its sensor or in redis;
   danger and the alert stay once they are there. *)
LEMMA CauseStep ==
  TypeOK /\ CauseInv /\ NoFalseAlarm /\ Next => CauseInv' /\ NoFalseAlarm'
<1> SUFFICES ASSUME TypeOK, CauseInv, NoFalseAlarm, Next
             PROVE  CauseInv' /\ NoFalseAlarm'
  OBVIOUS
<1> DEFINE Alerting == <<current_song, device_alert_state, posted>>
<1>0. SpeakerType
  BY Types
<1>1. CASE UNCHANGED <<hot, danger, alert, warm, answer, Alerting, pc>>
  BY <1>1 DEF CauseInv, NoFalseAlarm
<1>2. ASSUME NEW t \in Threads, NEW step \in Steps, step # "latch",
             step \in Alarming => danger,
             UNCHANGED <<hot, danger, alert, warm, answer, Alerting>>,
             Goto(t, step)
      PROVE  CauseInv' /\ NoFalseAlarm'
  BY <1>0, <1>2 DEF CauseInv, NoFalseAlarm, Goto, SpeakerType
<1>3. ASSUME NEW t \in Threads, Callback(t) PROVE CauseInv' /\ NoFalseAlarm'
  <2>1. CASE /\ \/ GetAlertStatus(t)
                \/ Connect(t)
                \/ CheckContext(t)
                \/ FreeContext(t)
                \/ Lock(t, "lock", "read")
                \/ Lock(t, "device", "value")
             /\ UNCHANGED speakerVars
    BY <2>1, <1>1, <1>2 DEF GetAlertStatus, Connect, CheckContext, FreeContext,
       Lock, Alarming, Steps, speakerVars, localVars, redisVars
  <2>2. CASE ReadTemperature(t)
    BY <2>2, <1>0 DEF ReadTemperature, ThrowLocked, Goto, CauseInv, NoFalseAlarm,
       Alarming, SpeakerType, redisVars
  <2>3. CASE GetAlert(t)
    BY <2>3, <1>0 DEF GetAlert, ThrowLocked, Crash, Goto, CauseInv, NoFalseAlarm,
       Alarming, SpeakerType, redisVars
  <2>4. CASE Decide(t)
    BY <2>4, <1>2 DEF Decide, Alarmed, Alarming, CauseInv, Steps, speakerVars,
       localVars, redisVars
  <2>5. CASE AssignSong(t)
    <3>1. danger /\ UNCHANGED <<hot, danger, alert, warm, answer,
                                device_alert_state, posted>>
      BY <2>5 DEF AssignSong, CauseInv, Alarming, localVars, redisVars
    <3>2. \A u \in Threads : pc'[u] = "latch" => pc[u] = "latch"
      BY <2>5, <1>0 DEF AssignSong, Goto, SpeakerType
    <3> QED
      BY <3>1, <3>2 DEF CauseInv, NoFalseAlarm
  <2>6. CASE Stop(t)
    BY <2>6, <1>2 DEF Stop, Alarming, CauseInv, Steps, localVars, redisVars
  <2>7. CASE Raise(t)
    <3>1. danger /\ UNCHANGED <<hot, danger, warm, answer, Alerting>>
      BY <2>7 DEF Raise, CauseInv, Alarming
    <3>2. alert' = "1" \/ UNCHANGED alert
      BY <2>7 DEF Raise, Throw, Crash, redisVars
    <3>3. \A u \in Threads : pc'[u] = "latch" => pc[u] = "latch" \/ alert' = "1"
      BY <2>7, <1>0 DEF Raise, Throw, Crash, Goto, SpeakerType
    <3> QED
      BY <3>1, <3>2, <3>3 DEF CauseInv, NoFalseAlarm
  <2>8. CASE Latch(t)
    <3>1. device_alert_state' => alert = "1"
      BY <2>8 DEF Latch, CauseInv
    <3>2. UNCHANGED <<hot, danger, alert, warm, answer, current_song, posted>>
      BY <2>8 DEF Latch, localVars, redisVars
    <3>3. \A u \in Threads : pc'[u] \in Alarming => pc'[u] = pc[u]
      BY <2>8, <1>0 DEF Latch, Goto, SpeakerType, Alarming
    <3> QED
      BY <3>1, <3>2, <3>3 DEF CauseInv, NoFalseAlarm, Alarming
  <2>9. CASE GetDeviceValue(t)
    BY <2>9, <1>2 DEF GetDeviceValue, ThrowLocked, Alarming, Steps, localVars,
       redisVars
  <2>10. CASE Post(t)
    <3>1. posted' => alert = "1"
      BY <2>10 DEF Post, NoFalseAlarm
    <3>2. UNCHANGED <<hot, danger, alert, current_song, device_alert_state>>
      BY <2>10 DEF Post, redisVars
    <3>3. \A u \in Threads : /\ pc'[u] \in Alarming => pc'[u] = pc[u]
                             /\ warm'[u] => warm[u]
                             /\ answer'[u] = "1" => answer[u] = "1"
      BY <2>10, <1>0 DEF Post, Goto, SpeakerType, Alarming
    <3> QED
      BY <3>1, <3>2, <3>3 DEF CauseInv, NoFalseAlarm, Alarming
  <2> QED
    BY <1>3, <2>1, <2>2, <2>3, <2>4, <2>5, <2>6, <2>7, <2>8, <2>9, <2>10
    DEF Callback
<1>4. ASSUME NEW t \in Threads, Notification(t) PROVE CauseInv' /\ NoFalseAlarm'
  BY <1>4, <1>2 DEF Notification, OnObserve, Alarming, Steps, speakerVars,
     localVars, redisVars
<1>5. CASE Temperature
  BY <1>5 DEF Temperature, CauseInv, NoFalseAlarm, clientVars, localVars, redisVars
<1>6. CASE Environment
  BY <1>6 DEF Environment, Raised, RedisStops, RedisStarts, CauseInv, NoFalseAlarm,
     localVars
<1>7. CASE Joining \/ Open \/ Play \/ ObserveError
  BY <1>7, <1>1 DEF Joining, FoundResource, OnGet, Open, Play, ObserveError,
     OnObserveError, clientVars, speakerVars, localVars, redisVars
<1> QED
  BY <1>3, <1>4, <1>5, <1>6, <1>7 DEF Next, Own

LEMMA InitInv == Init => Inv
<1> SUFFICES ASSUME Init PROVE Inv
  OBVIOUS
<1>1. ClientTypeOK /\ JoinInv
  BY ClientInitType DEF Init
<1>2. /\ pc \in [Threads -> Steps]
      /\ answer \in [Threads -> {"none", "0", "1", "OK"}]
  BY DEF Init, ClientInit, Steps
<1>3. warm \in [Threads -> BOOLEAN]
  BY DEF Init
<1>4. files \in 0 .. MaxFiles
  BY SpeakerAssumption DEF Init
<1>5. SpeakerType
  BY <1>2, <1>3, <1>4 DEF Init, SpeakerType, Songs
<1>6. CauseInv
  BY DEF Init, ClientInit, CauseInv, Alarming
<1>7. Used <= MaxFiles
  BY SpeakerAssumption DEF Init, Used, Held
<1> QED
  BY <1>1, <1>5, <1>6, <1>7, Types DEF Init, Inv, NormalNotResumed, NoFalseAlarm

LEMMA StutterType ==
  ASSUME TypeOK, JoinInv, UNCHANGED vars
  PROVE  TypeOK' /\ JoinInv'
<1>1. ClientTypeOK' /\ JoinInv'
  BY DEF vars, clientVars, joinVars, redisVars, TypeOK, ClientTypeOK, JoinInv
<1>2. SpeakerType'
  BY DEF vars, clientVars, speakerVars, localVars, playerVars, TypeOK, SpeakerType
<1>3. Used' <= MaxFiles
  BY DEF vars, speakerVars, playerVars, TypeOK, Used, Held
<1> QED
  BY <1>1, <1>2, <1>3, TypesAfter

LEMMA StutterInv == Inv /\ UNCHANGED vars => Inv'
<1> SUFFICES ASSUME Inv, UNCHANGED vars PROVE Inv'
  OBVIOUS
<1>1. TypeOK' /\ JoinInv'
  BY StutterType DEF Inv
<1>2. UNCHANGED <<pc, alert, hot, danger, warm, answer, current_song,
                  device_alert_state, posted, runner, file, should_kick_stop>>
  BY DEF vars, clientVars, redisVars, speakerVars, localVars, playerVars
<1> QED
  BY <1>1, <1>2 DEF Inv, CauseInv, NormalNotResumed, Deciding, NoFalseAlarm

LEMMA TypeStep == TypeOK /\ JoinInv /\ Next => TypeOK' /\ JoinInv'
BY ClientStep, SpeakerStep, UsedStep, TypesAfter

(* Whatever callbacks, replies and faults come together, every reachable state
   satisfies the inductive invariant. *)
THEOREM InvHolds == Spec => []Inv
<1>1. Inv /\ [Next]_vars => Inv'
  BY TypeStep, PlayerStep, CauseStep, StutterInv DEF Inv
<1> QED
  BY <1>1, InitInv, PTL DEF Spec

(* Type correctness; in particular the limit of descriptors is kept. *)
THEOREM TypesHold == Spec => []TypeOK
<1>1. Inv => TypeOK
  BY DEF Inv
<1> QED
  BY <1>1, InvHolds, PTL

(* After stop() the player does not go on with the normal song. *)
THEOREM NormalSongEnds == Spec => []NormalNotResumed
<1>1. Inv => NormalNotResumed
  BY DEF Inv
<1> QED
  BY <1>1, InvHolds, PTL

(* The emergency song, the latch and the alert of a POST have a cause. *)
THEOREM AlarmsHaveACause == Spec => []NoFalseAlarm
<1>1. Inv => NoFalseAlarm
  BY DEF Inv
<1> QED
  BY <1>1, InvHolds, PTL

-----------------------------------------------------------------------------
(* As long as redis works and contexts can be allocated.                     *)

(* No callback loses or frees the connection of those past connecting. *)
LEMMA SteadyConnection ==
  ASSUME "memory" \notin Faults, NEW steps, Connected(steps), pc \in [Threads -> Steps],
         NEW t \in Threads, Callback(t),
         {"check", "unallocated", "lock", "read", "get", "decide"} \subseteq steps,
         Alarming \subseteq steps,
         {"none", "status", "connect", "false", "device", "value", "post"}
           \cap steps = {}
  PROVE  Connected(steps)'
<1>1. CASE UNCHANGED <<redisUp, context, pc>>
  BY <1>1 DEF Connected
<1>2. ASSUME NEW step, step \in steps => context = "ok", step # "free",
             UNCHANGED <<redisUp, context>>, pc' = [pc EXCEPT ![t] = step]
      PROVE  Connected(steps)'
  BY <1>2 DEF Connected
<1>3. CASE \/ GetAlertStatus(t)
           \/ Connect(t)
           \/ CheckContext(t)
           \/ FreeContext(t)
           \/ Lock(t, "lock", "read")
  BY <1>3, ConnectedStep
<1>4. CASE Lock(t, "device", "value")
  BY <1>4, ConnectedStep
<1>5. CASE ReadTemperature(t) \/ GetDeviceValue(t)
  <2>1. pc[t] = "read" => context = "ok"
    BY DEF Connected
  <2> QED
    BY <1>2, <1>5, <2>1 DEF ReadTemperature, GetDeviceValue, ThrowLocked,
       Goto, redisVars
<1>6. CASE GetAlert(t) \/ Raise(t)
  <2>1. context = "ok"
    BY <1>6 DEF GetAlert, Raise, Connected, Alarming
  <2> QED
    BY <1>1, <1>2, <1>6, <2>1
    DEF GetAlert, Raise, NullReply, Outcomes, Crash, Goto, redisVars
<1>7. CASE Decide(t) \/ AssignSong(t) \/ Stop(t)
  <2>1. context = "ok"
    BY <1>7 DEF Decide, AssignSong, Stop, Connected, Alarming
  <2> QED
    BY <1>2, <1>7, <2>1 DEF Decide, AssignSong, Stop, Goto, redisVars
<1>8. CASE Latch(t) \/ Post(t)
  BY <1>2, <1>8 DEF Latch, Post, Goto, redisVars
<1> QED
  BY <1>3, <1>4, <1>5, <1>6, <1>7, <1>8 DEF Callback

(* Who has changed the song goes on until SET alert is done. *)
LEMMA PublishStep ==
  ASSUME SteadyInv, NEW t \in Threads, Callback(t)
  PROVE  LocalAlarmIsPublished'
<1> DEFINE Telling(u) == Deciding(u) \/ pc[u] = "raise"
<1>0. pc \in [Threads -> Steps] /\ LocalAlarmIsPublished
  BY DEF SteadyInv, TypeOK
<1>1. CASE UNCHANGED <<process, current_song, alert, pc>>
  BY <1>0, <1>1 DEF LocalAlarmIsPublished, Deciding
<1>2. ASSUME NEW step, ~Telling(t), UNCHANGED <<process, current_song, alert>>,
             Goto(t, step)
      PROVE  LocalAlarmIsPublished'
  BY <1>0, <1>2 DEF LocalAlarmIsPublished, Deciding, Goto
<1>3. ASSUME Telling(t)' PROVE LocalAlarmIsPublished'
  BY <1>3 DEF LocalAlarmIsPublished
<1>4. CASE AssignSong(t) \/ Stop(t)
  <2>1. Telling(t)'
    BY <1>0, <1>4 DEF AssignSong, Stop, Goto, Deciding
  <2> QED
    BY <1>3, <2>1
<1>5. CASE Raise(t)
  <2>1. context = "ok"
    BY <1>5 DEF Raise, SteadyInv, Connected, Alarming
  <2> QED
    BY <1>5, <2>1 DEF Raise, NullReply, Outcomes, Crash, LocalAlarmIsPublished
<1>6. CASE ReadTemperature(t) \/ GetAlert(t) \/ GetDeviceValue(t)
  BY <1>6, <1>2 DEF ReadTemperature, GetAlert, GetDeviceValue, ThrowLocked,
     NullReply, Crash, Deciding, redisVars, LocalAlarmIsPublished
<1>7. CASE Decide(t) \/ Latch(t) \/ Post(t)
  BY <1>7, <1>2 DEF Decide, Latch, Post, Deciding, redisVars, speakerVars
<1>8. CASE /\ \/ GetAlertStatus(t)
              \/ Connect(t)
              \/ CheckContext(t)
              \/ FreeContext(t)
              \/ Lock(t, "lock", "read")
              \/ Lock(t, "device", "value")
           /\ UNCHANGED speakerVars
  BY <1>8, <1>1, <1>2 DEF GetAlertStatus, Connect, CheckContext, FreeContext,
     Lock, Deciding, redisVars, speakerVars, LocalAlarmIsPublished
<1> QED
  BY <1>4, <1>5, <1>6, <1>7, <1>8 DEF Callback

LEMMA SteadyStep ==
  ASSUME "redis" \notin Faults, "memory" \notin Faults, SteadyInv, Next
  PROVE  SteadyInv'
<1>1. TypeOK' /\ JoinInv'
  BY TypeStep DEF SteadyInv
<1>2. ASSUME UNCHANGED <<process, redisUp, context, pc, current_song>>,
             alert' \in {alert, "1"}
      PROVE  SteadyInv'
  BY <1>1, <1>2
  DEF SteadyInv, Connected, LocalAlarmIsPublished, Deciding
<1>3. ASSUME NEW t \in Threads, Callback(t) PROVE SteadyInv'
  <2> DEFINE Past == {"check", "unallocated", "lock", "read", "get", "decide"}
                       \cup Alarming
  <2>1. /\ pc \in [Threads -> Steps]
        /\ Connected(Past)
        /\ {"check", "unallocated", "lock", "read", "get", "decide"} \subseteq Past
        /\ Alarming \subseteq Past
        /\ {"none", "status", "connect", "false", "device", "value", "post"}
             \cap Past = {}
    BY DEF SteadyInv, TypeOK, Alarming
  <2>2. Connected(Past)'
    BY <1>3, <2>1, SteadyConnection
  <2> QED
    BY <1>1, <1>3, <2>2, PublishStep DEF SteadyInv
<1>4. ASSUME NEW t \in Threads, Notification(t) PROVE SteadyInv'
  <2>1. /\ pc \in [Threads -> Steps]
        /\ pc[t] = "none"
        /\ pc' = [pc EXCEPT ![t] = IF device_alert_state THEN "device"
                                                         ELSE "status"]
        /\ UNCHANGED <<process, redisUp, context, current_song, alert>>
    BY <1>4 DEF Notification, OnObserve, Goto, redisVars, speakerVars, SteadyInv,
       TypeOK
  <2>2. \A u \in Threads : pc'[u] = pc[u] \/ pc'[u] \in {"device", "status"}
    BY <2>1
  <2>3. \A u \in Threads : Deciding(u) \/ pc[u] = "raise" => pc'[u] = pc[u]
    BY <2>1 DEF Deciding
  <2> QED
    BY <1>1, <2>1, <2>2, <2>3 DEF SteadyInv, Connected, LocalAlarmIsPublished,
       Deciding, Alarming
<1>5. CASE Joining \/ Open \/ Play \/ Temperature
  BY <1>5, <1>2 DEF Joining, FoundResource, OnGet, Open, Play, Temperature,
     clientVars, speakerVars, redisVars
<1>6. CASE ObserveError \/ Environment
  <2>1. CASE ObserveError
    <3>1. process' = "exited" /\ UNCHANGED <<redisUp, context, pc>>
      BY <2>1 DEF ObserveError, OnObserveError, redisVars
    <3> QED
      BY <1>1, <3>1 DEF SteadyInv, Connected, LocalAlarmIsPublished
  <2>2. CASE Environment
    <3>1. Raised /\ UNCHANGED <<localVars, current_song, should_kick_stop, files>>
      BY <2>2 DEF Environment, RedisStops, RedisStarts, SteadyInv, Connected, speakerVars
    <3> QED
      BY <1>2, <2>2, <3>1 DEF Environment, Raised, speakerVars
  <2> QED
    BY <1>6, <2>1, <2>2
<1> QED
  BY <1>3, <1>4, <1>5, <1>6 DEF Next, Own

LEMMA SteadyHolds ==
  "redis" \notin Faults /\ "memory" \notin Faults => (Spec => []SteadyInv)
<1> SUFFICES ASSUME "redis" \notin Faults, "memory" \notin Faults
             PROVE  Spec => []SteadyInv
  OBVIOUS
<1>1. Init => SteadyInv
  <2> SUFFICES ASSUME Init PROVE SteadyInv
    OBVIOUS
  <2>1. TypeOK /\ JoinInv
    BY InitInv DEF Inv
  <2> QED
    BY <2>1 DEF Init, ClientInit, SteadyInv, Connected, Alarming,
       LocalAlarmIsPublished
<1>2. SteadyInv /\ [Next]_vars => SteadyInv'
  <2> SUFFICES ASSUME SteadyInv, UNCHANGED vars PROVE SteadyInv'
    BY SteadyStep
  <2>1. TypeOK' /\ JoinInv'
    BY StutterType DEF SteadyInv
  <2>2. UNCHANGED <<process, redisUp, context, pc, current_song, alert>>
    BY DEF vars, clientVars, redisVars, speakerVars
  <2> QED
    BY <2>1, <2>2 DEF SteadyInv, Connected, LocalAlarmIsPublished, Deciding
<1> QED
  BY <1>1, <1>2, PTL DEF Spec

(* A speaker that has changed its own song has raised the alert, or is about
   to. *)
THEOREM AlarmsArePublished ==
  "redis" \notin Faults /\ "memory" \notin Faults
  => (Spec => []LocalAlarmIsPublished)
<1> SUFFICES ASSUME "redis" \notin Faults, "memory" \notin Faults
             PROVE  Spec => []LocalAlarmIsPublished
  OBVIOUS
<1>1. SteadyInv => LocalAlarmIsPublished
  BY DEF SteadyInv
<1> QED
  BY <1>1, SteadyHolds, PTL

(* Only a probe that cannot be opened makes a callback leave the lock behind. *)
LEMMA LeakStep ==
  ASSUME "sensor" \notin Faults, SteadyInv, LockLostToFiles, NEW t \in Threads, Callback(t)
  PROVE  LockLostToFiles'
<1>0. files \in 0 .. MaxFiles /\ MaxFiles \in Nat
  BY SpeakerAssumption DEF SteadyInv, TypeOK
<1>1. ASSUME files' = files, lock' = "leaked" => lock = "leaked"
      PROVE  LockLostToFiles'
  BY <1>0, <1>1 DEF LockLostToFiles
<1>2. CASE ReadTemperature(t)
  <2>1. CASE files' = files + 1 /\ lock' = lock
    BY <1>0, <2>1 DEF LockLostToFiles
  <2>2. CASE ~Readable /\ files' = files
    BY <1>0, <2>2 DEF Readable, Used, Held, LockLostToFiles
  <2> QED
    BY <1>2, <2>1, <2>2 DEF ReadTemperature
<1>3. CASE GetDeviceValue(t)
  <2>1. CASE lock' = "free"
    BY <2>1 DEF LockLostToFiles
  <2>2. CASE ~Readable /\ files' = files
    BY <1>0, <2>2 DEF Readable, Used, Held, LockLostToFiles
  <2> QED
    BY <1>3, <2>1, <2>2 DEF GetDeviceValue
<1>4. CASE GetAlert(t)
  <2>1. context = "ok"
    BY <1>4 DEF GetAlert, SteadyInv, Connected
  <2> QED
    BY <1>4, <2>1, <1>1 DEF GetAlert, NullReply, Outcomes, Crash
<1>5. CASE Raise(t)
  BY <1>5, <1>1 DEF Raise, NullReply, Throw, Crash
<1>6. CASE \/ GetAlertStatus(t) /\ UNCHANGED speakerVars
           \/ Connect(t) /\ UNCHANGED speakerVars
           \/ CheckContext(t) /\ UNCHANGED speakerVars
           \/ FreeContext(t) /\ UNCHANGED speakerVars
           \/ Lock(t, "lock", "read") /\ UNCHANGED speakerVars
           \/ Lock(t, "device", "value") /\ UNCHANGED speakerVars
  BY <1>6, <1>1 DEF GetAlertStatus, Connect, CheckContext, FreeContext, Lock,
     speakerVars
<1>7. CASE Decide(t) \/ AssignSong(t) \/ Stop(t) \/ Latch(t) \/ Post(t)
  BY <1>7, <1>1 DEF Decide, AssignSong, Stop, Latch, Post, speakerVars
<1> QED
  BY <1>2, <1>3, <1>4, <1>5, <1>6, <1>7 DEF Callback

LEMMA FilesStep ==
  ASSUME "sensor" \notin Faults, SteadyInv, LockLostToFiles, Next
  PROVE  LockLostToFiles'
<1>1. CASE UNCHANGED <<lock, files>>
  BY <1>1 DEF LockLostToFiles
<1>2. ASSUME NEW t \in Threads, Notification(t) PROVE LockLostToFiles'
  BY <1>2, <1>1 DEF Notification, OnObserve, speakerVars
<1>3. CASE Joining \/ Play \/ Temperature \/ ObserveError \/ Environment
  BY <1>3, <1>1 DEF Joining, FoundResource, OnGet, Play, Temperature,
     Raised, ObserveError, Environment, RedisStops, RedisStarts, OnObserveError,
     clientVars, speakerVars
<1>4. CASE Open
  <2>1. UNCHANGED lock /\ (files' = files \/ files' = files + 1)
    BY <1>4 DEF Open, clientVars
  <2>2. files \in Nat /\ MaxFiles \in Nat
    BY SpeakerAssumption DEF SteadyInv, TypeOK
  <2> QED
    BY <2>1, <2>2 DEF LockLostToFiles
<1> QED
  BY <1>2, <1>3, <1>4, LeakStep DEF Next, Own

(* The lock is left behind only when the descriptors are used up, as long as
   neither redis nor an allocation nor the sensor fails. *)
THEOREM OnlyFilesLoseTheLock ==
  "redis" \notin Faults /\ "memory" \notin Faults /\ "sensor" \notin Faults
  => (Spec => []LockLostToFiles)
<1> SUFFICES ASSUME "redis" \notin Faults, "memory" \notin Faults,
                    "sensor" \notin Faults
             PROVE  Spec => []LockLostToFiles
  OBVIOUS
<1>1. Init => LockLostToFiles
  BY DEF Init, ClientInit, LockLostToFiles
<1>2. SteadyInv /\ LockLostToFiles /\ [Next]_vars => LockLostToFiles'
  <2>1. LockLostToFiles /\ UNCHANGED vars => LockLostToFiles'
    BY DEF LockLostToFiles, vars, clientVars, speakerVars
  <2> QED
    BY <2>1, FilesStep
<1> QED
  BY <1>1, <1>2, SteadyHolds, PTL DEF Spec

-----------------------------------------------------------------------------
(* The alert state of the device, with callbacks that overlap.               *)

Settles ==
  /\ current_song = "emergency" =>
       /\ Setters' \subseteq Setters
       /\ ~device_alert_state /\ device_alert_state' => Setters' # Setters
  /\ device_alert_state =>
       /\ Late' \subseteq Late
       /\ ~device_alert_state' => Late' # Late

LEMMA SettlesStep ==
  ASSUME TypeOK, Next
  PROVE  Settles
<1> DEFINE Done == {"none", "device", "value", "post"}
<1>0. pc \in [Threads -> Steps] /\ device_alert_state \in BOOLEAN
  BY DEF TypeOK
<1>1. CASE UNCHANGED <<device_alert_state, pc>>
  BY <1>1 DEF Settles, Setters, Late
<1>2. ASSUME NEW t \in Threads, NEW step, UNCHANGED device_alert_state,
             Goto(t, step),
             current_song = "emergency" /\ step \in Alarming => pc[t] \in Alarming,
             device_alert_state /\ pc[t] \in Done => step \in Done
      PROVE  Settles
  <2>1. \A u \in Threads : pc'[u] = IF u = t THEN step ELSE pc[u]
    BY <1>0, <1>2 DEF Goto
  <2>2. current_song = "emergency" => Setters' \subseteq Setters
    BY <1>2, <2>1 DEF Setters
  <2>3. device_alert_state => Late' \subseteq Late
    BY <1>2, <2>1 DEF Late
  <2> QED
    BY <1>2, <2>2, <2>3 DEF Settles
<1>3. ASSUME NEW t \in Threads, Callback(t) PROVE Settles
  <2>1. CASE /\ \/ GetAlertStatus(t)
                \/ Connect(t)
                \/ CheckContext(t)
                \/ FreeContext(t)
                \/ Lock(t, "lock", "read")
                \/ Lock(t, "device", "value")
             /\ UNCHANGED speakerVars
    BY <2>1, <1>1, <1>2 DEF GetAlertStatus, Connect, CheckContext, FreeContext,
       Lock, speakerVars, Alarming
  <2>2. CASE ReadTemperature(t) \/ GetAlert(t) \/ Raise(t) \/ GetDeviceValue(t)
    BY <2>2, <1>1, <1>2 DEF ReadTemperature, GetAlert, Raise, GetDeviceValue,
       ThrowLocked, Throw, Crash, Alarming
  <2>3. CASE Decide(t) \/ AssignSong(t) \/ Stop(t) \/ Post(t)
    BY <2>3, <1>2 DEF Decide, AssignSong, Stop, Post, speakerVars, Alarming
  <2>4. CASE Latch(t)
    <3>1. /\ pc[t] \in {"latch", "false", "unallocated"}
          /\ device_alert_state' = (pc[t] = "latch")
          /\ \A u \in Threads : pc'[u] = IF u = t THEN "device" ELSE pc[u]
      BY <2>4, <1>0 DEF Latch, Goto
    <3>2. Setters' \subseteq Setters /\ Late' = Late \ {t} /\ t \in Late
      BY <3>1 DEF Setters, Late, Alarming
    <3>3. device_alert_state' => t \in Setters /\ t \notin Setters'
      BY <3>1 DEF Setters, Alarming
    <3> QED
      BY <3>2, <3>3 DEF Settles
  <2> QED
    BY <1>3, <2>1, <2>2, <2>3, <2>4 DEF Callback
<1>4. ASSUME NEW t \in Threads, Notification(t) PROVE Settles
  <2>1. /\ UNCHANGED device_alert_state
        /\ pc[t] = "none"
        /\ Goto(t, IF device_alert_state THEN "device" ELSE "status")
    BY <1>4 DEF Notification, OnObserve, speakerVars
  <2> QED
    BY <2>1, <1>2 DEF Alarming
<1>5. CASE \/ Joining \/ Open \/ Play \/ Temperature \/ ObserveError
           \/ Environment
  BY <1>5, <1>1 DEF Joining, FoundResource, OnGet, Open, Play, Temperature,
     Raised, ObserveError, Environment, RedisStops, RedisStarts, OnObserveError,
     clientVars, speakerVars
<1> QED
  BY <1>3, <1>4, <1>5 DEF Next, Own

(* Whatever callbacks and faults come together: once the song is changed, each
   callback that decided before sets the alert state once and no other does;
   while it is set, only those that tested it before can take it back. *)
THEOREM StateSettles == Spec => AlertStateSettles
<1>1. TypeOK /\ [Next]_vars => [Settles]_vars
  BY SettlesStep
<1>2. Inv => TypeOK
  BY DEF Inv
<1> QED
  BY <1>1, <1>2, InvHolds, PTL DEF Spec, AlertStateSettles, Settles

=============================================================================
