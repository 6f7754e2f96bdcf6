-------------------------- MODULE BluetoothSpeaker --------------------------
(***************************************************************************)
(* The speaker: os_examples/BluetoothSpeaker.  Each notification makes it  *)
(* read its temperature sensor and the key "alert"; when it is hot or the  *)
(* alert was raised it changes the song, stops the player and raises the   *)
(* alert.  A thread of its own (normal_state_run) opens current_song and   *)
(* plays it to its end, again and again; stop() makes it break off.        *)
(*                                                                         *)
(* current_song, the player's flag and device_alert_state are shared       *)
(* without a lock.                                                         *)
(***************************************************************************)
EXTENDS Client

CONSTANT MaxFiles   \* descriptors left for the probe, the song and its output

ASSUME SpeakerAssumption == MaxFiles \in Nat \ {0}

VARIABLES
  hot,                  \* the temperature is above TEMPER_WARNING
  danger,               \* history: it was hot, or the alert was raised
  files,                \* descriptors that nobody will close: of the probe, which
                        \* GetValue leaves open, and of the output of each song
  warm,                 \* what each callback has read from the sensor
  answer,               \* what each callback was told about the alert
  current_song,         \* "torn" while a callback assigns it
  device_alert_state,
  posted,               \* the alert state of the last POST
  runner,               \* "open", "first" before the first chunk, "play"
  file,                 \* the song that is open, "none" if there is none
  should_kick_stop

localVars  == <<warm, answer>>
playerVars == <<runner, file>>
speakerVars == <<hot, danger, files, localVars, current_song, device_alert_state,
                 posted, playerVars, should_kick_stop>>
vars == <<clientVars, speakerVars>>

Init ==
  /\ ClientInit
  /\ hot \in BOOLEAN
  /\ danger = (hot \/ alert = "1")
  /\ files = 0
  /\ warm = [t \in Threads |-> FALSE]
  /\ answer = [t \in Threads |-> "none"]
  /\ current_song = "normal"
  /\ device_alert_state = FALSE
  /\ posted = FALSE
  /\ runner = "open"
  /\ file = "none"
  /\ should_kick_stop = FALSE

-----------------------------------------------------------------------------
(* onObserve and getPostValue.                                               *)

(* device_alert_state is tested before the call of getAlertStatus and assigned
   after it. *)
Notification(t) ==
  /\ OnObserve(t, IF device_alert_state THEN "device" ELSE "status")
  /\ UNCHANGED speakerVars

Held(song) == IF song = "none" THEN 0 ELSE 1

Used == files + Held(file)

(* GetValue opens the probe and never closes it: with no descriptor left fopen
   fails, and it throws. *)
Readable == Used < MaxFiles

ReadTemperature(t) ==
  /\ pc[t] = "read"
  /\ \/ /\ Readable
        /\ files' = files + 1
        /\ warm' = [warm EXCEPT ![t] = hot]
        /\ Goto(t, "get")
        /\ UNCHANGED <<process, joinVars, redisVars, context, lock>>
     \/ /\ ~Readable \/ "sensor" \in Faults
        /\ ThrowLocked(t)
        /\ UNCHANGED <<context, files, warm>>
  /\ UNCHANGED <<hot, danger, answer, current_song, device_alert_state, posted,
                 playerVars, should_kick_stop>>

(* Some callback is inside SET alert, which takes no lock. *)
Raising == \E t \in Threads : pc[t] = "raise"

(* GET alert.  If another callback is using the context for its SET, this one
   may take the other's reply, or the process may crash. *)
GetAlert(t) ==
  /\ pc[t] = "get"
  /\ \/ /\ "reply" \in Outcomes
        /\ \/ /\ alert # "absent"
              /\ answer' = [answer EXCEPT ![t] = alert]
           \/ /\ Raising
              /\ answer' = [answer EXCEPT ![t] = "OK"]
        /\ lock' = "free"
        /\ Goto(t, "decide")
        /\ UNCHANGED <<process, joinVars, redisVars, context>>
     \/ /\ NullReply
        /\ ThrowLocked(t)
        /\ UNCHANGED answer
     \/ /\ \/ "crash" \in Outcomes
           \/ "reply" \in Outcomes /\ (alert = "absent" \/ Raising)
        /\ Crash
        /\ UNCHANGED answer
  /\ UNCHANGED <<hot, danger, files, warm, current_song, device_alert_state,
                 posted, playerVars, should_kick_stop>>

(* Mutant: the sensor does not count. *)
AlarmedByOthers(t) == answer[t] = "1"

(* Mutant: the temperature is compared the wrong way round. *)
AlarmedWhenCold(t) == ~warm[t] \/ answer[t] = "1"

Alarmed(t) == warm[t] \/ answer[t] = "1"

(* A song that another callback is assigning may compare either way. *)
Decide(t) ==
  /\ pc[t] = "decide"
  /\ \/ /\ current_song # "emergency"
        /\ Alarmed(t)
        /\ Goto(t, "assign")
     \/ /\ current_song # "normal" \/ ~Alarmed(t)
        /\ Goto(t, "false")
  /\ UNCHANGED <<process, joinVars, redisVars, context, lock, speakerVars>>

(* Mutant: the player is stopped before the song is changed. *)
AssignSongAfterStop(t) ==
  /\ \/ /\ pc[t] = "assign"
        /\ should_kick_stop' = TRUE
        /\ Goto(t, "assigning")
        /\ UNCHANGED current_song
     \/ /\ pc[t] = "assigning"
        /\ current_song' = "emergency"
        /\ Goto(t, "raise")
        /\ UNCHANGED should_kick_stop
  /\ UNCHANGED <<process, joinVars, redisVars, context, lock, hot, danger, files,
                 localVars, device_alert_state, posted, playerVars>>

(* Assigning the name that is there already changes no byte. *)
AssignSong(t) ==
  /\ \/ /\ pc[t] = "assign"
        /\ current_song' = IF current_song = "normal" THEN "torn" ELSE current_song
        /\ Goto(t, "assigning")
     \/ /\ pc[t] = "assigning"
        /\ current_song' = "emergency"
        /\ Goto(t, "stop")
  /\ UNCHANGED <<process, joinVars, redisVars, context, lock, hot, danger, files,
                 localVars, device_alert_state, posted, playerVars,
                 should_kick_stop>>

(* Mutant: the song is changed and nobody is told. *)
StopOnly(t) ==
  /\ pc[t] = "stop"
  /\ should_kick_stop' = TRUE
  /\ Goto(t, "latch")
  /\ UNCHANGED <<process, joinVars, redisVars, context, lock, hot, danger, files,
                 localVars, current_song, device_alert_state, posted, playerVars>>

Stop(t) ==
  /\ pc[t] = "stop"
  /\ should_kick_stop' = TRUE
  /\ Goto(t, "raise")
  /\ UNCHANGED <<process, joinVars, redisVars, context, lock, hot, danger, files,
                 localVars, current_song, device_alert_state, posted, playerVars>>

(* SET alert 1, without the lock: any other command on the context at the same
   time may crash the process. *)
Raise(t) ==
  /\ pc[t] = "raise"
  /\ \/ /\ "reply" \in Outcomes
        /\ alert' = "1"
        /\ Goto(t, "latch")
        /\ UNCHANGED <<process, joinVars, redisUp, context, lock>>
     \/ /\ NullReply
        /\ Throw(t)
     \/ /\ \/ "crash" \in Outcomes
           \/ \E u \in Threads \ {t} : pc[u] \in {"get", "raise"}
        /\ Crash
  /\ UNCHANGED <<hot, danger, files, warm, answer, current_song, device_alert_state,
                 posted, playerVars, should_kick_stop>>

(* Mutant: the answer of getAlertStatus is not looked at. *)
LatchAlways(t) ==
  /\ pc[t] \in {"latch", "false", "unallocated"}
  /\ device_alert_state' = TRUE
  /\ Goto(t, "device")
  /\ UNCHANGED <<process, joinVars, redisVars, context, lock, hot, danger, files,
                 localVars, current_song, posted, playerVars, should_kick_stop>>

(* getPostValue stores what getAlertStatus returned. *)
Latch(t) ==
  /\ pc[t] \in {"latch", "false", "unallocated"}
  /\ device_alert_state' = (pc[t] = "latch")
  /\ Goto(t, "device")
  /\ UNCHANGED <<process, joinVars, redisVars, context, lock, hot, danger, files,
                 localVars, current_song, posted, playerVars, should_kick_stop>>

(* Mutant: the lock is not released. *)
GetDeviceValueKeepsLock(t) ==
  /\ pc[t] = "value"
  /\ Readable
  /\ files' = files + 1
  /\ lock' = "leaked"
  /\ Goto(t, "post")
  /\ UNCHANGED <<process, joinVars, redisVars, context, hot, danger, localVars,
                 current_song, device_alert_state, posted, playerVars,
                 should_kick_stop>>

(* getDeviceValue, under the lock. *)
GetDeviceValue(t) ==
  /\ pc[t] = "value"
  /\ \/ /\ Readable
        /\ files' = files + 1
        /\ lock' = "free"
        /\ Goto(t, "post")
        /\ UNCHANGED <<process, joinVars, redisVars>>
     \/ /\ ~Readable \/ "sensor" \in Faults
        /\ ThrowLocked(t)
        /\ UNCHANGED files
  /\ UNCHANGED <<context, hot, danger, localVars, current_song, device_alert_state,
                 posted, playerVars, should_kick_stop>>

(* Mutant: the state is reset once it was reported. *)
PostResets(t) ==
  /\ pc[t] = "post"
  /\ posted' = device_alert_state
  /\ device_alert_state' = FALSE
  /\ warm' = [warm EXCEPT ![t] = FALSE]
  /\ answer' = [answer EXCEPT ![t] = "none"]
  /\ Goto(t, "none")
  /\ UNCHANGED <<process, joinVars, redisVars, context, lock, hot, danger, files,
                 current_song, playerVars, should_kick_stop>>

Post(t) ==
  /\ pc[t] = "post"
  /\ posted' = device_alert_state
  /\ warm' = [warm EXCEPT ![t] = FALSE]
  /\ answer' = [answer EXCEPT ![t] = "none"]
  /\ Goto(t, "none")
  /\ UNCHANGED <<process, joinVars, redisVars, context, lock, hot, danger, files,
                 current_song, device_alert_state, playerVars, should_kick_stop>>

-----------------------------------------------------------------------------
(* The player's thread.                                                      *)

(* mpg123_open fails if there is no descriptor left, or for a song that is being
   assigned, which reads as the old name, the new one, or a name that no file
   has.  Then ao_open_live fails, or opens an output that nobody closes. *)
Open ==
  /\ runner = "open"
  /\ \/ /\ files < MaxFiles
        /\ file' \in IF current_song = "torn" THEN {"normal", "emergency", "none"}
                                              ELSE {current_song}
     \/ /\ files = MaxFiles
        /\ file' = "none"
  /\ \/ UNCHANGED files
     \/ /\ files + Held(file') < MaxFiles
        /\ files' = files + 1
  /\ runner' = "first"
  /\ UNCHANGED <<clientVars, hot, danger, localVars, current_song,
                 device_alert_state, posted, should_kick_stop>>

(* play() reads a chunk, then looks at the flag, then plays the chunk; it ends
   with the flag, or with the song, which has one chunk at least.  The next
   mpg123_open closes the song before it opens another. *)
Play ==
  /\ runner \in {"first", "play"}
  /\ \/ /\ file # "none"
        /\ ~should_kick_stop
        /\ runner' = "play"
        /\ UNCHANGED <<file, should_kick_stop>>
     \/ /\ file # "none"
        /\ should_kick_stop
        /\ should_kick_stop' = FALSE
        /\ runner' = "open"
        /\ file' = "none"
     \/ /\ file = "none" \/ runner = "play"
        /\ runner' = "open"
        /\ file' = "none"
        /\ UNCHANGED should_kick_stop
  /\ UNCHANGED <<clientVars, hot, danger, files, localVars, current_song,
                 device_alert_state, posted>>

-----------------------------------------------------------------------------

Joining == (FoundResource \/ OnGet) /\ UNCHANGED speakerVars

Callback(t) ==
  \/ GetAlertStatus(t) /\ UNCHANGED speakerVars
  \/ Connect(t) /\ UNCHANGED speakerVars
  \/ CheckContext(t) /\ UNCHANGED speakerVars
  \/ FreeContext(t) /\ UNCHANGED speakerVars
  \/ Lock(t, "lock", "read") /\ UNCHANGED speakerVars
  \/ ReadTemperature(t)
  \/ GetAlert(t)
  \/ Decide(t)
  \/ AssignSong(t)
  \/ Stop(t)
  \/ Raise(t)
  \/ Latch(t)
  \/ Lock(t, "device", "value") /\ UNCHANGED speakerVars
  \/ GetDeviceValue(t)
  \/ Post(t)

Temperature ==
  /\ hot' = ~hot
  /\ danger' = TRUE
  /\ UNCHANGED <<clientVars, files, localVars, current_song, device_alert_state,
                 posted, playerVars, should_kick_stop>>

ObserveError == OnObserveError /\ UNCHANGED speakerVars

(* Another speaker raises the alert, or redis stops or starts. *)
Environment ==
  /\ \/ Raised /\ danger' = TRUE
     \/ (RedisStops \/ RedisStarts) /\ UNCHANGED danger
  /\ UNCHANGED <<hot, files, localVars, current_song, device_alert_state, posted,
                 playerVars, should_kick_stop>>

(* What the process does.  The rest of the system goes on when it has ended. *)
Own ==
  /\ process = "up"
  /\ \/ Joining
     \/ \E t \in Threads : Notification(t) \/ Callback(t)
     \/ ObserveError
     \/ Open
     \/ Play

Next ==
  \/ Own
  \/ Temperature
  \/ Environment

Spec == Init /\ [][Next]_vars

(* The process keeps its threads running, the server keeps notifying it. *)
Fairness ==
  /\ WF_vars(process = "up" /\ Joining)
  /\ WF_vars(process = "up" /\ \E t \in Threads : Notification(t))
  /\ \A t \in Threads : WF_vars(process = "up" /\ Callback(t))
  /\ WF_vars(process = "up" /\ (Open \/ Play))

FairSpec == Spec /\ Fairness

-----------------------------------------------------------------------------

Songs == {"normal", "emergency"}

Steps == {"none", "status", "connect", "check", "free", "false", "unallocated",
          "lock", "read", "get", "decide", "assign", "assigning", "stop",
          "raise", "latch", "device", "value", "post"}

TypeOK ==
  /\ ClientTypeOK
  /\ pc \in [Threads -> Steps]
  /\ hot \in BOOLEAN
  /\ danger \in BOOLEAN
  /\ files \in 0 .. MaxFiles
  /\ warm \in [Threads -> BOOLEAN]
  /\ answer \in [Threads -> {"none", "0", "1", "OK"}]
  /\ current_song \in Songs \cup {"torn"}
  /\ device_alert_state \in BOOLEAN
  /\ posted \in BOOLEAN
  /\ runner \in {"open", "first", "play"}
  /\ file \in Songs \cup {"none"}
  /\ should_kick_stop \in BOOLEAN
  /\ Used <= MaxFiles

(* A callback is between its decision and SET alert. *)
Deciding(t) == pc[t] \in {"assign", "assigning", "stop"}

(* The player's thread is never left playing the normal song: once the song is
   changed and stop() was called, either the flag is still up or the song that
   is being played is not the normal one, however the flag, the end of a song
   and the opening of the next one fall together. *)
NormalNotResumed ==
  /\ current_song = "emergency"
  /\ \A t \in Threads : ~Deciding(t)
  /\ runner # "open"
  /\ file = "normal"
  => should_kick_stop

(* The emergency song, the latch and the alert of a POST have a cause, also
   when replies of redis are mixed up. *)
NoFalseAlarm ==
  /\ current_song # "normal" => danger
  /\ device_alert_state \/ posted => alert = "1"

(* As long as redis works: the speaker has told the others once it has changed
   its own song, unless the callback that does so is still under way. *)
LocalAlarmIsPublished ==
  process = "up" /\ current_song = "emergency" =>
    alert = "1" \/ \E t \in Threads : Deciding(t) \/ pc[t] = "raise"

(* As long as redis and the sensor work, a callback ends with the lock held
   only because it cannot open the probe any more: all descriptors are taken for
   good, but perhaps the one that the player opens its songs with. *)
LockLostToFiles == lock = "leaked" => files + 1 >= MaxFiles

(* The steps of a callback that has decided to raise the alert. *)
Alarming == {"assign", "assigning", "stop", "raise", "latch"}

(* Who will set the alert state, and who may take it back: the callbacks that
   tested it before it was set. *)
Setters == {t \in Threads : pc[t] \in Alarming}
Late    == {t \in Threads : pc[t] \notin {"none", "device", "value", "post"}}

(* Once the song is changed nobody else will set the alert state of the device,
   and each of those who will does so once; while it is set nobody else becomes
   able to take it back, and each of those who are does so once.  So with n
   callbacks at a time it settles after n changes each way. *)
AlertStateSettles ==
  [][/\ current_song = "emergency" =>
          /\ Setters' \subseteq Setters
          /\ ~device_alert_state /\ device_alert_state' => Setters' # Setters
     /\ device_alert_state =>
          /\ Late' \subseteq Late
          /\ ~device_alert_state' => Late' # Late]_vars

(* A callback that measured heat and is about to ask for the alert: from some
   time on the alert is raised and the normal song is never played again, unless
   the process crashes.  (The loudspeaker may be silent by then: see Open.) *)
HeatIsAnnounced ==
  \A t \in Threads :
    pc[t] = "get" /\ warm[t]
      ~> (process # "up" \/ (alert = "1" /\ [](file # "normal")))

-----------------------------------------------------------------------------
(* The inductive invariants behind these properties.                         *)

(* Where an alarm comes from, at every step of the callbacks that carry it. *)
CauseInv ==
  /\ hot \/ alert = "1" => danger
  /\ \A t \in Threads :
       /\ warm[t] \/ answer[t] = "1" \/ pc[t] \in Alarming => danger
       /\ pc[t] = "latch" => alert = "1"

Inv ==
  /\ TypeOK
  /\ JoinInv
  /\ CauseInv
  /\ NormalNotResumed
  /\ NoFalseAlarm

(* As long as redis works and contexts can be allocated. *)
SteadyInv ==
  /\ TypeOK
  /\ JoinInv
  /\ Connected({"check", "unallocated", "lock", "read", "get", "decide"}
                 \cup Alarming)
  /\ LocalAlarmIsPublished

=============================================================================
