# Verification of the fire-evacuation guidance system

TLA+ models of the system's own programs, the TLC runs that check them on small
instances, and TLAPS proofs of their safety properties. Paths below are
relative to `src/`; `os/` stands for `iotivity/resource/examples/os_examples/`
and `csdk/` for `iotivity/resource/csdk/stack/`.

## The system

A server (a Raspberry Pi) offers one observable resource. Devices discover it,
GET it and observe it. The server notifies every observer once a second, and the
notification is the devices' clock: each one makes the device read its input,
ask redis on the server whether the alert was raised, act, and POST its state.

| component | code | state | operations |
|---|---|---|---|
| server resource | `os/server/GenericResource.cpp` | `m_interestedObservers`, `m_isStartedThread`, `resource_table` | `EntityHandlerCB` (GET, POST, observe, unobserve), notify threads |
| observer list of the stack | `csdk/src/ocobserve.c`, `ocresource.c`, `ocstack.c` | `g_serverObsList`, `failedCommCount` | registration, cancellation, feedback of the transport, a round of notifications |
| server's redis | `os/server/redis-db.cpp` | the set `devices`, a hash per device | `setEntries`, `execute` |
| light | `os/SmartLED` | `m_context`, `_led_lock`, `m_value`, the pins | `foundResource`, `onGet`, `onObserve`, `getAlertStatus`, `normal_state_run` |
| speaker | `os/BluetoothSpeaker` | `m_context`, `_temper_lock`, `current_song`, `should_kick_stop`, `device_alert_state` | the same, with the sensor and the player |
| device model | `model/` | devices, rooms, maps of them, and the objects they point to | builders, setters, `parse`, `toJson` |
| Bluetooth ping | `modules/BLE`, `os/*/Bluetooth.cpp` | `sent_pkt`, `recv_pkt`, `loss`, the socket | `ping` (L2CAP echo), `stat` from SIGINT, `getInstance` |
| stand-alone modules | `modules/LED`, `Temperature`, `audio`, `redis`, `compress`, `crypto` | - | demos and wrappers of libraries |
| IoTivity | the rest of `iotivity/` | - | third-party |

How they interact:

- stack -> handler: calls on the stack's thread (`InProcServerWrapper::processFunc`),
  one at a time, under `m_csdkLock`;
- notify thread -> stack: `OCNotifyListOfObservers`, without that lock, with a
  pointer into the handler's vector;
- server -> devices: notifications; devices -> server: POSTs;
- devices <-> devices: only through the redis key `alert`;
- client stack -> client: each callback in a detached thread of its own, so
  callbacks overlap and overtake one another;
- callbacks -> the device's own thread (pins, player): plain shared fields;
- clients -> device model: each POST is a `Device` in JSON, which the server
  parses; the objects behind a device or a room are shared through `shared_ptr`;
- SIGINT -> ping: the handler reads the counters the pinging thread is writing.

What is hard: threads that share fields without a lock, on all three programs; a
vector moved while it is read; two lists of observers, of which the transport
changes only one when an observer is lost; results acted on late; redis failing
between two commands, or in one that throws with a lock held; file descriptors
that are never closed; late answers to a ping that was given up; objects shared
without notice; and that a fire detected somewhere must at last reach every
light and speaker.
`PROJECT.json` lists these hazards at their lines.

What makes each component correct:

- server resource: its list holds the stack's observers and, besides them, only
  those that were lost; there is a notify thread while there are observers, and
  one only; every observer is notified; only a departure that overlaps a round, a
  lost observer, a failed send or reused memory makes a round fail; no device is
  marked as gone because another one left;
- clients: one user of the redis connection at a time, and a connection to use;
- light: the alarm colour if and only if the alert was raised, in the end;
- speaker: heat is published and ends the normal song; the alert state that is
  reported settles; the handshake with the player never leaves the normal song
  playing;
- the system: an alarm anywhere goes back to a danger, and a danger leads to an
  alarm everywhere;
- device model: the server reads what the client wrote, and what it has read is
  independent of every other object until somebody hands its pointers on;
- ping: the loss it reports is that of requests that timed out, and an answer is
  counted for its own request.

## Modules

`GenericResource` models the server. The stack's thread handles one `job` at a
time; the handler is cut into steps where another thread's step can matter
(`register` or `leave`, then `start`; `post`, then `entries`).

Observers leave in two ways. A client that cancels (`Deregister`) is deleted by
the stack and then by `Observe`. A client that is *lost* (`NotInterested`: it
resets a notification; `FailedComm`: it misses three in a row) is deleted by the
stack alone. `OCStackFeedBack` does call the entity handler, but with a NULL
resource handle (`ocstack.c:712`, `:769`), which `EntityHandlerWrapper` does not
find and refuses (`InProcServerWrapper.cpp:214-226`), so that `Observe` is not
reached: the id stays in `m_interestedObservers`, no device is marked as gone, and
every round counts one observer more than it can send to. When the stack gives
the id to a new observer, it stands in the list twice, and the next
cancellation of that id erases both.

| TLA+ | code |
|---|---|
| `observers`, `failedCommCount` | `g_serverObsList` and its field |
| `interested`, `size`, `capacity` | the buffer of `m_interestedObservers`: `erase` leaves old values above `size`, and `push_back` beyond `capacity` (which doubles) moves it |
| `silent` | history: lost observers whose id no cancellation has erased |
| `stale`, `view` | a notify thread holds a freed buffer, and what that held |
| `m_isStartedThread`, `resource_table` | the same |
| `pc`, `next`, `count`, `sent`, `failed` | a notify thread and the locals of `SendListObserverNotification` |
| `devices`, `alive` | the redis set, and the field `al` of each hash |
| `stopped`, `disturbed` | history: the flag was cleared; the round began with a lost observer in the list, was overlapped by a departure, had a failed send, or read reused memory |
| `Register`, `Deregister`, `NotInterested`, `FailedComm`, `StillInterested`, `PostRequest` | `HandleResourceWithEntityHandler`, `OCStackFeedBack` |
| `ObserveRegister`, `ObserveUnregister`, `StartThread` | `Observe` |
| `Lose` | the deletion of an observer whose handler call was refused |
| `AddResourceTable`, `Post`, `RedisException` | the POST branch of the handler |
| `Wake`, `NotifyBegin`, `NotifyOne`, `NotifyEnd`, `StopNotify` | `ChangeGenericRepresentation` and the round it starts |

`Rounds` is the abstract specification of those notifications: who is interested,
who is just leaving, who is lost but still counted, and for each notifier whether
its round is open, excused or failed, and whom it still owes a notification. `NotifyRounds` maps the server to
it: `owed` is what stands in the slots a thread has not reached, in the buffer it
reads from, which may be the current one or the one it was moved from; a round is
excused from the moment a departure overlaps it or a send fails, and from its
beginning if a lost observer is listed (`disturbed`).
The code keeps no such set. It counts the sends and compares the count with the
length of the list it began with, and what `ImplementsRounds` says is that the
count stands for the set.

`Client` holds what the two clients share, which their sources repeat: joining,
the connection to redis, the lock, and redis itself. `SmartLED` and
`BluetoothSpeaker` extend it. `pc[t]` is where callback `t` is; an exception
returns it to `none`, with the lock `leaked` when it was held. `context` says
what `m_context` points to; using a `freed` one is undefined, so it may crash or
go on. In `SmartLED` the thread of the pins is `Control`; in
`BluetoothSpeaker` the player's thread is `Open` and `Play`, and a song that is
being assigned is `torn`: read then, it is the old name, the new one, or one no
file has. `files` counts the descriptors nobody will close: one for each reading
of the sensor (`fopen` without `fclose`), and one for each output that `open()`
may open (`ao_open_live` without `ao_close`); the song that is open takes one
more (`Used`). At the limit `Readable` is false for the callbacks, and `Open` gets
no song or no output: the player goes through its loop and nothing is heard.
`getAlertStatus` reads `m_context` several times without a lock, so
each read is a step: `GetAlertStatus`, `Connect`, `CheckContext` (the outer
test), `FreeContext` (the inner one, which may see another callback's context).
SET alert takes no lock, so a GET of another callback at the same time may get
the reply of the SET (`"OK"`), or the process may crash.

`EvacSystem` composes the two clients: it extends `BluetoothSpeaker` and takes
the light as an instance of `SmartLED` with variables of its own; the key
`alert` and redis are shared, so one device's SET is seen by the other's GET at
any step in between, and a failure of redis breaks both connections. `Alarm` is
the abstract specification: four variables (`danger`, `raised`, `alarmed`,
`hearsay`), and actions that say who may raise the alert, who may give the alarm
and who may give it up. Under the mapping of `AlarmSystem` (`raised` is
`alert = "1"`; the speaker is alarmed when its song is `"emergency"`, the light
when the colour it has chosen is the alarm colour; `hearsay` is `OldNews`, the
callbacks of the light that carry an answer other than `"1"`) every step of the
system is a step of `Alarm` or a stutter. The action `Lapse` is in `Alarm`
because of the code: a callback of the light that got its answer before the
alert may store the normal colour after another one has stored the alarm colour.
Each lapse takes one element of `hearsay`, and nothing is added to `hearsay` once
the alert is raised, so the light falls back finitely often.

`DeviceModel` keeps what the pointers of `model/` make observable: a *cell* is an
object behind a `shared_ptr` (`class`, `location`, `set`), which lives as long as
something points to it. A builder hands out its own cell, `parse` makes new ones.
Setters and constructors store the pointer the caller passes (`Passed`): a new
object's, or that of any object that is there, another device's or room's or the
builder's. `MapAddCopy` is `DeviceMap::add(T)`, whose copy has the pointer of the
original. So any object may come to be shared with any other. What the properties
are about is the one thing that is independent of the rest, a device or a room
that was read from JSON: `read` remembers what its text said, until somebody
changes it or hands on what it points to.

| TLA+ | code |
|---|---|
| `deviceBuilder`, `roomBuilder` | the members of `DeviceBuilder`, `RoomBuilder` |
| `device`, `room` | the `Device` and `Room` objects, `deviceType` from the subclass |
| `class`, `location`, `set` | `DeviceClass`, `Location`, `MySet` objects by their address |
| `map`, `renamed` | a `DeviceMap`; history: keys whose device has another uuid by now |
| `read` | history: the content of what was read, while nobody has changed it or handed on its parts |
| `ClassJson`, `ParseClass`, `DeviceJson`, `ParseDevice` | `toJson` and `parse` |
| `ParsedUnder` | `DeviceMap::parse`, which drops the keys of the JSON |
| `Refused` | `Location::setLevel`, which throws for 0 |

`BluetoothPing` is one thread in `Bluetooth::ping` and the radio. `air` is the
sequence of answers on their way, each with its id and whether it is to the
request that is being waited for. `Timeout` leaves the answers behind, `Receive`
reads them in a later ping, `Signal` is the handler of SIGINT.

`MCGenericResource`, `MCSmartLED` and `MCDeviceModel` add the symmetry sets for
TLC (threads are interchangeable, and so are the server's devices, the objects
and the cells of the device model; no run with a liveness property uses
symmetry); `BluetoothSpeaker`, `EvacSystem` and `BluetoothPing` are checked as
they are. `GenericResourceProofs`, `SmartLEDProofs`, `BluetoothSpeakerProofs`,
`EvacSystemProofs`, `DeviceModelProofs`, `BluetoothPingProofs` and `RoundsProofs`
(the server's refinement of `Rounds`) hold the theorems, `ClientProofs` the lemmas the two clients share. Definitions called
mutants are variants of an operator with a plausible bug. Replacing the operator
by its mutant makes a run fail, which shows that the property depends on the code.

## Runs

| run | question | bounds |
|---|---|---|
| `server_faults` | do the list, the flag, the rounds and the redis data stay consistent when observers join, cancel, are lost and come back, redis breaks, sends fail and freed memory is reused? is each round one of `Rounds`? | 2 ids, lists of 2, 1 device, 2 notify threads |
| `server_steady` | do the notifications go on, and is everyone notified for ever, while observers join? | 4 observers, one more than `UINT8_MAX`, 2 notify threads |
| `server_lost_wakeup` | are notifications stopped only without observers? No | 2 ids, observers cancel |
| `server_never_stops` | do they stop once all observers have cancelled? No | 2 ids, observers cancel |
| `led_faults` | mutual exclusion and no false alarm with every fault; how often can the colour fall back? | 3 callbacks |
| `led_steady` | does a raised alert reach light and server? | 2 callbacks, no faults |
| `led_message` | is the message about the connection right? No | 1 callback |
| `speaker_steady` | is heat announced, and the normal song ended? does the alert state settle? where does the lock go? | 2 callbacks, 5 descriptors, redis and sensor work |
| `evac_faults` | do speaker and light together do only what `Alarm` allows? | 1 callback each, 2 descriptors, redis and sensor fail |
| `evac_steady` | does the heat that the speaker measures end its normal song and reach the light, for good? | 1 callback each, 3 descriptors, no faults |
| `device_model` | what does JSON give back, and is what was read independent of what callers do to everything else? | 2 devices or rooms, 4 cells of each kind, 2 uuids |
| `bluetooth_ping` | are the statistics and the matching of answers right, and does a ping end? | pings of 3 requests with 2 ids, 12 requests, every fault |

Why these bounds are enough to be of interest:

- Two notify threads show every pairwise interaction with the flag, the vector
  and each other. The id of a thread that has ended is used again. More than two
  may be alive in the code (a sleeping thread that finds the flag set again goes
  on); when no id is left, `StartThread` waits, and the runs where this happens
  set `CHECK_DEADLOCK FALSE`. The theorems hold for any number of threads.
- `UsedIds` are the ids the stack picks and `MaxListed` the longest list, both
  bounds of the model: without the second the list grows for ever, because lost
  observers stay in it. Ids are used again at once, so with two ids and a list of
  two an id is lost and listed twice, leaves and comes back during a round, and the
  vector moves twice. `UINT8_MAX` is 255 in the code. In `server_steady` it is 3,
  with four observers, so that a list too long for a round (`size > UINT8_MAX`) is
  reached.
- `MAX_OBSERVER_FAILED_COMM` is 2 in the code and 1 in `server_faults`, where one
  failure is forgiven and the next is not; the theorems hold for any value.
- The server handles one POST at a time and keeps the redis data per device, so
  `server_faults` has one device; the theorems hold for any number.
- The largest runs (`server_faults`, `speaker_steady`, `evac_faults`) take one to
  three minutes with two workers.
- Two callbacks show every pairwise overtaking; three are used where it is cheap.
  In `EvacSystem` each device has one: the interleavings it is about are those of
  the two devices, and the overlaps within a device are in the devices' own runs.
  Its theorems hold for any number of callbacks of both.
- `MaxFiles` stands for the limit of open files (1024 by default), which the
  sensor's readings and the player's song and outputs share. It is a budget: five
  suffices for two callbacks to be under way together with the player, three for
  one, and the readings use it up in every behaviour in which notifications go
  on. With the two of `evac_faults` the speaker can still raise the alert and
  store its alert state, and the light can still fall back once.
- Sharing takes two objects, and more cells let one of them be replaced while
  the other and the builder keep theirs.
- Devices and rooms share nothing in `DeviceModel` but the bound on both, so
  `device_model` looks at sequences of calls on devices and at sequences of calls
  on rooms: `OneOfTheTwo` of `MCDeviceModel` is a CONSTRAINT that does not go on
  from states where something was done to each. The theorems have no such bound.
- Three requests with two ids make the ids start again within a ping
  (55 ids and pings of 10 in the clients), and twelve are four pings in a row.
- `CHECK_DEADLOCK FALSE` otherwise means that the process has crashed or exited,
  after which the model stops.

What the violations show:

1. `server_lost_wakeup`: the only observer that a round counts cancels before it
   is sent to, so the round has sent 0 of 1 and ends with `OC_STACK_NO_OBSERVERS`.
   Another observer that registers meanwhile, during the round or at any time before
   the thread clears the flag, finds the flag set and starts nothing. Then the flag
   is cleared and the thread ends. That observer is not notified until somebody
   else registers or cancels.
2. `server_never_stops`: "No More observers, stopping notifications" is not
   reached with an empty list, because a round of zero sends is `OC_STACK_OK`.
   They stop only after a round that had ids in its list and sent nothing:
   because their observers cancelled during the round, every send failed, or all
   that are listed are lost. So the notifications stop when the only client is
   lost, and go on for ever when every client has cancelled.
3. `led_message`: the branch that says that no context could be allocated is the
   one where connecting worked. So each client's first answer is lost.

The passing runs show weaker facts than one may wish, on purpose:

- Once an observer is lost while others are there, the next round sends to fewer
  than it counts, returns `OC_STACK_ERROR`, and ends the server; a departure that
  overlaps a round can do the same. `OnlyDisturbedRoundsFail` says what a round
  fails for, and that nothing else makes it fail. `ListMatchesStack` says what is
  left in the list.
- Two callbacks of the speaker that overlap may store `false` over `true` in the
  alert state. `AlertStateSettles` says that this is all: once the song is
  changed no further callback will store `true`, and while the state is `true` only
  callbacks that began before may store `false`, each once.
- Nothing promises that the emergency song is heard: the loudspeaker may have
  run out of descriptors. `HeatIsAnnounced` and `HeatReachesAll` say that the
  normal song ends for good and that the others are told.
- `LockLostToFiles` says when the speaker's lock is lost, which it is in the end.
- `ReadStaysAsRead` and `ChangesStayPrivate` are about devices and rooms that were
  read and whose pointers were not handed on: everything else may be shared by
  whoever passes pointers, builds twice or adds a copy to a map.

`MapReadsBack` excepts devices that were renamed inside the map, and
`AnswersMatch` excepts pings after one that was given up with an answer on its
way: id 200 is used again at once, and the late answer is counted.

## Fairness

`EveryObserverNotified`, `AlertShown`, `HeatIsAnnounced` and `HeatReachesAll`
assume weak fairness of: the steps of a handler that has begun, each notify
thread, each callback that has begun, the device's own thread (they are OS threads, and the loops sleep but
never block on one another except on the modelled lock); and, for the clients,
that the resource is found, the GET answered and notifications keep arriving,
which is what the server's once-a-second loop does. That is the server's side of
the composition: `EveryObserverNotified`, checked in `server_steady`, is what
justifies the fairness of `Notification` in the clients and in `EvacSystem`. It
holds while no observer cancels or is lost: the liveness of the clients is that of
a system in which every device stays connected, and ends with the first that does
not, since the server may then end. Requests, departures, faults, the temperature
and alerts of other devices are never fair. Weak fairness is
enough for the lock: in the runs with liveness it is held for a step that is
always enabled, and notifications are spread over the callbacks without a
fairness assumption for each. `PingEnds` assumes that the pinging thread runs,
including that `poll` returns at the timeout; that packets arrive is not assumed.
The violated liveness property of
`server_never_stops` is checked under the same fairness.

## Proofs

The theorems hold for every value of the constants that the named assumptions
allow (`ConstantsAssumption`, `ClientAssumption`, `SpeakerAssumption`,
`DeviceModelAssumption`, `PingAssumption`): any number of observers, devices,
notify threads, callbacks, objects and requests, any `UINT8_MAX`, any limit of
open files and any range of ids. Unless stated otherwise they hold for any subset of the
faults. Each module proves an inductive invariant `Inv` (`InvHolds`), from which
the properties of the runs follow:

| property | theorem |
|---|---|
| `TypeOK`, `ListMatchesStack`, `StartedMeansRunning`, `OneNotifierUntilStopped`, `OnlyDisturbedRoundsFail`, `EntriesNeedMembership` | `TypesHold`, `ListsAgree`, `StartedThreadsRun`, `OneNotifier`, `OnlyDisturbedFail`, `EntriesHaveMembership` in `GenericResourceProofs` |
| `AliveClearsOnlyThroughKeyZero` (an action property) | `OnlyKeyZeroClears` there |
| `StopsOnlyWithoutObservers`, if only redis fails: nobody cancels or is lost, no send fails | `JoinsNeverStopNotifications` there |
| `ImplementsRounds` (a refinement) | `RoundsImplemented` in `RoundsProofs` |
| `TypeOK`, `LockHeldByOne`, `NoFalseAlarm` of the light | `TypesHold`, `OneInsideGet`, `AlarmsHaveACause` in `SmartLEDProofs` |
| `LapsesRunOut` of the light (an action property) | `LapsesAreBounded` there |
| `GetFindsConnection` of the light, if redis does not fail and contexts can be allocated | `ConnectionFound` there |
| `TypeOK`, `NormalNotResumed`, `NoFalseAlarm` of the speaker | `TypesHold`, `NormalSongEnds`, `AlarmsHaveACause` in `BluetoothSpeakerProofs` |
| `AlertStateSettles` (an action property) | `StateSettles` there |
| `LocalAlarmIsPublished`, if redis does not fail and contexts can be allocated | `AlarmsArePublished` there |
| `LockLostToFiles`, if the sensor does not fail either | `OnlyFilesLoseTheLock` there |
| `ImplementsAlarm` (the refinement), `AlarmsGoBackToDanger` | `AlarmImplemented`, `AlarmsHaveDanger` in `EvacSystemProofs` |
| `TypeOK`, `JsonReadsBack`, `ReadStaysAsRead`, `MapReadsBack` | `TypesHold`, `JsonIsRead`, `ReadStays`, `MapsAreRead` in `DeviceModelProofs` |
| `ChangesStayPrivate` (an action property) | `ChangesArePrivate` there |
| `TypeOK`, `LossIsUnanswered`, `AnswersMatch`, `SuccessMeasuresAll` | `TypesHold`, `LossCounted`, `AnswersMatched`, `AllMeasured` in `BluetoothPingProofs` |

### The server

None of the server's properties is inductive by itself. `Inv` adds:

- `JobInv`, what each step of a handler knows of its own job (a POST has id 0 and
  a device of the set once its entry is written);
- `ListInv`, the list at *every* step of a handler. `ListMatchesStack` speaks of
  the moments between requests, and in between the list is one observer behind
  (`register`) or ahead (`leave`) of the stack. It also says that an id which is
  listed twice is that of a lost observer, in `silent`: a registration may put it
  in a second time, and only a cancellation takes it out, all of it;
- `RoundInv`, that a round nothing disturbed has sent to all slots it passed and
  finds an observer of the stack in each slot of its round, through the current
  buffer or the freed one. For this a round that begins with a lost observer in
  the list must count as disturbed. `OnlyDisturbedRoundsFail` follows at
  `NotifyEnd`;
- `FlagInv`, that until the first stop whoever runs was admitted by the flag;
- `TableInv`, that only key 0 of `resource_table` is ever used.

One lemma per conjunct (`TypeStep`, `JobStep`, `ListStep`, `RoundStep`,
`FlagStep`, `DisturbedStep`, `TableStep`) shows that a step preserves it, by
cases on the action; `StepCases` is the common split, `PushBackList`,
`EraseList`, `RoundFrame`, `RoundDisturbed` and `RoundOther` are what the cases
share. `EraseList` is what `erase(remove(..))` leaves of a list in which an id may
stand more than once.

`RoundsImplemented` takes `Inv` and maps each action. A registration that moves
the vector must not change what any open round owes: the old buffer is read from
then on, and it held the same ids (`RoundInv` bounds the slots by the old size).
A notification pays the debt to one observer (`SendPaysOne`); an id that stands
in a slot ahead as well is owed one more, and the step is a stutter of `Rounds`. A
round that is still open at its end must have nothing left to send, and return
`OC_STACK_OK`. A departure excuses every open round, whether the observer cancels
(`Leave`, then `Left`) or is lost (`Vanish`). Lost are the listed ids that the stack
does not have (`WhoIsLost`), so a new observer with such an id takes it out of `lost`
(`Join`), and the rounds that begin then may be owed again.

`JoinsNeverStopNotifications` is the positive side of `server_lost_wakeup`: what
stops the notifications of a registered observer is a departure or a failed
send, never a mere registration. Its `SteadyInv` adds that nobody is lost and no
round is disturbed, hence none fails, hence nobody is about to clear the flag.

### The clients

`ClientProofs` shows that joining, connecting and the environment keep the types
and `JoinInv` (one resource, observed once). On top of that:

- the light needs `AnswerInv`: a callback with the answer `"1"` has it because
  the alert is raised. So a callback overtaken by others still stores a colour,
  and posts an alert, that has a cause;
- the speaker needs `CauseInv`: heat, a reading above the limit, an answer `"1"`
  and every step from the decision to SET alert imply `danger`, and the step that
  latches implies the alert. `NormalNotResumed` is inductive with the types: the
  song is changed before stop() is called, so whatever is opened afterwards is
  not the normal song, and what was opened before ends by the flag;
- the light's `LapsesRunOut` is a matter of single steps: after the alert only
  `SetLed` of a callback that carries an old answer changes the colour back, and
  it drops that answer; `GetAlert` then answers `"1"`, throws or crashes;
- while redis works and contexts can be allocated (other faults may come),
  `SteadyInv` adds `Connected`: once `m_context` is set it is a good connection,
  and nobody gets to the step that frees it, although callbacks race to connect
  and replace each other's connection. `ConnectedStep` proves it for the steps
  that the clients share. Then no callback of the speaker throws on its way to
  SET alert, and while the sensor can be read none leaves the lock behind except
  for want of files;
- the speaker's `AlertStateSettles` is again a matter of single steps
  (`SettlesStep`): a callback decides to raise the alert only while the song is
  not changed yet, and asks for the alert only while the state is not set; and
  whoever stores the state leaves `Setters` or `Late` with that step.

### The composition

A step of the system is a step of one device, or redis failing for both. For the
speaker's variables it is thus a step of `BluetoothSpeaker`, or one that leaves
them alone (`SpeakerInSystem`): all invariants of `BluetoothSpeaker` hold in the
composition. In the other direction `LightInSystem` shows that for
the light the speaker is another device that raises the alert (`Raised` in
`Environment` of `SmartLED`); this takes `ConnectionInv`, that a connection which works has a
redis at its other end. `LightInv` is what the light has been told: an answer
`"1"` was read from an alert that stays raised. `AlarmImplemented` then maps each
action: only SET alert changes `raised`, and whoever gets there has a danger
(`CauseInv`); only `AssignSong` changes the song, which happens in danger; only
the store of the colour changes the light, which shows what it was told, and
ends what the callback had heard; only the answer to a GET before the alert adds
to that (`LightMoves`).
`AlarmsHaveDanger` is proved of `Alarm` alone and carried over by the refinement.

### The ping

`Inv` adds `CountersInv` (how `sent_pkt`, `recv_pkt` and the requests that timed
out add up at each step, and how many requests of this ping are measured) and
`AirInv` (until a ping is given up, the only answer on its way is the one that is
waited for), from which the properties follow at `Finish` and `Receive`.

### The device model

`Inv` has a part for devices (`DeviceInv`) and one for rooms (`RoomInv`), each kept
by its own steps; they only share the history of what was read. Its heart is
`ReadDevicesAlone` and `ReadRoomsAlone`: what was read shares its parts with no
other object and with no builder. Nobody else may be shown to be alone, because
callers may pass any pointer; a call that passes the parts of what was read takes
it out of `read`. That a cell taken for a new object is fresh for everybody needs
the types, since whoever points to a cell keeps it in the domain. From being alone
follows `ReadStaysAsRead`, since a call that writes to a cell reaches only those
who hold it, and `ChangesStayPrivate`, call by call.
`StoredUnderUuid`, that a key which is not renamed is the uuid of its device, and
`JsonBack`, that parse undoes toJson, give `MapReadsBack`.

### Only model-checked

- `EveryObserverNotified`, `AlertShown`, `HeatIsAnnounced`, `HeatReachesAll` and
  `PingEnds`: liveness is outside the prover's reach.

## Abstractions

- The notify round sees the stack's own list atomically. In the code it searches
  that list without `m_csdkLock`; the memory errors this may cause are listed as
  a hazard and not modelled.
- `Observe` sets the flag and does not look at the result of `pthread_create`
  (`GenericResource.cpp:153-155`). In the model a thread is created. If none is,
  the flag is set with nobody behind it, and `StartedMeansRunning` is lost.
- Payloads: the text of a notification, the JSON of a POST except `al`, headers.
- A redis connection of the server that failed stays failed (hiredis keeps
  `err`); the clients' contexts do the same, but a client may connect at first
  use after redis has come back.
- The expiry of observers in the stack (TTL), its block-wise transfer and its
  security are third-party and not modelled, nor is `main` of the programs.
- `NoFalseAlarm` for the light is about colours it has chosen: its first colour
  is an uninitialized value, which the model leaves open (`led \in Values`).
- An alert, once raised, is never lowered by any program.
- In `BluetoothSpeaker` and `SmartLED` alone, other devices raise the alert;
  `EvacSystem` has one speaker and nobody else. The server is there as its
  answers and notifications.
- The song, the colour and the alert are compared after the process has ended
  too: a device that has crashed keeps its last state.
- The descriptors of sockets and pipes that a client holds from the start are
  counted off `MaxFiles`; those of contexts that callbacks connect and lose are not
  counted.
- In `DeviceModel` one set stands for the three sets of a room, and members that
  are copied as they are have been left out. `RoomMap` adds nothing to `MyMap`.
  nullptr is not passed for a set. A change through a pointer that a caller kept
  is one through whoever holds the object. A call that throws (level 0, a device
  without a class) changes nothing and is left out; that level 0 throws an `int`,
  which no `catch (std::exception&)` sees, is a hazard no property covers.
- `BluetoothPing` has no packets of other programs on the host, and takes the
  increments of the counters in the order of the source.

## Not modelled

- The rest of `iotivity/` and the vendored libraries (`json.hpp`, four copies of
  22576 lines): third-party code, more than 99 % of the lines of the repository.
  Of the stack, the part the server's behaviour depends on is modelled (observer
  list, rounds of notifications, feedback of the transport). Transports, security,
  provisioning and other platforms' adapters have nothing to do with this system,
  and modelling them would say nothing about it; so the mapped lines are a small
  share of the repository and most of the system's own.
- `main` of the server and the clients: registers the resource, or starts
  discovery, and waits. `GenericControl` of the server holds a string.
- `Util.cpp` of the clients (prints), `modules/redis`, `modules/compress`,
  `modules/crypto`, `modules/LED`, `modules/Temperature`, `modules/audio`: separate
  programs, or copies of the code above.
- `getEntries`, `MyMap::get`, `MyMap::toJson` (no return statement) and
  `getLatency`: no caller.

## Plan

Done: `GenericResource` with the abstract `Rounds`, `Client`, `SmartLED`,
`BluetoothSpeaker`, their composition with the abstract `Alarm`, `DeviceModel`,
`BluetoothPing`, and the proofs of their safety properties and of both
refinements.

Next:

1. The speaker's announcement when several callbacks measure heat at once: which
   of them publishes, as an action property.
2. `RedisDb`: `getEntries` in two commands against a concurrent `setEntries`,
   once something calls it.
