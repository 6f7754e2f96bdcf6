-------------------------- MODULE GenericResource --------------------------
(***************************************************************************)
(* The evacuation server: the resource /SpeechTTSResURI of                 *)
(* os_examples/server/GenericResource.cpp, run by two kinds of thread that *)
(* share its fields without a lock.                                        *)
(*                                                                         *)
(*   - The stack's thread (InProcServerWrapper::processFunc) delivers one  *)
(*     request at a time to EntityHandlerCB.  job is the call in progress: *)
(*     the handler is cut where another thread's step can matter.          *)
(*   - The notify threads (ChangeGenericRepresentation) sleep, look at     *)
(*     m_isStartedThread and notify m_interestedObservers.                 *)
(*                                                                         *)
(* The list of observers exists twice: in the stack (observers, from       *)
(* ocobserve.c) and in the resource (interested).  interested is a         *)
(* std::vector<uint8_t>: slots 1..size of its buffer are its elements, the *)
(* slots above keep what erase left there, and a push_back beyond capacity *)
(* moves it to a new buffer while a notify thread may hold the old one.    *)
(*                                                                         *)
(* Only a client that cancels is taken out of both lists.  An observer that *)
(* is lost (it resets a notification, or does not acknowledge three) is    *)
(* taken out of the stack's list alone: the request that OCStackFeedBack   *)
(* makes for the handler has no resource handle, EntityHandlerWrapper does *)
(* not find a resource for it, and Observe never runs.                     *)
(*                                                                         *)
(* What the payload of a notification says is not modelled: a client reads *)
(* it and prints it.  Every device posts al = 1, as both clients do.       *)
(***************************************************************************)
EXTENDS Integers, FiniteSets

CONSTANTS
  UINT8_MAX,     \* largest observation id (255 in the code)
  MAX_OBSERVER_FAILED_COMM,  \* failures in a row that are forgiven (2)
  UsedIds,       \* bound of the model: observation ids that the stack picks
  MaxListed,     \* bound of the model: elements of m_interestedObservers
  Devices,       \* uuids of the client devices
  NoDevice,      \* no uuid
  Threads,       \* bound of the model: notify threads alive at once
  Faults         \* which of AllFaults the environment may inject

(***************************************************************************)
(* cancel  a client deregisters its observation                            *)
(* comm    an observer stops answering, or resets a notification, and is   *)
(*         lost                                                            *)
(* send    the stack fails to send a notification                          *)
(* redis   the connection to redis breaks                                  *)
(* reuse   a freed vector buffer is overwritten by another allocation      *)
(***************************************************************************)
AllFaults == {"cancel", "comm", "send", "redis", "reuse"}

ASSUME ConstantsAssumption ==
  /\ UINT8_MAX \in Nat
  /\ MAX_OBSERVER_FAILED_COMM \in Nat
  /\ UsedIds \subseteq 0 .. UINT8_MAX
  /\ MaxListed \in Nat
  /\ NoDevice \notin Devices
  /\ Faults \subseteq AllFaults

ObsIds == 0 .. UINT8_MAX
Slots  == 1 .. MaxListed

VARIABLES
  server,             \* "up", or why the process ended
  observers,          \* g_serverObsList of the stack
  failedCommCount,    \* of each observer of the stack, 0 for the other ids
  joined,             \* devices that have registered an observation
  job,                \* the call in progress on the stack's thread
  interested,         \* buffer of m_interestedObservers
  size,
  capacity,
  silent,             \* history: lost observers that no cancellation erased
  m_isStartedThread,
  stopped,            \* history: the flag was cleared at least once
  pc,                 \* what each notify thread does
  next,               \* slot it sends to next
  count,              \* numberOfIds of its round
  sent,               \* numSentNotification of its round
  failed,             \* observeErrorFlag of its round
  stale,              \* its buffer has been freed
  view,               \* what the freed buffer held
  disturbed,          \* history: see Disturb, until its round is dealt with
  resource_table,     \* [ObsIds -> uuid], NoDevice where there is no entry
  redisUp,
  devices,            \* the redis set "devices"
  alive               \* field al of each device's redis hash

stackVars  == <<observers, failedCommCount, joined>>
bufferOfList == <<interested, size, capacity>>
listVars   == <<interested, size, capacity, silent>>
flagVars   == <<m_isStartedThread, stopped>>
roundVars  == <<next, count, sent, failed>>
bufferVars == <<stale, view>>
redisVars  == <<resource_table, redisUp, devices, alive>>
threadVars == <<pc, roundVars, bufferVars, disturbed>>
vars == <<server, stackVars, job, listVars, flagVars, threadVars, redisVars>>

-----------------------------------------------------------------------------

Steps == {"idle", "register", "leave", "start", "post", "entries"}

Job(step, id, device) == [step |-> step, id |-> id, device |-> device]

Idle == Job("idle", 0, NoDevice)

Alive(t)   == pc[t] \notin {"none", "thrown"}
InRound(t) == pc[t] = "round"

Listed == {interested[i] : i \in 1 .. size}

(* The observation that is being cancelled is still in m_interestedObservers. *)
Leaving == job.step = "leave"

(* Every id in m_interestedObservers is that of an observer of the stack. *)
AllObserved == Listed \subseteq observers

EmptyBuffer == [i \in Slots |-> 0]

Init ==
  /\ server = "up"
  /\ observers = {}
  /\ failedCommCount = [o \in ObsIds |-> 0]
  /\ joined = {}
  /\ job = Idle
  /\ interested = EmptyBuffer
  /\ size = 0
  /\ capacity = 0
  /\ silent = {}
  /\ m_isStartedThread = FALSE
  /\ stopped = FALSE
  /\ pc = [t \in Threads |-> "none"]
  /\ next = [t \in Threads |-> 1]
  /\ count = [t \in Threads |-> 0]
  /\ sent = [t \in Threads |-> 0]
  /\ failed = [t \in Threads |-> FALSE]
  /\ stale = [t \in Threads |-> FALSE]
  /\ view = [t \in Threads |-> EmptyBuffer]
  /\ disturbed = [t \in Threads |-> FALSE]
  /\ resource_table = [o \in ObsIds |-> NoDevice]
  /\ redisUp = TRUE
  /\ devices = {}
  /\ alive = [d \in Devices |-> "none"]

(* A departure overlaps the rounds that are under way. *)
Disturb == disturbed' = [t \in Threads |-> disturbed[t] \/ InRound(t)]

-----------------------------------------------------------------------------
(* Requests and feedback the stack's thread takes up when it is idle.        *)

(* An observe GET.  The stack picks an id that none of its observers has, and
   lists the observer, then calls the handler, which answers the GET and then
   runs Observe.  The id may be that of a lost observer. *)
Register(o, d) ==
  /\ job = Idle
  /\ o \in UsedIds \ observers
  /\ size < MaxListed
  /\ observers' = observers \cup {o}
  /\ joined' = joined \cup {d}
  /\ job' = Job("register", o, NoDevice)
  /\ UNCHANGED <<server, failedCommCount, listVars, flagVars, threadVars, redisVars>>

Delete(o) ==
  /\ observers' = observers \ {o}
  /\ failedCommCount' = [failedCommCount EXCEPT ![o] = 0]

(* A GET that cancels an observation: the stack deletes the observer before
   it calls the handler.  For an observer that it no longer has the stack
   answers with an error and does not call the handler. *)
Deregister(o) ==
  /\ "cancel" \in Faults
  /\ job = Idle
  /\ o \in observers
  /\ Delete(o)
  /\ job' = Job("leave", o, NoDevice)
  /\ Disturb
  /\ UNCHANGED <<server, joined, listVars, flagVars, pc,
                 roundVars, bufferVars, redisVars>>

(* The stack deletes an observer, and the resource does not hear of it. *)
Lose(o) == Delete(o) /\ silent' = silent \cup {o}

(* OC_OBSERVER_NOT_INTERESTED *)
NotInterested(o) ==
  /\ "comm" \in Faults
  /\ job = Idle
  /\ o \in observers
  /\ Lose(o)
  /\ Disturb
  /\ UNCHANGED <<server, joined, job, bufferOfList, flagVars, pc, roundVars,
                 bufferVars, redisVars>>

(* OC_OBSERVER_FAILED_COMM: the third failure in a row ends the observation. *)
FailedComm(o) ==
  /\ "comm" \in Faults
  /\ job = Idle
  /\ o \in observers
  /\ \/ /\ failedCommCount[o] >= MAX_OBSERVER_FAILED_COMM
        /\ Lose(o)
        /\ Disturb
     \/ /\ failedCommCount[o] < MAX_OBSERVER_FAILED_COMM
        /\ failedCommCount' = [failedCommCount EXCEPT ![o] = @ + 1]
        /\ UNCHANGED <<observers, silent, disturbed>>
  /\ UNCHANGED <<server, joined, job, bufferOfList, flagVars, pc, roundVars,
                 bufferVars, redisVars>>

StillInterested(o) ==
  /\ job = Idle
  /\ o \in observers
  /\ failedCommCount[o] > 0
  /\ failedCommCount' = [failedCommCount EXCEPT ![o] = 0]
  /\ UNCHANGED <<server, observers, joined, job, listVars, flagVars,
                 threadVars, redisVars>>

(* Mutant: the request knows the observation of the device that posts. *)
PostRequestOwnId(d) ==
  /\ job = Idle
  /\ d \in joined
  /\ \E o \in observers : job' = Job("post", o, d)
  /\ UNCHANGED <<server, stackVars, listVars, flagVars, threadVars, redisVars>>

(* A POST.  A client posts from its observe callback, so it has registered.
   The request's ObservationInfo is set for observe requests only: for a POST
   its obsId is the default, 0. *)
PostRequest(d) ==
  /\ job = Idle
  /\ d \in joined
  /\ job' = Job("post", 0, d)
  /\ UNCHANGED <<server, stackVars, listVars, flagVars, threadVars, redisVars>>

-----------------------------------------------------------------------------
(* The handler.                                                              *)

(* Mutant: the buffer is replaced by one of the same capacity. *)
ReallocateSameCapacity ==
  /\ UNCHANGED <<capacity, view>>
  /\ stale' = [t \in Threads |-> stale[t] \/ InRound(t)]

(* push_back grows the buffer by doubling it: the notify threads that are
   sending keep a pointer to the old one. *)
Reallocate ==
  /\ capacity' = IF capacity = 0 THEN 1 ELSE 2 * capacity
  /\ stale' = [t \in Threads |-> stale[t] \/ InRound(t)]
  /\ view' = [t \in Threads |->
                IF InRound(t) /\ ~stale[t] THEN interested ELSE view[t]]

ObserveRegister ==
  /\ job.step = "register"
  /\ interested' = [interested EXCEPT ![size + 1] = job.id]
  /\ size' = size + 1
  /\ IF size = capacity THEN Reallocate ELSE UNCHANGED <<capacity, bufferVars>>
  /\ job' = [job EXCEPT !.step = "start"]
  /\ UNCHANGED <<server, stackVars, silent, flagVars, pc, roundVars, disturbed,
                 redisVars>>

(* Mutant: only the first of several equal elements is erased. *)
EraseFirst(id) ==
  IF id \notin Listed
  THEN UNCHANGED <<interested, size>>
  ELSE LET k == CHOOSE i \in 1 .. size :
                  interested[i] = id /\ \A j \in 1 .. i - 1 : interested[j] # id
       IN  /\ interested' = [i \in Slots |->
                               IF i \in k .. size - 1 THEN interested[i + 1]
                                                      ELSE interested[i]]
           /\ size' = size - 1

(* erase(remove(..)): all elements equal to id go, the others move down in
   their order, and the slots after the new end keep their values. *)
Erase(id) ==
  LET kept == {i \in 1 .. size : interested[i] # id}
      n    == Cardinality(kept)
  IN  \E move \in [1 .. n -> kept] :
        /\ \A i, j \in 1 .. n : i < j => move[i] < move[j]
        /\ kept = {move[i] : i \in 1 .. n}
        /\ interested' = [i \in Slots |-> IF i \in 1 .. n THEN interested[move[i]]
                                                        ELSE interested[i]]
        /\ size' = n

(* HMSET of al = 0 under resource_table[id].  Without an entry the key is the
   empty string and the command lacks an argument: redis answers with an error,
   which setEntries does not look at. *)
ClearAlive(id) ==
  alive' = [d \in Devices |-> IF resource_table[id] = d THEN "0" ELSE alive[d]]

ObserveUnregister ==
  /\ job.step = "leave"
  /\ redisUp
  /\ ClearAlive(job.id)
  /\ resource_table' = [resource_table EXCEPT ![job.id] = NoDevice]
  /\ Erase(job.id)
  /\ silent' = silent \ {job.id}
  /\ job' = [job EXCEPT !.step = "start"]
  /\ UNCHANGED <<server, stackVars, capacity, flagVars, threadVars, redisUp,
                 devices>>

(* Mutant: Observe starts a thread without looking at the flag. *)
StartThreadAlways ==
  /\ job.step = "start"
  /\ \E t \in Threads : /\ pc[t] = "none"
                        /\ pc' = [pc EXCEPT ![t] = "sleep"]
  /\ m_isStartedThread' = TRUE
  /\ job' = Idle
  /\ UNCHANGED <<server, stackVars, listVars, stopped, roundVars, bufferVars,
                 disturbed, redisVars>>

(* The end of Observe, for both actions: start a notify thread unless the flag
   says that there is one.  Then the handler returns.  The result of
   pthread_create is not looked at; here a thread is created. *)
StartThread ==
  /\ job.step = "start"
  /\ \/ /\ m_isStartedThread
        /\ UNCHANGED <<pc, m_isStartedThread>>
     \/ /\ ~m_isStartedThread
        /\ \E t \in Threads : /\ pc[t] = "none"
                              /\ pc' = [pc EXCEPT ![t] = "sleep"]
        /\ m_isStartedThread' = TRUE
  /\ job' = Idle
  /\ UNCHANGED <<server, stackVars, listVars, stopped, roundVars, bufferVars,
                 disturbed, redisVars>>

(* Mutant: the hash is written before the device joins the set. *)
AddResourceTableLast ==
  /\ job.step = "post"
  /\ redisUp
  /\ IF alive[job.device] = "none"
     THEN /\ alive' = [alive EXCEPT ![job.device] = "1"]
          /\ UNCHANGED <<devices, resource_table, job>>
     ELSE /\ devices' = devices \cup {job.device}
          /\ resource_table' = [resource_table EXCEPT ![job.id] = job.device]
          /\ job' = [job EXCEPT !.step = "entries"]
          /\ UNCHANGED alive
  /\ UNCHANGED <<server, stackVars, listVars, flagVars, threadVars, redisUp>>

(* map::insert keeps an entry that is there. *)
AddResourceTable ==
  /\ job.step = "post"
  /\ redisUp
  /\ devices' = devices \cup {job.device}
  /\ resource_table' =
       [resource_table EXCEPT ![job.id] = IF @ = NoDevice THEN job.device ELSE @]
  /\ job' = [job EXCEPT !.step = "entries"]
  /\ UNCHANGED <<server, stackVars, listVars, flagVars, threadVars, redisUp,
                 alive>>

(* Post catches what setEntries throws. *)
Post ==
  /\ job.step = "entries"
  /\ alive' = IF redisUp THEN [alive EXCEPT ![job.device] = "1"] ELSE alive
  /\ job' = Idle
  /\ UNCHANGED <<server, stackVars, listVars, flagVars, threadVars,
                 resource_table, redisUp, devices>>

(* addResourceTable and Observe do not catch it: nothing up to processFunc
   does, and the process ends. *)
RedisException ==
  /\ job.step \in {"leave", "post"}
  /\ ~redisUp
  /\ server' = "redis exception"
  /\ UNCHANGED <<stackVars, job, listVars, flagVars, threadVars, redisVars>>

(* A hiredis context that has failed once keeps answering NULL. *)
RedisFails ==
  /\ "redis" \in Faults
  /\ redisUp
  /\ redisUp' = FALSE
  /\ UNCHANGED <<server, stackVars, job, listVars, flagVars, threadVars,
                 resource_table, devices, alive>>

-----------------------------------------------------------------------------
(* A notify thread.                                                          *)

(* Mutant: a thread that finds nobody to notify ends, and leaves the flag. *)
WakeToNobody(t) ==
  /\ pc[t] = "sleep"
  /\ pc' = [pc EXCEPT ![t] =
              IF m_isStartedThread /\ size > 0 THEN "notify" ELSE "none"]
  /\ UNCHANGED <<server, stackVars, job, listVars, flagVars, roundVars,
                 bufferVars, disturbed, redisVars>>

(* sleep(1), then the test of the flag. *)
Wake(t) ==
  /\ pc[t] = "sleep"
  /\ pc' = [pc EXCEPT ![t] = IF m_isStartedThread THEN "notify" ELSE "none"]
  /\ UNCHANGED <<server, stackVars, job, listVars, flagVars, roundVars,
                 bufferVars, disturbed, redisVars>>

(* Mutant: the size passed on is one short. *)
NotifyBeginShort(t) ==
  /\ pc[t] = "notify"
  /\ pc' = [pc EXCEPT ![t] = "round"]
  /\ count' = [count EXCEPT ![t] = IF size = 0 THEN 0 ELSE size - 1]
  /\ disturbed' = [disturbed EXCEPT ![t] = ~AllObserved]
  /\ UNCHANGED <<server, next, sent, failed>>
  /\ UNCHANGED <<stackVars, job, listVars, flagVars, bufferVars, redisVars>>

(* notifyListOfObservers takes the address of the first element and the size.
   More than UINT8_MAX elements are refused with an exception. *)
NotifyBegin(t) ==
  /\ pc[t] = "notify"
  /\ \/ /\ size > UINT8_MAX
        /\ server' = "too many observers"
        /\ UNCHANGED <<pc, roundVars, disturbed>>
     \/ /\ size <= UINT8_MAX
        /\ pc' = [pc EXCEPT ![t] = "round"]
        /\ next' = [next EXCEPT ![t] = 1]
        /\ count' = [count EXCEPT ![t] = size]
        /\ sent' = [sent EXCEPT ![t] = 0]
        /\ failed' = [failed EXCEPT ![t] = FALSE]
        /\ disturbed' = [disturbed EXCEPT ![t] = ~AllObserved]
        /\ UNCHANGED server
  /\ UNCHANGED <<stackVars, job, listVars, flagVars, bufferVars, redisVars>>

(* Mutant: the pointer is moved on before it is read. *)
ReadableAhead(t) == {interested[next[t] + 1]}

(* What *obsIdList can be: the buffer as it is now; what it held when it was
   freed; or, if that memory has been reused, anything. *)
Readable(t) ==
  IF ~stale[t] THEN {interested[next[t]]}
  ELSE IF "reuse" \in Faults THEN ObsIds ELSE {view[t][next[t]]}

NotifyOne(t) ==
  /\ InRound(t)
  /\ next[t] <= count[t]
  /\ next' = [next EXCEPT ![t] = @ + 1]
  /\ \E o \in Readable(t) :
       \/ /\ o \notin observers
          /\ UNCHANGED <<sent, failed>>
       \/ /\ o \in observers
          /\ sent' = [sent EXCEPT ![t] = @ + 1]
          /\ UNCHANGED failed
       \/ /\ o \in observers
          /\ "send" \in Faults
          /\ failed' = [failed EXCEPT ![t] = TRUE]
          /\ UNCHANGED sent
  /\ disturbed' = [disturbed EXCEPT ![t] =
                     \/ @
                     \/ failed'[t]
                     \/ stale[t] /\ "reuse" \in Faults]
  /\ UNCHANGED <<server, stackVars, job, listVars, flagVars, pc, count,
                 bufferVars, redisVars>>

(* Mutant: an empty round reports that there are no observers. *)
RoundOKUnlessEmpty(t) == sent[t] = count[t] /\ count[t] > 0 /\ ~failed[t]

(* OC_STACK_OK also for an empty list; OC_STACK_NO_OBSERVERS if nothing was
   sent; otherwise OC_STACK_ERROR, which result_guard throws: nothing in the
   notify thread catches it, and the process ends. *)
RoundOK(t) == sent[t] = count[t] /\ ~failed[t]

NotifyEnd(t) ==
  /\ InRound(t)
  /\ next[t] > count[t]
  /\ \/ /\ RoundOK(t)
        /\ pc' = [pc EXCEPT ![t] = "sleep"]
        /\ UNCHANGED server
     \/ /\ ~RoundOK(t)
        /\ sent[t] = 0
        /\ pc' = [pc EXCEPT ![t] = "stop"]
        /\ UNCHANGED server
     \/ /\ ~RoundOK(t)
        /\ sent[t] > 0
        /\ pc' = [pc EXCEPT ![t] = "thrown"]
        /\ server' = "notify exception"
  /\ next' = [next EXCEPT ![t] = 1]
  /\ count' = [count EXCEPT ![t] = 0]
  /\ sent' = [sent EXCEPT ![t] = 0]
  /\ failed' = [failed EXCEPT ![t] = FALSE]
  /\ stale' = [stale EXCEPT ![t] = FALSE]
  /\ view' = [view EXCEPT ![t] = EmptyBuffer]
  /\ disturbed' = [disturbed EXCEPT ![t] = @ /\ ~RoundOK(t)]
  /\ UNCHANGED <<stackVars, job, listVars, flagVars, redisVars>>

(* "No More observers, stopping notifications". *)
StopNotify(t) ==
  /\ pc[t] = "stop"
  /\ m_isStartedThread' = FALSE
  /\ stopped' = TRUE
  /\ pc' = [pc EXCEPT ![t] = "sleep"]
  /\ disturbed' = [disturbed EXCEPT ![t] = FALSE]
  /\ UNCHANGED <<server, stackVars, job, listVars, roundVars, bufferVars,
                 redisVars>>

-----------------------------------------------------------------------------

Request ==
  \/ \E o \in ObsIds, d \in Devices : Register(o, d)
  \/ \E o \in ObsIds : \/ Deregister(o)
                       \/ NotInterested(o)
                       \/ FailedComm(o)
                       \/ StillInterested(o)
  \/ \E d \in Devices : PostRequest(d)

Handler ==
  \/ ObserveRegister
  \/ ObserveUnregister
  \/ StartThread
  \/ AddResourceTable
  \/ Post
  \/ RedisException

Notifier(t) ==
  \/ Wake(t)
  \/ NotifyBegin(t)
  \/ NotifyOne(t)
  \/ NotifyEnd(t)
  \/ StopNotify(t)

Next ==
  /\ server = "up"
  /\ \/ Request
     \/ Handler
     \/ RedisFails
     \/ \E t \in Threads : Notifier(t)

Spec == Init /\ [][Next]_vars

(* Both kinds of thread keep running; requests, and the choice of the fault
   that breaks a connection, are the environment's. *)
Fairness ==
  /\ WF_vars(server = "up" /\ Handler)
  /\ \A t \in Threads : WF_vars(server = "up" /\ Notifier(t))

FairSpec == Spec /\ Fairness

-----------------------------------------------------------------------------
(* Properties.                                                               *)

Buffers == [Slots -> ObsIds]

JobType == [step : Steps, id : ObsIds, device : Devices \cup {NoDevice}]

StackType ==
  /\ observers \subseteq ObsIds
  /\ failedCommCount \in [ObsIds -> 0 .. MAX_OBSERVER_FAILED_COMM]
  /\ joined \subseteq Devices

ListType ==
  /\ interested \in Buffers
  /\ size \in 0 .. MaxListed
  /\ capacity \in Nat
  /\ size <= capacity
  /\ silent \subseteq ObsIds

RoundType ==
  /\ pc \in [Threads -> {"none", "sleep", "notify", "round", "stop", "thrown"}]
  /\ next \in [Threads -> 1 .. UINT8_MAX + 2]
  /\ count \in [Threads -> (0 .. UINT8_MAX) \cap (0 .. MaxListed)]
  /\ sent \in [Threads -> Nat]
  /\ failed \in [Threads -> BOOLEAN]
  /\ view \in [Threads -> Buffers]
  /\ stale \in [Threads -> BOOLEAN]
  /\ disturbed \in [Threads -> BOOLEAN]

RedisType ==
  /\ resource_table \in [ObsIds -> Devices \cup {NoDevice}]
  /\ redisUp \in BOOLEAN
  /\ devices \subseteq Devices
  /\ alive \in [Devices -> {"none", "0", "1"}]

(* Every variable has its type; the list fits its buffer. *)
TypeOK ==
  /\ server \in {"up", "redis exception", "too many observers",
                 "notify exception"}
  /\ StackType
  /\ job \in JobType
  /\ ListType
  /\ m_isStartedThread \in BOOLEAN
  /\ stopped \in BOOLEAN
  /\ RoundType
  /\ RedisType

(* Whenever the stack's thread is between two requests, m_interestedObservers
   holds the observers of the stack and the ids of observers that it has lost,
   and nobody else; an id is there twice only if it was lost and used again. *)
ListMatchesStack ==
  job = Idle => /\ Listed = observers \cup silent
                /\ \A i, j \in 1 .. size : interested[i] = interested[j] =>
                                            i = j \/ interested[i] \in silent

(* As long as the flag says that a notify thread was started, one runs:
   Observe may rely on the flag. *)
StartedMeansRunning ==
  server = "up" /\ m_isStartedThread => \E t \in Threads : Alive(t)

(* The flag admits one notify thread at a time until the first time it is
   cleared: only a thread that cleared it can be overtaken by a new one. *)
OneNotifierUntilStopped ==
  ~stopped => \A t, u \in Threads : Alive(t) /\ Alive(u) => t = u

(* A round that begins when no lost observer is listed, that no departure
   overlaps, all of whose sends succeed and that does not read reused memory
   ends with OC_STACK_OK: it neither stops the notifications nor ends the
   process. *)
OnlyDisturbedRoundsFail ==
  \A t \in Threads : pc[t] \in {"stop", "thrown"} => disturbed[t]

(* A device has fields in its hash only if it is in the set "devices": SADD
   comes first, also when redis fails in between. *)
EntriesNeedMembership ==
  \A d \in Devices : alive[d] # "none" => d \in devices

(* al goes from 1 to 0 only when the observation that ends has id 0: the table
   is filled under the id of a POST, which is always 0, so the cancellation of
   any other observer marks no device, and a lost one never does. *)
AliveClearsOnlyThroughKeyZero ==
  [][\A d \in Devices : alive[d] = "1" /\ alive'[d] = "0" => job.id = 0]_vars

(* A notify thread has just sent to o. *)
Notified(o) ==
  \E t \in Threads :
    /\ InRound(t)
    /\ next[t] > 1
    /\ o = IF stale[t] THEN view[t][next[t] - 1] ELSE interested[next[t] - 1]

(* As long as the process lives, every observer of the stack is notified again
   and again. *)
EveryObserverNotified ==
  \A o \in ObsIds : [](o \in observers => <>(Notified(o) \/ server # "up"))

(* "No More observers, stopping notifications" (GenericResource.cpp:234):
   between two requests, notifications that were started are stopped only if
   the stack has no observer ... *)
StopsOnlyWithoutObservers ==
  job = Idle /\ server = "up" /\ observers # {} => m_isStartedThread

(* ... and they are stopped once there are no more observers. *)
StopsWhenNoObservers ==
  <>[](size = 0 /\ server = "up") => <>[]~m_isStartedThread

-----------------------------------------------------------------------------
(* What the server implements.                                               *)

(* The observer that t finds, or would find, in slot i. *)
Slot(t, i) == IF stale[t] THEN view[t][i] ELSE interested[i]

Departing == IF Leaving THEN {job.id} ELSE {}

Lost == Listed \ (observers \cup Departing)

PhaseOf(t) ==
  IF InRound(t) THEN IF disturbed[t] THEN "excused" ELSE "open"
                ELSE IF pc[t] \in {"stop", "thrown"} THEN "failed" ELSE "idle"

OwedBy(t) ==
  IF PhaseOf(t) = "open" THEN {Slot(t, i) : i \in next[t] .. count[t]} ELSE {}

NotifyRounds == INSTANCE Rounds WITH
  Observers <- ObsIds,
  Notifiers <- Threads,
  MayFail <- Faults \cap {"send", "reuse"} # {},
  interested <- Listed,
  leaving <- Departing,
  lost <- Lost,
  phase <- [t \in Threads |-> PhaseOf(t)],
  owed <- [t \in Threads |-> OwedBy(t)]

(* Whatever joins, leaves and fails during a round, and wherever the vector is
   moved to: a round that nothing excuses sends to each observer that was listed
   when it began, and then ends with OC_STACK_OK; a lost observer that is still
   listed excuses every round. *)
ImplementsRounds == NotifyRounds!Spec

-----------------------------------------------------------------------------
(* The inductive invariant behind these properties.                          *)

(* What the job in progress says about its own fields. *)
JobInv ==
  /\ job.step = "idle" => job = Idle
  /\ job.step \in {"post", "entries"} => job.device \in Devices /\ job.id = 0
  /\ job.step = "entries" => job.device \in devices

(* The list at every step of the handler. *)
ListInv ==
  /\ \A i, j \in 1 .. size :
       interested[i] = interested[j] => i = j \/ interested[i] \in silent
  /\ job.step = "register" =>
       /\ job.id \in observers
       /\ Listed = (observers \ {job.id}) \cup silent
       /\ size < MaxListed
  /\ job.step = "leave" =>
       /\ job.id \notin observers
       /\ Listed = observers \cup silent \cup {job.id}
  /\ job.step \notin {"register", "leave"} => Listed = observers \cup silent

(* The round of t has sent to every slot it has passed and finds an observer of
   the stack in each slot. *)
CleanRound(t) ==
  /\ sent[t] = next[t] - 1
  /\ ~failed[t]
  /\ ~stale[t] => count[t] <= size
  /\ ~Leaving
  /\ \A i \in 1 .. count[t] : Slot(t, i) \in observers

(* A round that nothing has disturbed is clean. *)
RoundInvOf(t) ==
  /\ stale[t] => InRound(t)
  /\ InRound(t) => next[t] <= count[t] + 1
  /\ InRound(t) /\ ~disturbed[t] => CleanRound(t)

RoundInv == \A t \in Threads : RoundInvOf(t)

(* Until the flag is cleared, whoever runs was admitted by it. *)
FlagInv == ~stopped => \A t \in Threads : Alive(t) => m_isStartedThread

(* Only key 0 of the table is ever used, and for a device that was added. *)
TableInv ==
  \A o \in ObsIds : resource_table[o] # NoDevice =>
    o = 0 /\ resource_table[o] \in devices

Inv ==
  /\ TypeOK
  /\ JobInv
  /\ ListInv
  /\ RoundInv
  /\ StartedMeansRunning
  /\ FlagInv
  /\ OneNotifierUntilStopped
  /\ OnlyDisturbedRoundsFail
  /\ TableInv
  /\ EntriesNeedMembership

(* As long as observers only join and the stack sends what it is given. *)
SteadyInv ==
  /\ Inv
  /\ job.step # "leave"
  /\ silent = {}
  /\ ~stopped
  /\ \A t \in Threads : ~disturbed[t]
  /\ size > 0 /\ job.step # "start" => m_isStartedThread

=============================================================================
