------------------------------- MODULE Client -------------------------------
(***************************************************************************)
(* What the two client programs have in common: os_examples/SmartLED and   *)
(* os_examples/BluetoothSpeaker find the server's resource, GET it, observe *)
(* it, and at each notification ask redis for the key "alert".             *)
(*                                                                         *)
(* The client stack runs each callback in a thread of its own               *)
(* (InProcClientWrapper), so notifications are handled concurrently and in *)
(* any order.  The callbacks share m_context without a lock.               *)
(*                                                                         *)
(* The modules that extend this one add what the device does.  The text of *)
(* a notification is not modelled: it is printed.                          *)
(***************************************************************************)
EXTENDS Integers

CONSTANTS
  Threads,        \* bound of the model: callbacks that run at once
  InitialAlerts,  \* what the key "alert" may hold at first
  Faults          \* which of AllFaults the environment may inject

(***************************************************************************)
(* redis    redis stops; a client may also be started before it            *)
(* memory   redisConnectWithTimeout returns NULL                           *)
(* address  the host of the resource has no IPv4 address                   *)
(* answer   the server answers a GET, or an observation, with an error     *)
(* sensor   the temperature sensor cannot be opened                        *)
(***************************************************************************)
AllFaults == {"redis", "memory", "address", "answer", "sensor"}

ASSUME ClientAssumption ==
  /\ InitialAlerts \subseteq {"absent", "0", "1"}
  /\ Faults \subseteq AllFaults

VARIABLES
  process,       \* "up", or why the process ended
  registered,    \* _registered_resources[RESOURCE_URI] is set
  getting,       \* GETs not answered yet
  observations,  \* observations asked for
  alert,         \* the key "alert" of redis
  redisUp,
  context,       \* m_context
  lock,          \* _led_lock or _temper_lock: "leaked" if its holder has gone
  pc             \* where each callback is

joinVars  == <<registered, getting, observations>>
redisVars == <<alert, redisUp>>
clientVars == <<process, joinVars, redisVars, context, lock, pc>>

(***************************************************************************)
(* NULL     no connection was tried                                        *)
(* ok       connected                                                      *)
(* lost     redis has stopped since, and no command has noticed            *)
(* refused  err is set                                                     *)
(* freed    dangling                                                       *)
(***************************************************************************)
Contexts == {"NULL", "ok", "lost", "refused", "freed"}

ClientInit ==
  /\ process = "up"
  /\ registered = FALSE
  /\ getting = 0
  /\ observations = 0
  /\ alert \in InitialAlerts
  /\ redisUp \in {TRUE} \cup IF "redis" \in Faults THEN {FALSE} ELSE {}
  /\ context = "NULL"
  /\ lock = "free"
  /\ pc = [t \in Threads |-> "none"]

Goto(t, step) == pc' = [pc EXCEPT ![t] = step]

-----------------------------------------------------------------------------
(* Joining: each response to the discovery runs foundResource.               *)

(* Mutant: foundResource does not ask whether a resource is registered. *)
FoundResourceAgain ==
  /\ observations < 2
  /\ registered' = TRUE
  /\ getting' = getting + 1
  /\ UNCHANGED <<process, observations, redisVars, context, lock, pc>>

(* The first response with the right URI and transport is registered and asked
   for its representation, under _resource_lock; any other is ignored. *)
FoundResource ==
  /\ ~registered
  /\ registered' = TRUE
  /\ getting' = getting + 1
  /\ UNCHANGED <<process, observations, redisVars, context, lock, pc>>

(* An error ends the attempt: the resource stays registered. *)
OnGet ==
  /\ getting > 0
  /\ getting' = getting - 1
  /\ \/ observations' = observations + 1
     \/ /\ "answer" \in Faults
        /\ UNCHANGED observations
  /\ UNCHANGED <<process, registered, redisVars, context, lock, pc>>

(* A notification; step is where the device begins to handle it. *)
OnObserve(t, step) ==
  /\ observations > 0
  /\ pc[t] = "none"
  /\ Goto(t, step)
  /\ UNCHANGED <<process, joinVars, redisVars, context, lock>>

OnObserveError ==
  /\ "answer" \in Faults
  /\ observations > 0
  /\ process' = "exited"
  /\ UNCHANGED <<joinVars, redisVars, context, lock, pc>>

-----------------------------------------------------------------------------
(* getAlertStatus, up to the lock.                                           *)

GetAlertStatus(t) ==
  /\ pc[t] = "status"
  /\ Goto(t, IF context = "NULL" THEN "connect" ELSE "lock")
  /\ UNCHANGED <<process, joinVars, redisVars, context, lock>>

(* The new context is assigned before anyone looks at its err. *)
Connect(t) ==
  /\ pc[t] = "connect"
  /\ \/ /\ context' = IF redisUp THEN "ok" ELSE "refused"
        /\ Goto(t, "check")
     \/ /\ "memory" \in Faults
        /\ context' = "NULL"
        /\ Goto(t, "check")
     \/ /\ "address" \in Faults
        /\ Goto(t, "false")
        /\ UNCHANGED context
  /\ UNCHANGED <<process, joinVars, redisVars, lock>>

(* Mutant: the context is freed whether or not connecting worked. *)
CheckContextFrees(t) ==
  /\ pc[t] = "check"
  /\ Goto(t, "free")
  /\ UNCHANGED <<process, joinVars, redisVars, context, lock>>

(* A connection that worked is reported as one that could not be allocated, and
   the answer is false.  The test of err reads freed memory if another callback
   has freed the context: the process crashes, or goes on with either answer. *)
CheckContext(t) ==
  /\ pc[t] = "check"
  /\ \/ /\ context \in {"NULL", "refused", "freed"}
        /\ Goto(t, "free")
        /\ UNCHANGED process
     \/ /\ context \in {"ok", "lost", "freed"}
        /\ Goto(t, "unallocated")
        /\ UNCHANGED process
     \/ /\ context = "freed"
        /\ process' = "crashed"
        /\ UNCHANGED pc
  /\ UNCHANGED <<joinVars, redisVars, context, lock>>

(* The inner test looks at m_context again, which another callback may have
   assigned by now.  An allocation that failed goes on to the lock; a context
   is freed but not reset to NULL. *)
FreeContext(t) ==
  /\ pc[t] = "free"
  /\ \/ /\ context = "NULL"
        /\ Goto(t, "lock")
        /\ UNCHANGED <<process, context>>
     \/ /\ context # "NULL"
        /\ context' = "freed"
        /\ Goto(t, "false")
        /\ UNCHANGED process
     \/ /\ context = "freed"
        /\ process' = "crashed"
        /\ UNCHANGED <<context, pc>>
  /\ UNCHANGED <<joinVars, redisVars, lock>>

(* Mutant: the lock is taken without waiting for it. *)
LockAtOnce(t, from, to) ==
  /\ pc[t] = from
  /\ lock' = "held"
  /\ Goto(t, to)
  /\ UNCHANGED <<process, joinVars, redisVars, context>>

Lock(t, from, to) ==
  /\ pc[t] = from
  /\ lock = "free"
  /\ lock' = "held"
  /\ Goto(t, to)
  /\ UNCHANGED <<process, joinVars, redisVars, context>>

(* What redisCommand can do: return a reply, return NULL, or crash. *)
Outcomes ==
  CASE context = "ok"                 -> {"reply"}
    [] context \in {"lost", "refused"} -> {"null"}
    [] context = "freed"              -> {"null", "crash"}
    [] context = "NULL"               -> {"crash"}

(* NULL comes with err set. *)
NullReply ==
  /\ "null" \in Outcomes
  /\ context' = IF context = "lost" THEN "refused" ELSE context

(* An exception ends the callback: onObserve catches it ... *)
Throw(t) ==
  /\ Goto(t, "none")
  /\ UNCHANGED <<process, joinVars, redisVars, lock>>

(* ... and nothing unlocks what the callback had locked. *)
ThrowLocked(t) ==
  /\ lock' = "leaked"
  /\ Goto(t, "none")
  /\ UNCHANGED <<process, joinVars, redisVars>>

Crash ==
  /\ process' = "crashed"
  /\ UNCHANGED <<joinVars, redisVars, context, lock, pc>>

-----------------------------------------------------------------------------
(* The rest of the system.                                                   *)

(* Another device sets the key "alert". *)
Raised ==
  /\ alert # "1"
  /\ redisUp
  /\ alert' = "1"
  /\ UNCHANGED <<process, joinVars, redisUp, context, lock, pc>>

(* A context whose connection was lost never reconnects. *)
RedisStops ==
  /\ "redis" \in Faults
  /\ redisUp
  /\ redisUp' = FALSE
  /\ context' = IF context = "ok" THEN "lost" ELSE context
  /\ UNCHANGED <<process, joinVars, alert, lock, pc>>

RedisStarts ==
  /\ ~redisUp
  /\ redisUp' = TRUE
  /\ UNCHANGED <<process, joinVars, alert, context, lock, pc>>

ClientTypeOK ==
  /\ process \in {"up", "crashed", "exited"}
  /\ registered \in BOOLEAN
  /\ getting \in 0 .. 1
  /\ observations \in 0 .. 1
  /\ alert \in {"absent", "0", "1"}
  /\ redisUp \in BOOLEAN
  /\ context \in Contexts
  /\ lock \in {"free", "held", "leaked"}

(* One resource is joined at most, and observed at most once. *)
JoinInv ==
  /\ getting + observations <= 1
  /\ ~registered => getting + observations = 0

(* As long as redis works and contexts can be allocated: whoever is past
   connecting has a connection to use, and nobody is about to free it. *)
Connected(steps) ==
  /\ redisUp
  /\ context \in {"NULL", "ok"}
  /\ \A t \in Threads : pc[t] # "free" /\ (pc[t] \in steps => context = "ok")

=============================================================================
