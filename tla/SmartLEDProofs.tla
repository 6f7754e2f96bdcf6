--------------------------- MODULE SmartLEDProofs ---------------------------
(***************************************************************************)
(* The safety properties of SmartLED, for any number of callbacks at once: *)
(* with any faults those of Inv, without faults that of SteadyInv.         *)
(***************************************************************************)
EXTENDS SmartLED, ClientProofs

LEMMA TypeStep == TypeOK /\ JoinInv /\ Next => TypeOK' /\ JoinInv'
<1> SUFFICES ASSUME TypeOK, JoinInv, Next PROVE TypeOK' /\ JoinInv'
  OBVIOUS
<1>0. ClientTypeOK /\ pc \in [Threads -> Steps]
  BY DEF TypeOK
<1>1. ASSUME ClientTypeOK', JoinInv', UNCHANGED ledVars,
             \/ UNCHANGED pc
             \/ \E t \in Threads, step \in Steps : pc' = [pc EXCEPT ![t] = step]
      PROVE  TypeOK' /\ JoinInv'
  <2>1. pc' \in [Threads -> Steps]
    BY <1>0, <1>1
  <2> QED
    BY <1>1, <2>1 DEF TypeOK, ledVars
<1>2. CASE Joining
  BY <1>2, <1>0, <1>1, JoinStep DEF Joining, FoundResource, OnGet
<1>3. ASSUME NEW t \in Threads, Notification(t) PROVE TypeOK' /\ JoinInv'
  <2>1. ClientTypeOK' /\ JoinInv'
    BY <1>0, <1>3, FieldStep
    DEF Notification, OnObserve, redisVars, ClientTypeOK
  <2> QED
    BY <1>1, <1>3, <2>1 DEF Notification, OnObserve, Goto, Steps
<1>4. ASSUME NEW t \in Threads, Callback(t) PROVE TypeOK' /\ JoinInv'
  <2>1. CASE /\ \/ GetAlertStatus(t)
                \/ Connect(t)
                \/ CheckContext(t)
                \/ FreeContext(t)
                \/ Lock(t, "lock", "get")
             /\ UNCHANGED ledVars
    <3>1. ClientTypeOK' /\ JoinInv'
      BY <1>0, <2>1, ContextStep
    <3>2. \/ UNCHANGED pc
          \/ \E step \in Steps : pc' = [pc EXCEPT ![t] = step]
      BY <2>1, ContextPC DEF Steps
    <3> QED
      BY <1>1, <2>1, <3>1, <3>2
  <2>2. CASE GetAlert(t)
    <3>1. ClientTypeOK' /\ JoinInv'
      <4>1. UNCHANGED <<joinVars, redisVars>>
        BY <2>2 DEF GetAlert, ThrowLocked, Crash
      <4>2. /\ process' \in {"up", "crashed", "exited"}
            /\ context' \in Contexts
            /\ lock' \in {"free", "held", "leaked"}
        BY <1>0, <2>2 DEF GetAlert, NullReply, ThrowLocked, Crash, ClientTypeOK,
           Contexts
      <4> QED
        BY <1>0, <4>1, <4>2, FieldStep DEF redisVars, ClientTypeOK
    <3>2. /\ pc' \in [Threads -> Steps]
          /\ answer' \in [Threads -> {"none", "0", "1"}]
      BY <1>0, <2>2 DEF GetAlert, ThrowLocked, Crash, Goto, Steps, TypeOK,
         ClientTypeOK
    <3> QED
      BY <2>2, <3>1, <3>2 DEF TypeOK, GetAlert
  <2>3. CASE SetLed(t) \/ Post(t)
    <3>1. ClientTypeOK' /\ JoinInv'
      BY <1>0, <2>3, FieldStep DEF SetLed, Post, redisVars, ClientTypeOK
    <3>2. /\ pc' \in [Threads -> Steps]
          /\ answer' \in [Threads -> {"none", "0", "1"}]
          /\ led' \in Values
      BY <1>0, <2>3 DEF SetLed, Post, Goto, Steps, TypeOK, ColourOf, Values
    <3> QED
      BY <2>3, <3>1, <3>2 DEF TypeOK, SetLed, Post
  <2> QED
    BY <1>4, <2>1, <2>2, <2>3 DEF Callback
<1>5. CASE Control
  <2>1. led = 0 \/ led = 1 \/ led = 2 \/ led = 3 \/ led = 4
    BY DEF TypeOK, Values
  <2>2. ColourShown[led + 1] \in {"red", "green", Alarm, Normal}
    BY <2>1 DEF ColourShown
  <2>3. colour' \in Colours
    BY <1>5, <2>2 DEF Control, Colours
  <2> QED
    BY <1>5, <2>3 DEF Control, clientVars, joinVars, redisVars, TypeOK,
       ClientTypeOK, JoinInv
<1>6. CASE ObserveError \/ Environment
  BY <1>6, <1>0, <1>1, EnvironmentStep DEF ObserveError, Environment
<1> QED
  BY <1>2, <1>3, <1>4, <1>5, <1>6 DEF Next, Own

(* _led_lock is taken and released by the callback that is in GET alert. *)
LEMMA LockStep == TypeOK /\ LockHeldByOne /\ Next => LockHeldByOne'
<1> SUFFICES ASSUME TypeOK, LockHeldByOne, Next PROVE LockHeldByOne'
  OBVIOUS
<1> USE DEF LockHeldByOne
<1>0. pc \in [Threads -> Steps]
  BY DEF TypeOK
<1>1. CASE UNCHANGED <<lock, pc>>
  BY <1>1
<1>2. ASSUME NEW t \in Threads, NEW step, pc[t] # "get", step # "get",
             lock' = lock, pc' = [pc EXCEPT ![t] = step]
      PROVE  LockHeldByOne'
  BY <1>0, <1>2
<1>3. ASSUME NEW t \in Threads, Callback(t) PROVE LockHeldByOne'
  <2>1. CASE \/ GetAlertStatus(t)
             \/ Connect(t)
             \/ CheckContext(t)
             \/ FreeContext(t)
    BY <2>1, <1>1, <1>2
    DEF GetAlertStatus, Connect, CheckContext, FreeContext, Goto
  <2>2. CASE Lock(t, "lock", "get")
    BY <2>2, <1>0 DEF Lock, Goto
  <2>3. CASE GetAlert(t)
    BY <2>3, <1>0 DEF GetAlert, ThrowLocked, Crash, Goto
  <2>4. CASE SetLed(t) \/ Post(t)
    BY <2>4, <1>2 DEF SetLed, Post, Goto
  <2> QED
    BY <1>3, <2>1, <2>2, <2>3, <2>4 DEF Callback
<1>4. ASSUME NEW t \in Threads, Notification(t) PROVE LockHeldByOne'
  BY <1>4, <1>2 DEF Notification, OnObserve, Goto
<1>5. CASE Joining \/ Control \/ ObserveError \/ Environment
  BY <1>5, <1>1 DEF Joining, FoundResource, OnGet, Control, clientVars,
     ObserveError, Environment, Raised, RedisStops, RedisStarts, OnObserveError
<1> QED
  BY <1>3, <1>4, <1>5 DEF Next, Own

(* Answers, colours and POSTs carry an alert that is still raised. *)
LEMMA AlarmStep ==
  TypeOK /\ AnswerInv /\ NoFalseAlarm /\ Next => AnswerInv' /\ NoFalseAlarm'
<1> SUFFICES ASSUME TypeOK, AnswerInv, NoFalseAlarm, Next
             PROVE  AnswerInv' /\ NoFalseAlarm'
  OBVIOUS
<1> USE DEF AnswerInv, NoFalseAlarm
<1>0. answer \in [Threads -> {"none", "0", "1"}]
  BY DEF TypeOK
<1>1. CASE UNCHANGED <<answer, led, ledSet, posted>> /\ alert' \in {alert, "1"}
  BY <1>1
<1>2. ASSUME NEW t \in Threads, Callback(t) PROVE AnswerInv' /\ NoFalseAlarm'
  <2>1. CASE GetAlert(t)
    BY <2>1, <1>0 DEF GetAlert, NullReply, ThrowLocked, Crash, redisVars
  <2>2. CASE SetLed(t)
    BY <2>2, <1>0 DEF SetLed, ColourOf, redisVars
  <2>3. CASE Post(t)
    BY <2>3, <1>0 DEF Post, redisVars
  <2> QED
    BY <1>1, <1>2, <2>1, <2>2, <2>3 DEF Callback, GetAlertStatus, Connect,
       CheckContext, FreeContext, Lock, ledVars, redisVars
<1>3. ASSUME NEW t \in Threads, Notification(t) PROVE AnswerInv' /\ NoFalseAlarm'
  BY <1>3, <1>1 DEF Notification, OnObserve, ledVars, redisVars
<1>4. CASE Joining \/ Control \/ ObserveError \/ Environment
  BY <1>4, <1>1 DEF Joining, FoundResource, OnGet, Control, clientVars,
     ObserveError, Environment, Raised, RedisStops, RedisStarts, OnObserveError, ledVars,
     redisVars
<1> QED
  BY <1>2, <1>3, <1>4 DEF Next, Own

LEMMA InitInv == Init => Inv
<1> SUFFICES ASSUME Init PROVE Inv
  OBVIOUS
<1>1. ClientTypeOK /\ JoinInv
  BY ClientInitType DEF Init
<1>2. /\ pc \in [Threads -> Steps]
      /\ answer \in [Threads -> {"none", "0", "1"}]
  BY DEF Init, ClientInit, Steps
<1>3. TypeOK
  BY <1>1, <1>2 DEF Init, TypeOK, Colours
<1>4. LockHeldByOne
  BY DEF Init, ClientInit, LockHeldByOne
<1> QED
  BY <1>1, <1>3, <1>4 DEF Init, Inv, AnswerInv, NoFalseAlarm

LEMMA StutterInv == Inv /\ UNCHANGED vars => Inv'
BY DEF vars, clientVars, ledVars, joinVars, redisVars, Inv, TypeOK, ClientTypeOK,
   JoinInv, LockHeldByOne, AnswerInv, NoFalseAlarm

(* Whatever callbacks and faults come together, every reachable state satisfies
   the inductive invariant. *)
THEOREM InvHolds == Spec => []Inv
<1>1. Inv /\ [Next]_vars => Inv'
  BY TypeStep, LockStep, AlarmStep, StutterInv DEF Inv
<1> QED
  BY <1>1, InitInv, PTL DEF Spec

(* Type correctness; in particular one observation at most is asked for. *)
THEOREM TypesHold == Spec => []TypeOK
<1>1. Inv => TypeOK
  BY DEF Inv
<1> QED
  BY <1>1, InvHolds, PTL

(* At most one callback is inside GET alert, and it holds _led_lock. *)
THEOREM OneInsideGet == Spec => []LockHeldByOne
<1>1. Inv => LockHeldByOne
  BY DEF Inv
<1> QED
  BY <1>1, InvHolds, PTL

(* The alarm colour and the alert of a POST come from a raised alert. *)
THEOREM AlarmsHaveACause == Spec => []NoFalseAlarm
<1>1. Inv => NoFalseAlarm
  BY DEF Inv
<1> QED
  BY <1>1, InvHolds, PTL

-----------------------------------------------------------------------------
(* How long the alarm colour can be lost after the alert was raised.         *)

(* Once the alert is raised, a callback's answer is an old one only if it was
   one before, and a callback that stores the normal colour leaves OldNews. *)
LEMMA LapseStep ==
  /\ TypeOK /\ Next /\ alert = "1"
  => /\ OldNews' \subseteq OldNews
     /\ (led = 2 /\ led' # 2) => OldNews' # OldNews
<1> SUFFICES ASSUME TypeOK, Next, alert = "1"
             PROVE  /\ OldNews' \subseteq OldNews
                    /\ (led = 2 /\ led' # 2) => OldNews' # OldNews
  OBVIOUS
<1>0. /\ pc \in [Threads -> Steps]
      /\ answer \in [Threads -> {"none", "0", "1"}]
  BY DEF TypeOK
<1>1. CASE UNCHANGED <<pc, answer, led>>
  BY <1>1 DEF OldNews
<1>2. ASSUME NEW t \in Threads, NEW step, step # "set",
             pc' = [pc EXCEPT ![t] = step], UNCHANGED <<answer, led>>
      PROVE  /\ OldNews' \subseteq OldNews
             /\ (led = 2 /\ led' # 2) => OldNews' # OldNews
  BY <1>0, <1>2 DEF OldNews
<1>3. ASSUME NEW t \in Threads, Callback(t)
      PROVE  /\ OldNews' \subseteq OldNews
             /\ (led = 2 /\ led' # 2) => OldNews' # OldNews
  <2>1. CASE /\ \/ GetAlertStatus(t)
                \/ Connect(t)
                \/ CheckContext(t)
                \/ FreeContext(t)
                \/ Lock(t, "lock", "get")
             /\ UNCHANGED ledVars
    <3>1. \/ UNCHANGED pc
          \/ \E step \in Steps \ {"set"} : pc' = [pc EXCEPT ![t] = step]
      BY <2>1, ContextPC DEF Steps
    <3> QED
      BY <2>1, <3>1, <1>1, <1>2 DEF ledVars
  <2>2. CASE GetAlert(t)
    <3>1. led' = led
      BY <2>2 DEF GetAlert
    <3>2. CASE answer' = [answer EXCEPT ![t] = "1"]
               /\ pc' = [pc EXCEPT ![t] = "set"]
      BY <1>0, <3>1, <3>2 DEF OldNews
    <3>3. CASE UNCHANGED answer /\ pc' = [pc EXCEPT ![t] = "none"]
      BY <1>2, <3>1, <3>3
    <3>4. CASE UNCHANGED <<answer, pc>>
      BY <1>1, <3>1, <3>4
    <3> QED
      BY <2>2, <3>2, <3>3, <3>4 DEF GetAlert, ThrowLocked, Crash, Goto
  <2>3. CASE SetLed(t)
    <3>1. /\ pc[t] = "set"
          /\ pc' = [pc EXCEPT ![t] = "post"]
          /\ answer' = answer
          /\ led' = ColourOf(answer[t])
      BY <2>3 DEF SetLed, Goto
    <3>2. OldNews' = OldNews \ {t}
      BY <1>0, <3>1 DEF OldNews
    <3>3. led' # 2 => t \in OldNews
      BY <3>1 DEF OldNews, ColourOf
    <3> QED
      BY <3>2, <3>3
  <2>4. CASE Post(t)
    <3>1. /\ pc[t] # "set"
          /\ pc' = [pc EXCEPT ![t] = "none"]
          /\ answer' = [answer EXCEPT ![t] = "none"]
          /\ led' = led
      BY <2>4 DEF Post, Goto
    <3> QED
      BY <1>0, <3>1 DEF OldNews
  <2> QED
    BY <1>3, <2>1, <2>2, <2>3, <2>4 DEF Callback
<1>4. ASSUME NEW t \in Threads, Notification(t)
      PROVE  /\ OldNews' \subseteq OldNews
             /\ (led = 2 /\ led' # 2) => OldNews' # OldNews
  BY <1>4, <1>2 DEF Notification, OnObserve, Goto, ledVars
<1>5. CASE Joining \/ Control \/ ObserveError \/ Environment
  BY <1>5, <1>1 DEF Joining, FoundResource, OnGet, Control, clientVars,
     ObserveError, Environment, Raised, RedisStops, RedisStarts, OnObserveError,
     ledVars
<1> QED
  BY <1>3, <1>4, <1>5 DEF Next, Own

(* Whatever faults happen, a raised alert is forgotten by the colour only as
   often as callbacks still carried the old answer when it was raised. *)
THEOREM LapsesAreBounded == Spec => LapsesRunOut
<1>1. TypeOK /\ [Next]_vars
      => [alert = "1" => /\ OldNews' \subseteq OldNews
                         /\ (led = 2 /\ led' # 2) => OldNews' # OldNews]_vars
  BY LapseStep
<1> QED
  BY <1>1, TypesHold, PTL DEF Spec, LapsesRunOut

-----------------------------------------------------------------------------
(* As long as redis works and contexts can be allocated.                     *)

(* Callbacks that race to connect replace one connection by another. *)
LEMMA SteadyStep ==
  ASSUME "redis" \notin Faults, "memory" \notin Faults, SteadyInv, Next
  PROVE  SteadyInv'
<1> DEFINE Past == {"check", "unallocated", "lock", "get", "set"}
<1>0. /\ TypeOK /\ JoinInv /\ Connected(Past)
      /\ pc \in [Threads -> Steps]
  BY DEF SteadyInv, TypeOK
<1>1. TypeOK' /\ JoinInv'
  BY <1>0, TypeStep
<1> HIDE DEF Past
<1>2. CASE UNCHANGED <<redisUp, context, pc>>
  BY <1>0, <1>1, <1>2 DEF SteadyInv, Connected, Past
<1>3. ASSUME NEW t \in Threads, NEW step, step \in Past => context = "ok",
             step # "free", UNCHANGED <<redisUp, context>>,
             pc' = [pc EXCEPT ![t] = step]
      PROVE  SteadyInv'
  BY <1>0, <1>1, <1>3 DEF SteadyInv, Connected, Past
<1>4. ASSUME NEW t \in Threads, Callback(t) PROVE SteadyInv'
  <2>1. CASE \/ GetAlertStatus(t)
             \/ Connect(t)
             \/ CheckContext(t)
             \/ FreeContext(t)
             \/ Lock(t, "lock", "get")
    <3>1. Connected(Past)'
      <4>1. /\ {"check", "unallocated", "lock"} \subseteq Past
            /\ {"none", "status", "connect", "false"} \cap Past = {}
            /\ "lock" \in Past
        BY DEF Past
      <4> QED
        BY <1>0, <2>1, <4>1, ConnectedStep
    <3> QED
      BY <1>1, <3>1 DEF SteadyInv, Past
  <2>2. CASE GetAlert(t)
    <3>1. context = "ok"
      BY <2>2, <1>0 DEF GetAlert, Connected, Past
    <3> QED
      BY <2>2, <3>1, <1>2, <1>3
      DEF GetAlert, NullReply, Outcomes, Crash, Goto, redisVars
  <2>3. CASE SetLed(t) \/ Post(t)
    BY <2>3, <1>3 DEF SetLed, Post, Goto, Past, redisVars
  <2> QED
    BY <1>4, <2>1, <2>2, <2>3 DEF Callback
<1>5. ASSUME NEW t \in Threads, Notification(t) PROVE SteadyInv'
  BY <1>5, <1>3 DEF Notification, OnObserve, Goto, Past, redisVars
<1>6. CASE Joining \/ Control \/ ObserveError \/ Environment
  BY <1>0, <1>6, <1>2 DEF Joining, FoundResource, OnGet, Control, clientVars,
     ObserveError, Environment, Raised, RedisStops, RedisStarts, OnObserveError, redisVars,
     Connected
<1> QED
  BY <1>4, <1>5, <1>6 DEF Next, Own

(* As long as redis works and contexts can be allocated, whoever is inside GET
   alert has a connection, however the callbacks' connecting interleaves, also
   when connecting or the server's answers fail in another way. *)
THEOREM ConnectionFound ==
  "redis" \notin Faults /\ "memory" \notin Faults => (Spec => []GetFindsConnection)
<1> SUFFICES ASSUME "redis" \notin Faults, "memory" \notin Faults
             PROVE  Spec => []GetFindsConnection
  OBVIOUS
<1>1. Init => SteadyInv
  <2> SUFFICES ASSUME Init PROVE SteadyInv
    OBVIOUS
  <2>1. TypeOK /\ JoinInv
    BY InitInv DEF Inv
  <2> QED
    BY <2>1 DEF Init, ClientInit, SteadyInv, Connected
<1>2. SteadyInv /\ [Next]_vars => SteadyInv'
  <2>1. SteadyInv /\ UNCHANGED vars => SteadyInv'
    BY DEF vars, clientVars, ledVars, joinVars, redisVars, SteadyInv, TypeOK,
       ClientTypeOK, JoinInv, Connected
  <2> QED
    BY <2>1, SteadyStep
<1>3. SteadyInv => GetFindsConnection
  BY DEF SteadyInv, Connected, GetFindsConnection
<1> QED
  BY <1>1, <1>2, <1>3, PTL DEF Spec

=============================================================================
