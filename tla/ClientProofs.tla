---------------------------- MODULE ClientProofs ----------------------------
(* What the proofs about the two clients share. *)
EXTENDS Client, TLAPS

LEMMA ClientInitType == ClientInit => ClientTypeOK /\ JoinInv
<1> SUFFICES ASSUME ClientInit PROVE ClientTypeOK /\ JoinInv
  OBVIOUS
<1>1. alert \in {"absent", "0", "1"}
  BY ClientAssumption DEF ClientInit
<1>2. registered \in BOOLEAN /\ redisUp \in BOOLEAN
  BY DEF ClientInit
<1>3. /\ process = "up" /\ getting = 0 /\ observations = 0
      /\ context = "NULL" /\ lock = "free"
  BY DEF ClientInit
<1> QED
  BY <1>1, <1>2, <1>3 DEF ClientTypeOK, JoinInv, Contexts

(* Discovery and its GET lead to one observation at most. *)
LEMMA JoinStep ==
  ASSUME ClientTypeOK, JoinInv, FoundResource \/ OnGet
  PROVE  ClientTypeOK' /\ JoinInv'
<1>1. CASE FoundResource
  BY <1>1 DEF FoundResource, ClientTypeOK, JoinInv, redisVars
<1>2. CASE OnGet
  <2>1. /\ getting = 1 /\ observations = 0 /\ getting' = 0
        /\ observations' = 0 \/ observations' = 1
    BY <1>2 DEF OnGet, ClientTypeOK, JoinInv
  <2>2. UNCHANGED <<process, registered, alert, redisUp, context, lock>>
    BY <1>2 DEF OnGet, redisVars
  <2>3. registered /\ registered'
    BY <2>1, <2>2 DEF JoinInv, ClientTypeOK
  <2>4. /\ getting' \in 0 .. 1 /\ observations' \in 0 .. 1
        /\ getting' + observations' <= 1
    BY <2>1
  <2> QED
    BY <2>2, <2>3, <2>4 DEF ClientTypeOK, JoinInv
<1> QED
  BY <1>1, <1>2

(* Any other step leaves the joining alone; what it may change has its type. *)
LEMMA FieldStep ==
  ASSUME ClientTypeOK, JoinInv, UNCHANGED joinVars,
         process' \in {"up", "crashed", "exited"},
         alert' \in {"absent", "0", "1"},
         redisUp' \in BOOLEAN,
         context' \in Contexts,
         lock' \in {"free", "held", "leaked"}
  PROVE  ClientTypeOK' /\ JoinInv'
BY DEF ClientTypeOK, JoinInv, joinVars

(* The steps of getAlertStatus before the lock, and the lock. *)
LEMMA ContextStep ==
  ASSUME ClientTypeOK, JoinInv, NEW t, NEW from, NEW to,
         \/ GetAlertStatus(t)
         \/ Connect(t)
         \/ CheckContext(t)
         \/ FreeContext(t)
         \/ Lock(t, from, to)
  PROVE  ClientTypeOK' /\ JoinInv'
<1>1. UNCHANGED <<joinVars, redisVars>>
  BY DEF GetAlertStatus, Connect, CheckContext, FreeContext, Lock
<1>2. process' \in {"up", "crashed", "exited"}
  BY DEF ClientTypeOK, GetAlertStatus, Connect, CheckContext, FreeContext, Lock
<1>3. context' \in Contexts
  BY DEF ClientTypeOK, Contexts, GetAlertStatus, Connect, CheckContext,
     FreeContext, Lock
<1>4. lock' \in {"free", "held", "leaked"}
  BY DEF ClientTypeOK, GetAlertStatus, Connect, CheckContext, FreeContext, Lock
<1> QED
  BY <1>1, <1>2, <1>3, <1>4, FieldStep DEF ClientTypeOK, redisVars

(* Where these steps lead to. *)
LEMMA ContextPC ==
  ASSUME NEW t, NEW from, NEW to,
         \/ GetAlertStatus(t)
         \/ Connect(t)
         \/ CheckContext(t)
         \/ FreeContext(t)
         \/ Lock(t, from, to)
  PROVE  \/ UNCHANGED pc
         \/ \E step \in {"connect", "lock", "check", "false", "free",
                         "unallocated", to} : pc' = [pc EXCEPT ![t] = step]
BY DEF GetAlertStatus, Connect, CheckContext, FreeContext, Lock, Goto

(* The rest of the system, and a client that exits. *)
LEMMA EnvironmentStep ==
  ASSUME ClientTypeOK, JoinInv,
         Raised \/ RedisStops \/ RedisStarts \/ OnObserveError
  PROVE  ClientTypeOK' /\ JoinInv' /\ UNCHANGED pc
<1>1. UNCHANGED <<joinVars, lock, pc>>
  BY DEF Raised, RedisStops, RedisStarts, OnObserveError
<1>2. redisUp' \in BOOLEAN
  BY DEF Raised, RedisStops, RedisStarts, OnObserveError, redisVars, ClientTypeOK
<1>3. /\ process' \in {"up", "crashed", "exited"}
      /\ alert' \in {"absent", "0", "1"}
      /\ context' \in Contexts
  BY DEF Raised, RedisStops, RedisStarts, OnObserveError, redisVars,
     ClientTypeOK, Contexts
<1> QED
  BY <1>1, <1>2, <1>3, FieldStep DEF ClientTypeOK

(* As long as redis works and its contexts can be allocated, a step of
   getAlertStatus up to the lock neither frees nor loses the connection that
   those past it rely on. *)
LEMMA ConnectedStep ==
  ASSUME NEW S, NEW steps, NEW from, NEW to, NEW t \in Threads,
         pc \in [Threads -> S],
         "memory" \notin Faults, Connected(steps),
         {"check", "unallocated", "lock"} \subseteq steps,
         {"none", "status", "connect", "false"} \cap steps = {},
         from \in steps \/ to \notin steps, to # "free",
         \/ GetAlertStatus(t)
         \/ Connect(t)
         \/ CheckContext(t)
         \/ FreeContext(t)
         \/ Lock(t, from, to)
  PROVE  Connected(steps)'
<1>1. CASE UNCHANGED <<redisUp, context, pc>>
  BY <1>1 DEF Connected
<1>2. ASSUME NEW step, step # "free", step \in steps => context = "ok",
             UNCHANGED <<redisUp, context>>, Goto(t, step)
      PROVE  Connected(steps)'
  BY <1>2 DEF Connected, Goto
<1>3. CASE GetAlertStatus(t)
  BY <1>2, <1>3 DEF GetAlertStatus, Connected, redisVars
<1>4. CASE Connect(t)
  <2>1. CASE context' = "ok" /\ Goto(t, "check")
    BY <1>4, <2>1 DEF Connect, Connected, Goto, redisVars
  <2>2. CASE Goto(t, "false") /\ UNCHANGED context
    BY <1>2, <1>4, <2>2 DEF Connect, redisVars
  <2> QED
    BY <1>4, <2>1, <2>2 DEF Connect, Connected
<1>5. CASE CheckContext(t)
  <2>1. context = "ok"
    BY <1>5 DEF CheckContext, Connected
  <2> QED
    BY <1>2, <1>5, <2>1 DEF CheckContext, redisVars
<1>6. CASE FreeContext(t)
  BY <1>6 DEF FreeContext, Connected
<1>7. CASE Lock(t, from, to)
  <2>1. to \in steps => context = "ok"
    BY <1>7 DEF Lock, Connected
  <2> QED
    BY <1>2, <1>7, <2>1 DEF Lock, redisVars
<1> QED
  BY <1>3, <1>4, <1>5, <1>6, <1>7

=============================================================================
