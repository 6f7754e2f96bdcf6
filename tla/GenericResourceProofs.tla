----------------------- MODULE GenericResourceProofs -----------------------
(***************************************************************************)
(* The safety properties of GenericResource, for every UINT8_MAX, bound of *)
(* the list, set of devices and threads and every choice of faults.        *)
(*                                                                         *)
(* Inv is inductive.  One lemma per conjunct shows that a step preserves   *)
(* it, with one case per action that touches what the conjunct is about;   *)
(* the other actions leave its variables unchanged.                        *)
(***************************************************************************)
EXTENDS GenericResource, FiniteSetTheorems, TLAPS

(* A step of the specification is a step of one of these. *)
LEMMA StepCases ==
  ASSUME Next
  PROVE  \/ \E o \in ObsIds, d \in Devices : Register(o, d)
         \/ \E o \in ObsIds : Deregister(o)
         \/ \E o \in ObsIds : NotInterested(o)
         \/ \E o \in ObsIds : FailedComm(o)
         \/ \E o \in ObsIds : StillInterested(o)
         \/ \E d \in Devices : PostRequest(d)
         \/ ObserveRegister
         \/ ObserveUnregister
         \/ StartThread
         \/ AddResourceTable
         \/ Post
         \/ RedisException
         \/ RedisFails
         \/ \E t \in Threads : Wake(t)
         \/ \E t \in Threads : NotifyBegin(t)
         \/ \E t \in Threads : NotifyOne(t)
         \/ \E t \in Threads : NotifyEnd(t)
         \/ \E t \in Threads : StopNotify(t)
  BY DEF Next, Request, Handler, Notifier

-----------------------------------------------------------------------------


ServerType == server \in {"up", "redis exception", "too many observers",
                          "notify exception"}

(* erase(remove(..)) of an element leaves a buffer of observation ids, ... *)
LEMMA EraseType ==
  ASSUME ListType, NEW id, Erase(id)
  PROVE  interested' \in Buffers /\ size' \in Nat /\ size' <= size
<1> DEFINE kept == {i \in 1 .. size : interested[i] # id}
           n == Cardinality(kept)
<1>1. MaxListed \in Nat /\ size \in Nat /\ size <= MaxListed
  <2>1. MaxListed \in Nat
    BY ConstantsAssumption
  <2> QED
    BY <2>1 DEF ListType
<1>2. n \in Nat /\ n <= size
  <2>1. IsFiniteSet(1 .. size) /\ Cardinality(1 .. size) = size
    BY <1>1, FS_Interval
  <2>2. kept \subseteq 1 .. size
    OBVIOUS
  <2> HIDE DEF kept
  <2>3. IsFiniteSet(kept) /\ Cardinality(kept) <= Cardinality(1 .. size)
    BY <2>1, <2>2, FS_Subset
  <2> QED
    BY <2>1, <2>3, FS_CardinalityType
<1> HIDE DEF n
<1>3. PICK move \in [1 .. n -> kept] :
        /\ interested' = [i \in Slots |-> IF i \in 1 .. n THEN interested[move[i]]
                                                       ELSE interested[i]]
        /\ size' = n
  BY Zenon DEF Erase, n
<1>4. \A i \in 1 .. n : move[i] \in Slots
  BY <1>1 DEF Slots
<1>5. \A i \in Slots : (IF i \in 1 .. n THEN interested[move[i]]
                                     ELSE interested[i]) \in ObsIds
  BY <1>4 DEF ListType, Buffers
<1> QED
  BY <1>2, <1>3, <1>5 DEF Buffers

(* Deleting an observer resets its count; counting never passes the limit. *)
LEMMA DeleteType ==
  ASSUME StackType, NEW o \in ObsIds, Delete(o), UNCHANGED joined
  PROVE  StackType'
<1>1. failedCommCount' = [failedCommCount EXCEPT ![o] = 0] /\ observers' \subseteq observers
  BY DEF Delete
<1>2. /\ observers \subseteq ObsIds
      /\ failedCommCount \in [ObsIds -> 0 .. MAX_OBSERVER_FAILED_COMM]
      /\ joined \subseteq Devices
  BY DEF StackType
<1>3. failedCommCount' \in [ObsIds -> 0 .. MAX_OBSERVER_FAILED_COMM]
  BY <1>1, <1>2, ConstantsAssumption
<1> QED
  BY <1>1, <1>2, <1>3 DEF StackType

LEMMA CountType ==
  ASSUME StackType, NEW o \in ObsIds, UNCHANGED <<observers, joined>>,
         \/ UNCHANGED failedCommCount
         \/ failedCommCount' = [failedCommCount EXCEPT ![o] = 0]
         \/ /\ failedCommCount[o] < MAX_OBSERVER_FAILED_COMM
            /\ failedCommCount' = [failedCommCount EXCEPT ![o] = @ + 1]
  PROVE  StackType'
BY ConstantsAssumption DEF StackType

LEMMA TypeStep == Inv /\ Next => TypeOK'
<1> SUFFICES ASSUME TypeOK, JobInv, ListInv, RoundInv, Next PROVE TypeOK'
  BY DEF Inv
<1>0. /\ UINT8_MAX \in Nat
      /\ size \in Nat
      /\ capacity \in Nat
      /\ MaxListed \in Nat
      /\ size <= MaxListed
      /\ size <= capacity
  <2>1. UINT8_MAX \in Nat /\ MaxListed \in Nat
    BY ConstantsAssumption
  <2>2. ListType
    BY DEF TypeOK
  <2> QED
    BY <2>1, <2>2 DEF ListType
<1>s. UNCHANGED stackVars => StackType'
  BY DEF TypeOK, StackType, stackVars
<1>l. UNCHANGED listVars => ListType'
  BY DEF TypeOK, ListType, listVars
<1>r. UNCHANGED threadVars => RoundType'
  BY DEF TypeOK, RoundType, threadVars, roundVars, bufferVars
<1>d. UNCHANGED redisVars => RedisType'
  BY DEF TypeOK, RedisType, redisVars
<1>f. UNCHANGED flagVars => m_isStartedThread' \in BOOLEAN /\ stopped' \in BOOLEAN
  BY DEF TypeOK, flagVars
<1>b. Disturb => disturbed' \in [Threads -> BOOLEAN]
  BY Zenon DEF Disturb
<1>c. Disturb /\ UNCHANGED <<pc, roundVars, bufferVars>> => RoundType'
  BY <1>b DEF TypeOK, RoundType, roundVars, bufferVars
<1>v. ASSUME NEW o \in ObsIds, Lose(o), UNCHANGED <<joined, bufferOfList>>
      PROVE  StackType' /\ ListType'
  <2>1. StackType'
    BY <1>v, DeleteType DEF Lose, TypeOK
  <2>2. ListType'
    BY <1>v DEF Lose, bufferOfList, TypeOK, ListType
  <2> QED
    BY <2>1, <2>2
<1>i. Idle \in JobType
  BY ConstantsAssumption DEF Idle, Job, JobType, Steps, ObsIds
<1>1. ASSUME NEW o \in ObsIds, NEW d \in Devices, Register(o, d) PROVE TypeOK'
  <2>1. StackType' /\ job' \in JobType
    BY <1>1 DEF Register, Job, JobType, Steps, TypeOK, StackType
  <2> QED
    BY <1>1, <2>1, <1>l, <1>r, <1>d, <1>f DEF Register, TypeOK
<1>2. ASSUME NEW o \in ObsIds, Deregister(o) PROVE TypeOK'
  <2>1. StackType'
    BY <1>2, DeleteType DEF Deregister, TypeOK
  <2>3. job' \in JobType
    BY <1>2 DEF Deregister, Job, JobType, Steps
  <2>2. RoundType'
    BY <1>2, <1>b DEF Deregister, TypeOK, RoundType, roundVars, bufferVars
  <2> QED
    BY <1>2, <2>1, <2>2, <2>3, <1>l, <1>d, <1>f DEF Deregister, TypeOK
<1>3. ASSUME NEW o \in ObsIds, NotInterested(o) PROVE TypeOK'
  <2>1. StackType' /\ ListType'
    BY <1>3, <1>v DEF NotInterested
  <2>2. RoundType'
    BY <1>3, <1>c DEF NotInterested
  <2> QED
    BY <1>3, <2>1, <2>2, <1>d, <1>f DEF NotInterested, TypeOK
<1>4. ASSUME NEW o \in ObsIds, FailedComm(o) PROVE TypeOK'
  <2>1. CASE Lose(o) /\ Disturb
    <3>1. StackType' /\ ListType'
      BY <1>4, <2>1, <1>v DEF FailedComm
    <3>2. RoundType'
      BY <1>4, <2>1, <1>c DEF FailedComm
    <3> QED
      BY <1>4, <3>1, <3>2, <1>d, <1>f DEF FailedComm, TypeOK
  <2>2. CASE /\ failedCommCount[o] < MAX_OBSERVER_FAILED_COMM
             /\ failedCommCount' = [failedCommCount EXCEPT ![o] = @ + 1]
             /\ UNCHANGED <<observers, silent, disturbed>>
    <3>1. StackType'
      BY <1>4, <2>2, CountType DEF FailedComm, TypeOK
    <3>2. ListType' /\ RoundType'
      BY <1>4, <2>2, <1>l, <1>r
      DEF FailedComm, bufferOfList, listVars, threadVars
    <3> QED
      BY <1>4, <3>1, <3>2, <1>d, <1>f DEF FailedComm, TypeOK
  <2> QED
    BY <1>4, <2>1, <2>2 DEF FailedComm
<1>5. ASSUME NEW o \in ObsIds, StillInterested(o) PROVE TypeOK'
  <2>1. StackType'
    BY <1>5, CountType DEF StillInterested, TypeOK
  <2> QED
    BY <1>5, <2>1, <1>l, <1>r, <1>d, <1>f DEF StillInterested, TypeOK
<1>6. ASSUME NEW d \in Devices, PostRequest(d) PROVE TypeOK'
  <2>1. job' \in JobType
    BY <1>6, ConstantsAssumption DEF PostRequest, Job, JobType, Steps, ObsIds
  <2> QED
    BY <1>6, <2>1, <1>s, <1>l, <1>r, <1>d, <1>f DEF PostRequest, TypeOK
<1>7. ASSUME ObserveRegister PROVE TypeOK'
  <2>1. size < MaxListed
    BY <1>7 DEF ObserveRegister, ListInv
  <2>2. ListType'
    <3>0. size' = size + 1
      BY <1>7 DEF ObserveRegister
    <3>1. size' \in 0 .. MaxListed
      BY <1>0, <2>1, <3>0
    <3>2. capacity' = capacity \/ capacity' = IF capacity = 0 THEN 1 ELSE 2 * capacity
      BY <1>7 DEF ObserveRegister, Reallocate
    <3>3. size = capacity => capacity' = IF capacity = 0 THEN 1 ELSE 2 * capacity
      BY <1>7 DEF ObserveRegister, Reallocate
    <3>4. capacity' \in Nat /\ size' <= capacity'
      BY <1>0, <3>0, <3>2, <3>3
    <3>5. interested' \in Buffers
      BY <1>7 DEF ObserveRegister, TypeOK, ListType, JobType, Buffers
    <3>6. silent' \subseteq ObsIds
      BY <1>7 DEF ObserveRegister, TypeOK, ListType
    <3> QED
      BY <3>1, <3>4, <3>5, <3>6 DEF ListType
  <2>3. job' \in JobType
    BY <1>7 DEF ObserveRegister, TypeOK, JobType, Steps
  <2>4. stale' \in [Threads -> BOOLEAN]
    BY <1>7, Zenon DEF ObserveRegister, Reallocate, bufferVars, TypeOK, RoundType
  <2>5. view' \in [Threads -> Buffers]
    BY <1>7 DEF ObserveRegister, Reallocate, bufferVars, TypeOK, RoundType, ListType
  <2>6. RoundType'
    BY <1>7, <2>4, <2>5 DEF ObserveRegister, TypeOK, RoundType, roundVars
  <2> QED
    BY <1>7, <2>2, <2>3, <2>6, <1>s, <1>d, <1>f DEF ObserveRegister, TypeOK
<1>8. ASSUME ObserveUnregister PROVE TypeOK'
  <2>1. ListType'
    <3>1. interested' \in Buffers /\ size' \in Nat /\ size' <= size
      BY <1>8, EraseType DEF ObserveUnregister, TypeOK
    <3>2. size' \in 0 .. MaxListed /\ size' <= capacity
      BY <1>0, <3>1
    <3> QED
      BY <1>8, <3>1, <3>2 DEF ObserveUnregister, TypeOK, ListType
  <2>2. RedisType'
    BY <1>8 DEF ObserveUnregister, ClearAlive, TypeOK, RedisType
  <2>3. job' \in JobType
    BY <1>8 DEF ObserveUnregister, TypeOK, JobType, Steps
  <2> QED
    BY <1>8, <2>1, <2>2, <2>3, <1>r, <1>s, <1>f DEF ObserveUnregister, TypeOK
<1>9. ASSUME StartThread PROVE TypeOK'
  <2>1. job' \in JobType
    BY <1>9, <1>i DEF StartThread, TypeOK, JobType, Steps
  <2>2. RoundType' /\ m_isStartedThread' \in BOOLEAN
    BY <1>9 DEF StartThread, TypeOK, RoundType, roundVars, bufferVars
  <2> QED
    BY <1>9, <2>1, <2>2, <1>s, <1>l, <1>d DEF StartThread, TypeOK
<1>11. ASSUME AddResourceTable PROVE TypeOK'
  <2>1. RedisType' /\ job' \in JobType
    BY <1>11 DEF AddResourceTable, JobInv, TypeOK, RedisType, JobType, Steps
  <2> QED
    BY <1>11, <2>1, <1>s, <1>l, <1>r, <1>f DEF AddResourceTable, TypeOK
<1>12. ASSUME Post PROVE TypeOK'
  <2>1. RedisType'
    BY <1>12 DEF Post, TypeOK, RedisType
  <2> QED
    BY <1>12, <2>1, <1>i, <1>s, <1>l, <1>r, <1>f DEF Post, TypeOK
<1>13. ASSUME RedisException PROVE TypeOK'
  BY <1>13, <1>s, <1>l, <1>r, <1>d, <1>f DEF RedisException, TypeOK
<1>14. ASSUME RedisFails PROVE TypeOK'
  BY <1>14, <1>s, <1>l, <1>r, <1>f DEF RedisFails, TypeOK, RedisType
<1>15. ASSUME NEW t \in Threads, Wake(t) PROVE TypeOK'
  <2>1. RoundType'
    BY <1>15 DEF Wake, TypeOK, RoundType, roundVars, bufferVars
  <2> QED
    BY <1>15, <2>1, <1>s, <1>l, <1>d, <1>f DEF Wake, TypeOK
<1>16. ASSUME NEW t \in Threads, NotifyBegin(t) PROVE TypeOK'
  <2>1. disturbed' \in [Threads -> BOOLEAN]
    BY <1>16, Zenon DEF NotifyBegin, TypeOK, RoundType, AllObserved
  <2>2. RoundType' /\ ServerType'
    <3>1. CASE size > UINT8_MAX
      <4>1. ~(size <= UINT8_MAX)
        BY <1>0, <3>1
      <4>2. UNCHANGED <<pc, next, count, sent, failed, stale, view>> /\ ServerType'
        BY <1>16, <4>1 DEF NotifyBegin, roundVars, bufferVars, ServerType
      <4> QED
        BY <2>1, <4>2 DEF TypeOK, RoundType
    <3>2. CASE ~(size > UINT8_MAX)
      <4>1. /\ size \in (0 .. UINT8_MAX) \cap (0 .. MaxListed)
            /\ 1 \in 1 .. UINT8_MAX + 2
        BY <1>0, <3>2
      <4>2. /\ pc' = [pc EXCEPT ![t] = "round"]
            /\ next' = [next EXCEPT ![t] = 1]
            /\ count' = [count EXCEPT ![t] = size]
            /\ sent' = [sent EXCEPT ![t] = 0]
            /\ failed' = [failed EXCEPT ![t] = FALSE]
            /\ UNCHANGED <<server, stale, view>>
        BY <1>16, <3>2 DEF NotifyBegin, bufferVars
      <4>3. /\ next' \in [Threads -> 1 .. UINT8_MAX + 2]
            /\ count' \in [Threads -> (0 .. UINT8_MAX) \cap (0 .. MaxListed)]
            /\ sent' \in [Threads -> Nat]
        BY <4>1, <4>2 DEF TypeOK, RoundType
      <4>4. ServerType'
        BY <4>2 DEF TypeOK, ServerType
      <4> QED
        BY <2>1, <4>2, <4>3, <4>4 DEF TypeOK, RoundType
    <3> QED
      BY <3>1, <3>2
  <2> QED
    BY <1>16, <2>2, <1>s, <1>l, <1>d, <1>f DEF NotifyBegin, TypeOK, ServerType
<1>17. ASSUME NEW t \in Threads, NotifyOne(t) PROVE TypeOK'
  <2>1. disturbed' \in [Threads -> BOOLEAN]
    BY <1>17, Zenon DEF NotifyOne, TypeOK, RoundType
  <2>2. next' \in [Threads -> 1 .. UINT8_MAX + 2]
    <3>1. next[t] + 1 \in 1 .. UINT8_MAX + 2
      <4>1. next[t] \in 1 .. UINT8_MAX + 2 /\ count[t] \in 0 .. UINT8_MAX
        BY DEF TypeOK, RoundType
      <4>2. next[t] <= count[t]
        BY <1>17 DEF NotifyOne
      <4> QED
        BY <1>0, <4>1, <4>2
    <3> QED
      BY <1>17, <3>1 DEF NotifyOne, TypeOK, RoundType
  <2>3. sent' \in [Threads -> Nat] /\ failed' \in [Threads -> BOOLEAN]
    <3>1. \/ UNCHANGED <<sent, failed>>
          \/ sent' = [sent EXCEPT ![t] = @ + 1] /\ UNCHANGED failed
          \/ failed' = [failed EXCEPT ![t] = TRUE] /\ UNCHANGED sent
      BY <1>17 DEF NotifyOne
    <3>2. sent \in [Threads -> Nat] /\ failed \in [Threads -> BOOLEAN]
      BY DEF TypeOK, RoundType
    <3>3. CASE UNCHANGED <<sent, failed>>
      BY <3>2, <3>3
    <3>4. CASE sent' = [sent EXCEPT ![t] = @ + 1] /\ UNCHANGED failed
      BY <3>2, <3>4
    <3>5. CASE failed' = [failed EXCEPT ![t] = TRUE] /\ UNCHANGED sent
      BY <3>2, <3>5
    <3> QED
      BY <3>1, <3>3, <3>4, <3>5
  <2>4. RoundType'
    BY <1>17, <2>1, <2>2, <2>3 DEF NotifyOne, TypeOK, RoundType, bufferVars
  <2> QED
    BY <1>17, <2>4, <1>s, <1>l, <1>d, <1>f DEF NotifyOne, TypeOK
<1>18. ASSUME NEW t \in Threads, NotifyEnd(t) PROVE TypeOK'
  <2>2. EmptyBuffer \in Buffers
    BY ConstantsAssumption DEF EmptyBuffer, Buffers, ObsIds
  <2>3. /\ next' \in [Threads -> 1 .. UINT8_MAX + 2]
        /\ count' \in [Threads -> (0 .. UINT8_MAX) \cap (0 .. MaxListed)]
        /\ sent' \in [Threads -> Nat]
    <3>1. /\ 1 \in 1 .. UINT8_MAX + 2
          /\ 0 \in (0 .. UINT8_MAX) \cap (0 .. MaxListed)
      BY ConstantsAssumption
    <3> QED
      BY <1>18, <3>1 DEF NotifyEnd, TypeOK, RoundType
  <2>4. /\ failed' \in [Threads -> BOOLEAN]
        /\ stale' \in [Threads -> BOOLEAN]
        /\ view' \in [Threads -> Buffers]
    BY <1>18, <2>2 DEF NotifyEnd, TypeOK, RoundType
  <2>5. ServerType' /\ pc' \in [Threads -> {"none", "sleep", "notify", "round",
                                           "stop", "thrown"}]
    BY <1>18 DEF NotifyEnd, TypeOK, RoundType, ServerType
  <2>6. disturbed' \in [Threads -> BOOLEAN]
    BY <1>18, Zenon DEF NotifyEnd, TypeOK, RoundType
  <2>1. RoundType' /\ ServerType'
    BY <1>18, <2>3, <2>4, <2>5, <2>6 DEF NotifyEnd, TypeOK, RoundType
  <2> QED
    BY <1>18, <2>1, <1>s, <1>l, <1>d, <1>f DEF NotifyEnd, TypeOK, ServerType
<1>19. ASSUME NEW t \in Threads, StopNotify(t) PROVE TypeOK'
  <2>1. RoundType'
    BY <1>19 DEF StopNotify, TypeOK, RoundType, roundVars, bufferVars
  <2> QED
    BY <1>19, <2>1, <1>s, <1>l, <1>d DEF StopNotify, TypeOK
<1> QED
  BY StepCases, <1>1, <1>2, <1>3, <1>4, <1>5, <1>6, <1>7, <1>8, <1>9,
     <1>11, <1>12, <1>13, <1>14, <1>15, <1>16, <1>17, <1>18, <1>19

-----------------------------------------------------------------------------

(* The job of the stack's thread keeps to its fields. *)
LEMMA JobStep == Inv /\ Next => JobInv'
<1> SUFFICES ASSUME job \in JobType, JobInv, Next PROVE JobInv'
  BY DEF Inv, TypeOK
<1>u. UNCHANGED <<job, devices>> => JobInv'
  BY DEF JobInv
<1>1. ASSUME NEW o \in ObsIds, NEW d \in Devices, Register(o, d) PROVE JobInv'
  BY <1>1 DEF Register, Job, JobInv
<1>2. ASSUME NEW o \in ObsIds, Deregister(o) PROVE JobInv'
  BY <1>2 DEF Deregister, Job, JobInv
<1>6. ASSUME NEW d \in Devices, PostRequest(d) PROVE JobInv'
  BY <1>6 DEF PostRequest, Job, JobInv
<1>7. ASSUME ObserveRegister PROVE JobInv'
  BY <1>7 DEF ObserveRegister, JobType, JobInv
<1>8. ASSUME ObserveUnregister PROVE JobInv'
  BY <1>8 DEF ObserveUnregister, JobType, JobInv
<1>9. ASSUME StartThread PROVE JobInv'
  BY <1>9 DEF StartThread, JobType, JobInv, Idle, Job
<1>11. ASSUME AddResourceTable PROVE JobInv'
  BY <1>11 DEF AddResourceTable, JobType, JobInv
<1>12. ASSUME Post PROVE JobInv'
  BY <1>12 DEF Post, JobInv, Idle, Job
<1> QED
  BY StepCases, <1>u, <1>1, <1>2, <1>6, <1>7, <1>8, <1>9, <1>11, <1>12
  DEF NotInterested, FailedComm, StillInterested, RedisException, RedisFails, Wake, NotifyBegin, NotifyOne,
      NotifyEnd, StopNotify, redisVars

-----------------------------------------------------------------------------

(* ... and what push_back and erase do to the list. *)
LEMMA PushBackList ==
  ASSUME NEW id \in ObsIds, ListType, size < MaxListed,
         interested' = [interested EXCEPT ![size + 1] = id],
         size' = size + 1
  PROVE  /\ Listed' = Listed \cup {id}
         /\ \A i \in 1 .. size : interested'[i] = interested[i]
         /\ interested'[size + 1] = id
<1>0. MaxListed \in Nat
  BY ConstantsAssumption
<1>1. size \in Nat /\ interested \in [1 .. MaxListed -> ObsIds]
  BY <1>0 DEF ListType, Buffers, Slots
<1>2. \A i \in 1 .. size : interested'[i] = interested[i]
  BY <1>0, <1>1
<1>3. size + 1 \in 1 .. size' /\ interested'[size + 1] = id
  BY <1>0, <1>1
<1>4. \A i \in 1 .. size' : i \in 1 .. size \/ i = size + 1
  BY <1>1
<1>5. \A i \in 1 .. size : i \in 1 .. size'
  BY <1>1
<1> QED
  BY <1>2, <1>3, <1>4, <1>5 DEF Listed

LEMMA EraseList ==
  ASSUME ListType, NEW id, NEW S, Erase(id),
         \A i, j \in 1 .. size :
           interested[i] = interested[j] => i = j \/ interested[i] \in S
  PROVE  /\ Listed' = Listed \ {id}
         /\ \A i, j \in 1 .. size' :
              interested'[i] = interested'[j]
                => i = j \/ interested'[i] \in S \ {id}
<1> DEFINE kept == {i \in 1 .. size : interested[i] # id}
<1>0. size' \in Nat /\ size' <= MaxListed
  <2>1. MaxListed \in Nat /\ size \in Nat /\ size <= MaxListed
    BY ConstantsAssumption DEF ListType
  <2> QED
    BY <2>1, EraseType
<1>1. PICK move \in [1 .. size' -> kept] :
        /\ \A i, j \in 1 .. size' : i < j => move[i] < move[j]
        /\ kept = {move[i] : i \in 1 .. size'}
        /\ interested' = [i \in Slots |->
                            IF i \in 1 .. size' THEN interested[move[i]]
                                                ELSE interested[i]]
  BY Zenon DEF Erase
<1>2. \A i \in 1 .. size' : move[i] \in kept /\ interested'[i] = interested[move[i]]
  BY <1>0, <1>1, ConstantsAssumption DEF Slots
<1>3. Listed' = Listed \ {id}
  <2>1. ASSUME NEW x \in Listed' PROVE x \in Listed \ {id}
    BY <1>2 DEF Listed
  <2>2. ASSUME NEW x \in Listed \ {id} PROVE x \in Listed'
    <3>1. PICK k \in kept : interested[k] = x
      BY DEF Listed
    <3>2. PICK i \in 1 .. size' : move[i] = k
      BY <1>1
    <3> QED
      BY <1>2, <3>1, <3>2 DEF Listed
  <2> QED
    BY <2>1, <2>2
<1>4. ASSUME NEW i \in 1 .. size', NEW j \in 1 .. size',
             interested'[i] = interested'[j], i # j
      PROVE  interested'[i] \in S \ {id}
  <2>1. move[i] \in Nat /\ move[j] \in Nat
    BY <1>2
  <2>2. move[i] # move[j]
    <3>1. i < j \/ j < i
      BY <1>0, <1>4
    <3> QED
      BY <1>1, <2>1, <3>1
  <2>3. interested[move[i]] = interested[move[j]]
    BY <1>2, <1>4
  <2>4. interested[move[i]] \in S /\ interested[move[i]] # id
    BY <1>2, <2>2, <2>3
  <2> QED
    BY <1>2, <2>4
<1> QED
  BY <1>3, <1>4

-----------------------------------------------------------------------------

(* Facts about the list that several steps use. *)
LEMMA ListFacts ==
  ASSUME Inv
  PROVE  /\ UINT8_MAX \in Nat
         /\ size \in Nat
         /\ job.id \in ObsIds
         /\ observers \subseteq ObsIds
<1>1. UINT8_MAX \in Nat /\ MaxListed \in Nat
  BY ConstantsAssumption
<1>2. ListType /\ job.id \in ObsIds /\ observers \subseteq ObsIds
  BY DEF Inv, TypeOK, JobType, StackType
<1>3. size \in Nat
  BY <1>1, <1>2 DEF ListType
<1> QED
  BY <1>1, <1>2, <1>3

(* The list keeps up with the stack, but for the observers that were lost. *)
LEMMA ListStep == Inv /\ Next => ListInv'
<1> DEFINE Twice == \A i, j \in 1 .. size : interested[i] = interested[j] =>
                                            i = j \/ interested[i] \in silent
<1> SUFFICES ASSUME Inv, Next PROVE ListInv'
  OBVIOUS
<1>0. job \in JobType /\ JobInv /\ ListInv /\ ListType
  BY DEF Inv, TypeOK
<1>t. Twice
  BY <1>0 DEF ListInv
<1>u. UNCHANGED <<job, observers, listVars>> => ListInv'
  BY <1>0 DEF ListInv, Listed, listVars
<1>l. ASSUME UNCHANGED listVars
      PROVE  Listed' = Listed /\ silent' = silent /\ size' = size /\ Twice'
  BY <1>t, <1>l DEF Listed, listVars
<1>i. job = Idle => Listed = observers \cup silent
  BY <1>0 DEF ListInv, Idle, Job
<1>1. ASSUME NEW o \in ObsIds, NEW d \in Devices, Register(o, d) PROVE ListInv'
  <2>1. /\ UNCHANGED listVars
        /\ job = Idle /\ o \notin observers /\ size < MaxListed
        /\ observers' = observers \cup {o}
        /\ job'.step = "register" /\ job'.id = o
    BY <1>1 DEF Register, Job
  <2> QED
    BY <2>1, <1>l, <1>i DEF ListInv
<1>2. ASSUME NEW o \in ObsIds, Deregister(o) PROVE ListInv'
  <2>1. /\ UNCHANGED listVars
        /\ job = Idle /\ o \in observers
        /\ observers' = observers \ {o}
        /\ job'.step = "leave" /\ job'.id = o
    BY <1>2 DEF Deregister, Delete, Job
  <2> QED
    BY <2>1, <1>l, <1>i DEF ListInv
<1>3. ASSUME NEW o \in observers, job = Idle, Lose(o),
             UNCHANGED <<job, bufferOfList>>
      PROVE  ListInv'
  <2>1. /\ UNCHANGED <<interested, size>>
        /\ observers' = observers \ {o}
        /\ silent' = silent \cup {o}
        /\ job'.step = "idle"
    BY <1>3 DEF bufferOfList, Lose, Delete, Idle, Job
  <2>2. Twice' /\ Listed' = Listed
    BY <2>1, <1>t DEF Listed
  <2>3. Listed' = observers' \cup silent'
    BY <2>1, <2>2, <1>3, <1>i
  <2> QED
    BY <2>1, <2>2, <2>3 DEF ListInv
<1>4. ASSUME NEW o \in ObsIds, FailedComm(o) PROVE ListInv'
  BY <1>4, <1>3, <1>u DEF FailedComm, bufferOfList, listVars
<1>5. ASSUME NEW o \in ObsIds, NotInterested(o) PROVE ListInv'
  BY <1>5, <1>3 DEF NotInterested
<1>s. ASSUME UNCHANGED <<observers, listVars>>,
             job.step \notin {"register", "leave"},
             job'.step \notin {"register", "leave"}
      PROVE  ListInv'
  BY <1>s, <1>0, <1>l DEF ListInv
<1>6. ASSUME NEW d \in Devices, PostRequest(d) PROVE ListInv'
  BY <1>6, <1>s DEF PostRequest, Idle, Job, stackVars
<1>7. ASSUME ObserveRegister PROVE ListInv'
  <2>1. /\ job.step = "register" /\ UNCHANGED <<observers, silent>>
        /\ interested' = [interested EXCEPT ![size + 1] = job.id]
        /\ size' = size + 1
        /\ job' = [job EXCEPT !.step = "start"]
    BY <1>7 DEF ObserveRegister, stackVars
  <2>2. /\ job.id \in observers /\ Listed = (observers \ {job.id}) \cup silent
        /\ size < MaxListed /\ size \in Nat /\ job.id \in ObsIds
    BY <2>1, <1>0, ListFacts DEF ListInv
  <2>3. /\ Listed' = Listed \cup {job.id}
        /\ \A i \in 1 .. size : interested'[i] = interested[i]
        /\ interested'[size + 1] = job.id
    BY <2>1, <2>2, <1>0, PushBackList
  <2>4. job'.step = "start"
    BY <2>1, <1>0 DEF JobType
  <2>5. Listed' = observers' \cup silent'
    BY <2>1, <2>2, <2>3
  <2>6. \A i \in 1 .. size : interested[i] = job.id => job.id \in silent
    BY <2>2 DEF Listed
  <2>7. \A i \in 1 .. size' : i \in 1 .. size \/ i = size + 1
    BY <2>1, <2>2
  <2>8. Twice'
    BY <2>1, <2>3, <2>6, <2>7, <1>t
  <2> QED
    BY <2>4, <2>5, <2>8 DEF ListInv
<1>8. ASSUME ObserveUnregister PROVE ListInv'
  <2>1. /\ job.step = "leave" /\ UNCHANGED observers
        /\ Erase(job.id)
        /\ silent' = silent \ {job.id}
        /\ job' = [job EXCEPT !.step = "start"]
    BY <1>8 DEF ObserveUnregister, stackVars
  <2>2. /\ job.id \notin observers
        /\ Listed = observers \cup silent \cup {job.id}
    BY <2>1, <1>0 DEF ListInv
  <2>3. Listed' = Listed \ {job.id} /\ Twice'
    BY <2>1, <1>0, <1>t, EraseList
  <2>4. job'.step = "start"
    BY <2>1, <1>0 DEF JobType
  <2>5. Listed' = observers' \cup silent'
    BY <2>1, <2>2, <2>3
  <2> QED
    BY <2>3, <2>4, <2>5 DEF ListInv
<1>9. ASSUME StartThread PROVE ListInv'
  BY <1>9, <1>s DEF StartThread, Idle, Job, stackVars
<1>11. ASSUME AddResourceTable PROVE ListInv'
  <2>1. job.step = "post" /\ job' = [job EXCEPT !.step = "entries"]
    BY <1>11 DEF AddResourceTable
  <2>2. job'.step = "entries"
    BY <2>1, <1>0 DEF JobType
  <2> QED
    BY <1>11, <2>1, <2>2, <1>s DEF AddResourceTable, stackVars
<1>12. ASSUME Post PROVE ListInv'
  BY <1>12, <1>s DEF Post, Idle, Job, stackVars
<1> QED
  BY StepCases, <1>u, <1>1, <1>2, <1>4, <1>5, <1>6, <1>7, <1>8, <1>9, <1>11,
     <1>12
  DEF StillInterested, RedisException, RedisFails, Wake, NotifyBegin, NotifyOne,
      NotifyEnd, StopNotify, stackVars

-----------------------------------------------------------------------------

(* A round is not affected by a step that leaves the lists alone and takes no
   observer away, ... *)
LEMMA RoundFrame ==
  ASSUME Inv, UNCHANGED <<listVars, threadVars>>,
         observers \subseteq observers',
         ~Leaving'
  PROVE  RoundInv'
<1> SUFFICES ASSUME NEW t \in Threads PROVE RoundInvOf(t)'
  BY DEF RoundInv
<1>1. RoundInvOf(t)
  BY DEF Inv, RoundInv
<1>2. UNCHANGED <<interested, size, pc, next, count, sent, failed, stale, view,
                  disturbed>>
  BY DEF listVars, threadVars, roundVars, bufferVars
<1>3. ASSUME CleanRound(t) PROVE CleanRound(t)'
  BY <1>2, <1>3 DEF CleanRound, Slot
<1> QED
  BY <1>1, <1>2, <1>3 DEF RoundInvOf, InRound

(* ... nor by one that marks it as disturbed, ... *)
LEMMA RoundDisturbed ==
  ASSUME Inv, UNCHANGED <<pc, roundVars, bufferVars>>, Disturb
  PROVE  RoundInv'
<1> SUFFICES ASSUME NEW t \in Threads PROVE RoundInvOf(t)'
  BY DEF RoundInv
<1>1. RoundInvOf(t)
  BY DEF Inv, RoundInv
<1>2. UNCHANGED <<pc, next, count, stale>>
  BY DEF roundVars, bufferVars
<1>3. InRound(t) => disturbed'[t]
  BY Zenon DEF Disturb
<1> QED
  BY <1>1, <1>2, <1>3 DEF RoundInvOf, InRound

(* ... nor by what another thread does. *)
LEMMA RoundOther ==
  ASSUME Inv, NEW t \in Threads, UNCHANGED <<job, observers, listVars>>,
         \A u \in Threads \ {t} :
           /\ pc'[u] = pc[u] /\ next'[u] = next[u] /\ count'[u] = count[u]
           /\ sent'[u] = sent[u] /\ failed'[u] = failed[u]
           /\ stale'[u] = stale[u] /\ view'[u] = view[u]
           /\ disturbed'[u] = disturbed[u],
         RoundInvOf(t)'
  PROVE  RoundInv'
<1> SUFFICES ASSUME NEW u \in Threads \ {t} PROVE RoundInvOf(u)'
  BY DEF RoundInv
<1>1. RoundInvOf(u)
  BY DEF Inv, RoundInv
<1>2. UNCHANGED <<interested, size, job, observers>>
  BY DEF listVars
<1>3. ASSUME CleanRound(u) PROVE CleanRound(u)'
  BY <1>2, <1>3 DEF CleanRound, Slot, Leaving
<1> QED
  BY <1>1, <1>3 DEF RoundInvOf, InRound

(* A round that nothing disturbs stays clean. *)
LEMMA RoundStep == Inv /\ Next => RoundInv'
<1> SUFFICES ASSUME Inv, Next PROVE RoundInv'
  OBVIOUS
<1>0. job \in JobType /\ JobInv /\ ListInv /\ ListType /\ RoundInv /\ RoundType
  BY DEF Inv, TypeOK
<1>u. UNCHANGED <<job, observers, listVars, threadVars>> => RoundInv'
  <2> SUFFICES ASSUME UNCHANGED <<job, observers, listVars, threadVars>>,
                      NEW t \in Threads
               PROVE  RoundInvOf(t)'
    BY DEF RoundInv
  <2>2. UNCHANGED <<interested, size, pc, next, count, sent, failed, stale, view,
                    disturbed>>
    BY DEF listVars, threadVars, roundVars, bufferVars
  <2> QED
    BY <1>0, <2>2 DEF RoundInv, RoundInvOf, CleanRound, Slot, InRound, Leaving
<1>1. ASSUME NEW o \in ObsIds, NEW d \in Devices, Register(o, d) PROVE RoundInv'
  BY <1>1, RoundFrame DEF Register, Job, Leaving
<1>2. ASSUME NEW o \in ObsIds, Deregister(o) PROVE RoundInv'
  BY <1>2, RoundDisturbed DEF Deregister
<1>4. ASSUME NEW o \in ObsIds, FailedComm(o) PROVE RoundInv'
  <2>1. UNCHANGED disturbed => UNCHANGED threadVars
    BY <1>4 DEF FailedComm, threadVars
  <2>2. CASE UNCHANGED <<observers, silent, disturbed>>
    BY <1>4, <2>1, <2>2, <1>u DEF FailedComm, bufferOfList, listVars
  <2> QED
    BY <1>4, <2>2, RoundDisturbed DEF FailedComm
<1>5. ASSUME NEW o \in ObsIds, NotInterested(o) PROVE RoundInv'
  BY <1>5, RoundDisturbed DEF NotInterested
<1>6. ASSUME NEW d \in Devices, PostRequest(d) PROVE RoundInv'
  BY <1>6, RoundFrame DEF PostRequest, Job, Leaving, stackVars
<1>7. ASSUME ObserveRegister PROVE RoundInv'
  <2> SUFFICES ASSUME NEW t \in Threads PROVE RoundInvOf(t)'
    BY DEF RoundInv
  <2>1. /\ job.step = "register"
        /\ interested' = [interested EXCEPT ![size + 1] = job.id]
        /\ size' = size + 1
        /\ job' = [job EXCEPT !.step = "start"]
        /\ UNCHANGED <<observers, pc, next, count, sent, failed, disturbed>>
    BY <1>7 DEF ObserveRegister, stackVars, roundVars
  <2>3. ~Leaving'
    BY <2>1, <1>0 DEF JobType, Leaving
  <2>4. \A i \in 1 .. size : interested'[i] = interested[i]
    BY <2>1, <1>0, ListFacts, PushBackList DEF ListInv
  <2>5. size = capacity => Reallocate
    BY <1>7 DEF ObserveRegister
  <2>6. size # capacity => UNCHANGED <<stale, view>>
    BY <1>7 DEF ObserveRegister, bufferVars
  <2>7. /\ stale'[t] \in BOOLEAN
        /\ stale'[t] => stale[t] \/ InRound(t)
        /\ stale[t] => stale'[t] /\ view'[t] = view[t]
        /\ stale'[t] /\ ~stale[t] => view'[t] = interested
    <3>0. stale[t] \in BOOLEAN
      BY <1>0 DEF RoundType
    <3>1. CASE size # capacity
      BY <2>6, <3>0, <3>1
    <3>2. CASE size = capacity
      <4>1. Reallocate
        BY <2>5, <3>2
      <4>2. stale' = [s \in Threads |-> stale[s] \/ InRound(s)]
        BY <4>1 DEF Reallocate
      <4>4. stale'[t] = (stale[t] \/ InRound(t))
        BY <4>2, Zenon
      <4>3. view'[t] = IF InRound(t) /\ ~stale[t] THEN interested ELSE view[t]
        BY <4>1, Zenon DEF Reallocate
      <4> QED
        BY <3>0, <4>3, <4>4 DEF InRound
    <3> QED
      BY <3>1, <3>2
  <2>8. ASSUME InRound(t), CleanRound(t) PROVE CleanRound(t)'
    <3>1. /\ sent[t] = next[t] - 1
          /\ ~failed[t]
          /\ ~stale[t] => count[t] <= size
          /\ \A i \in 1 .. count[t] : Slot(t, i) \in observers
      BY <2>8 DEF CleanRound
    <3>2. count[t] \in Nat /\ size \in Nat /\ stale[t] \in BOOLEAN
      BY <1>0, ListFacts DEF RoundType
    <3>3. ASSUME NEW i \in 1 .. count[t] PROVE Slot(t, i)' = Slot(t, i)
      <4>1. CASE stale[t]
        BY <2>7, <4>1 DEF Slot
      <4>2. CASE ~stale[t]
        <5>1. i \in 1 .. size
          BY <3>1, <3>2, <3>3, <4>2
        <5> QED
          BY <2>4, <2>7, <4>2, <5>1 DEF Slot
      <4> QED
        BY <4>1, <4>2
    <3>4. ~stale'[t] => count[t] <= size'
      BY <2>1, <2>7, <3>1, <3>2
    <3> QED
      BY <2>1, <2>3, <3>1, <3>3, <3>4 DEF CleanRound
  <2>9. RoundInvOf(t)
    BY <1>0 DEF RoundInv
  <2> QED
    BY <2>1, <2>7, <2>8, <2>9 DEF RoundInvOf, InRound
<1>8. ASSUME ObserveUnregister PROVE RoundInv'
  <2> SUFFICES ASSUME NEW t \in Threads PROVE RoundInvOf(t)'
    BY DEF RoundInv
  <2>1. UNCHANGED <<pc, next, count, stale, disturbed>> /\ Leaving
    BY <1>8 DEF ObserveUnregister, threadVars, roundVars, bufferVars, Leaving
  <2>2. RoundInvOf(t)
    BY <1>0 DEF RoundInv
  <2>3. InRound(t) => disturbed[t]
    BY <2>1, <2>2 DEF RoundInvOf, CleanRound
  <2> QED
    BY <2>1, <2>2, <2>3 DEF RoundInvOf, InRound
<1>9. ASSUME StartThread PROVE RoundInv'
  <2> SUFFICES ASSUME NEW t \in Threads PROVE RoundInvOf(t)'
    BY DEF RoundInv
  <2>1. /\ job.step = "start"
        /\ job' = Idle
        /\ UNCHANGED <<observers, interested, size, next, count, sent, failed,
                       stale, view, disturbed>>
    BY <1>9 DEF StartThread, stackVars, listVars, roundVars, bufferVars
  <2>2. InRound(t)' = InRound(t)
    <3>1. \/ UNCHANGED pc
          \/ \E u \in Threads : pc[u] = "none" /\ pc' = [pc EXCEPT ![u] = "sleep"]
      BY <1>9 DEF StartThread
    <3> QED
      BY <3>1, <1>0 DEF InRound, RoundType
  <2>3. ~Leaving'
    BY <2>1 DEF Leaving, Idle, Job
  <2>4. ASSUME CleanRound(t) PROVE CleanRound(t)'
    BY <2>1, <2>3, <2>4 DEF CleanRound, Slot
  <2>5. RoundInvOf(t)
    BY <1>0 DEF RoundInv
  <2> QED
    BY <2>1, <2>2, <2>4, <2>5 DEF RoundInvOf
<1>11. ASSUME AddResourceTable PROVE RoundInv'
  <2>1. UNCHANGED <<observers, listVars, threadVars>> /\ ~Leaving'
    BY <1>11, <1>0 DEF AddResourceTable, stackVars, JobType, Leaving
  <2> QED
    BY <2>1, RoundFrame
<1>12. ASSUME Post PROVE RoundInv'
  BY <1>12, RoundFrame DEF Post, stackVars, Idle, Job, Leaving
<1>13. ASSUME NEW t \in Threads, UNCHANGED <<job, observers, listVars>>,
              pc[t] # "round", pc'[t] # "round",
              UNCHANGED <<roundVars, bufferVars>>,
              \A u \in Threads \ {t} : disturbed'[u] = disturbed[u],
              pc' = [pc EXCEPT ![t] = pc'[t]]
       PROVE  RoundInv'
  <2>1. UNCHANGED <<next, count, sent, failed, stale, view>>
    BY <1>13 DEF roundVars, bufferVars
  <2>2. \A u \in Threads \ {t} : pc'[u] = pc[u]
    BY <1>13, <1>0 DEF RoundType
  <2>3. RoundInvOf(t)
    BY <1>0 DEF RoundInv
  <2>4. RoundInvOf(t)'
    BY <1>13, <2>1, <2>3 DEF RoundInvOf, InRound
  <2> QED
    BY <1>13, <2>1, <2>2, <2>4, RoundOther
<1>14. ASSUME NEW t \in Threads, Wake(t) PROVE RoundInv'
  <2>1. /\ pc[t] = "sleep" /\ pc \in [Threads -> {"none", "sleep", "notify",
                                      "round", "stop", "thrown"}]
        /\ \/ pc' = [pc EXCEPT ![t] = "notify"]
           \/ pc' = [pc EXCEPT ![t] = "none"]
    BY <1>14, <1>0 DEF Wake, RoundType
  <2>2. pc'[t] # "round" /\ pc' = [pc EXCEPT ![t] = pc'[t]]
    BY <2>1
  <2> QED
    BY <1>14, <2>1, <2>2, <1>13 DEF Wake, stackVars
<1>15. ASSUME NEW t \in Threads, StopNotify(t) PROVE RoundInv'
  <2>1. /\ pc[t] = "stop" /\ pc \in [Threads -> {"none", "sleep", "notify",
                                     "round", "stop", "thrown"}]
        /\ pc' = [pc EXCEPT ![t] = "sleep"]
    BY <1>15, <1>0 DEF StopNotify, RoundType
  <2>2. pc'[t] # "round" /\ pc' = [pc EXCEPT ![t] = pc'[t]]
    BY <2>1
  <2>3. \A u \in Threads \ {t} : disturbed'[u] = disturbed[u]
    BY <1>15, <1>0 DEF StopNotify, RoundType
  <2> QED
    BY <1>15, <2>1, <2>2, <2>3, <1>13 DEF StopNotify, stackVars
<1>16. ASSUME NEW t \in Threads, NotifyBegin(t) PROVE RoundInv'
  <2>0. size \in Nat
    BY ListFacts
  <2>1. CASE size > UINT8_MAX
    <3>1. ~(size <= UINT8_MAX)
      BY ListFacts, <2>1
    <3> QED
      BY <1>16, <3>1, <1>u DEF NotifyBegin, stackVars, threadVars
  <2>2. CASE ~(size > UINT8_MAX)
    <3>1. /\ pc[t] = "notify"
          /\ pc' = [pc EXCEPT ![t] = "round"]
          /\ next' = [next EXCEPT ![t] = 1]
          /\ count' = [count EXCEPT ![t] = size]
          /\ sent' = [sent EXCEPT ![t] = 0]
          /\ failed' = [failed EXCEPT ![t] = FALSE]
          /\ disturbed' = [disturbed EXCEPT ![t] = ~AllObserved]
          /\ UNCHANGED <<job, observers, listVars, stale, view>>
      BY <1>16, <2>2 DEF NotifyBegin, stackVars, bufferVars
    <3>2. /\ next'[t] = 1 /\ count'[t] = size /\ sent'[t] = 0
          /\ ~failed'[t] /\ pc'[t] = "round"
      BY <3>1, <1>0 DEF RoundType
    <3>3. ~stale'[t] /\ UNCHANGED <<interested, size>>
      BY <3>1, <1>0 DEF RoundInv, RoundInvOf, InRound, listVars
    <3>4. disturbed'[t] = ~AllObserved
      BY <3>1, <1>0, Zenon DEF RoundType
    <3>5. ASSUME AllObserved PROVE CleanRound(t)'
      <4>1. ~Leaving
        BY <3>5, <1>0 DEF ListInv, Leaving, AllObserved
      <4>2. \A j \in 1 .. size : interested[j] \in observers
        BY <3>5 DEF Listed, AllObserved
      <4>3. ~Leaving' /\ observers' = observers
        BY <3>1, <4>1 DEF Leaving
      <4> QED
        BY <2>0, <3>2, <3>3, <4>2, <4>3 DEF CleanRound, Slot
    <3>b. ~disturbed'[t] => CleanRound(t)'
      BY <3>4, <3>5, Zenon
    <3>6. RoundInvOf(t)'
      BY <2>0, <3>2, <3>3, <3>b DEF RoundInvOf, InRound
    <3>7. \A u \in Threads \ {t} :
            /\ pc'[u] = pc[u] /\ next'[u] = next[u] /\ count'[u] = count[u]
            /\ sent'[u] = sent[u] /\ failed'[u] = failed[u]
            /\ stale'[u] = stale[u] /\ view'[u] = view[u]
            /\ disturbed'[u] = disturbed[u]
      BY <3>1, <1>0 DEF RoundType
    <3> QED
      BY <3>1, <3>6, <3>7, RoundOther
  <2> QED
    BY <2>1, <2>2
<1>17. ASSUME NEW t \in Threads, NotifyOne(t) PROVE RoundInv'
  <2>1. /\ InRound(t) /\ next[t] <= count[t]
        /\ next' = [next EXCEPT ![t] = next[t] + 1]
        /\ UNCHANGED <<job, observers, listVars, interested, size, pc, count,
                       stale, view>>
    BY <1>17 DEF NotifyOne, stackVars, listVars, bufferVars
  <2>2. next[t] \in Nat /\ next[t] >= 1 /\ count[t] \in Nat /\ sent[t] \in Nat
    BY <1>0, ConstantsAssumption DEF RoundType
  <2>3. PICK o \in Readable(t) :
          \/ o \notin observers /\ UNCHANGED <<sent, failed>>
          \/ /\ o \in observers
             /\ sent' = [sent EXCEPT ![t] = sent[t] + 1]
             /\ UNCHANGED failed
          \/ /\ failed' = [failed EXCEPT ![t] = TRUE]
             /\ UNCHANGED sent
    BY <1>17 DEF NotifyOne
  <2>4. ASSUME ~disturbed'[t]
        PROVE  ~disturbed[t] /\ ~failed'[t] /\ ~(stale[t] /\ "reuse" \in Faults)
    <3>1. disturbed'[t] = \/ disturbed[t]
                          \/ failed'[t]
                          \/ stale[t] /\ "reuse" \in Faults
      BY <1>17, <1>0, Zenon DEF NotifyOne, RoundType
    <3> QED
      BY <2>4, <3>1, Zenon
  <2>5. RoundInvOf(t)
    BY <1>0 DEF RoundInv
  <2>6. ASSUME ~disturbed'[t] PROVE CleanRound(t)'
    <3>1. CleanRound(t) /\ ~failed'[t] /\ ~(stale[t] /\ "reuse" \in Faults)
      BY <2>1, <2>4, <2>5, <2>6 DEF RoundInvOf
    <3>2. o = Slot(t, next[t])
      BY <3>1, <2>3 DEF Readable, Slot
    <3>4. o \in observers
      BY <2>1, <2>2, <3>1, <3>2 DEF CleanRound
    <3>5. sent' = [sent EXCEPT ![t] = sent[t] + 1]
      <4>1. failed' # [failed EXCEPT ![t] = TRUE]
        BY <3>1, <1>0 DEF RoundType
      <4> QED
        BY <2>3, <3>4, <4>1
    <3>6. sent'[t] = sent[t] + 1 /\ next'[t] = next[t] + 1
      BY <2>1, <3>5, <1>0 DEF RoundType
    <3>7. sent'[t] = next'[t] - 1
      BY <2>2, <3>1, <3>6 DEF CleanRound
    <3> QED
      BY <2>1, <3>1, <3>7 DEF CleanRound, Slot, Leaving
  <2>7. RoundInvOf(t)'
    <3>1. next'[t] = next[t] + 1
      BY <2>1, <1>0 DEF RoundType
    <3>2. next'[t] <= count'[t] + 1
      BY <2>1, <2>2, <3>1
    <3> QED
      BY <2>1, <2>5, <2>6, <3>2 DEF RoundInvOf, InRound
  <2>8. \A u \in Threads \ {t} : disturbed'[u] = disturbed[u]
    BY <1>17, <1>0, Zenon DEF NotifyOne, RoundType
  <2>9. \A u \in Threads \ {t} : next'[u] = next[u] /\ sent'[u] = sent[u]
                                 /\ failed'[u] = failed[u]
    <3>1. \A u \in Threads \ {t} : next'[u] = next[u]
      BY <2>1, <1>0 DEF RoundType
    <3>2. CASE UNCHANGED <<sent, failed>>
      BY <3>1, <3>2
    <3>3. CASE sent' = [sent EXCEPT ![t] = sent[t] + 1] /\ UNCHANGED failed
      BY <3>1, <3>3, <1>0 DEF RoundType
    <3>4. CASE failed' = [failed EXCEPT ![t] = TRUE] /\ UNCHANGED sent
      BY <3>1, <3>4, <1>0 DEF RoundType
    <3> QED
      BY <2>3, <3>2, <3>3, <3>4
  <2> QED
    BY <2>1, <2>7, <2>8, <2>9, RoundOther
<1>18. ASSUME NEW t \in Threads, NotifyEnd(t) PROVE RoundInv'
  <2>1. /\ next' = [next EXCEPT ![t] = 1]
        /\ count' = [count EXCEPT ![t] = 0]
        /\ sent' = [sent EXCEPT ![t] = 0]
        /\ failed' = [failed EXCEPT ![t] = FALSE]
        /\ stale' = [stale EXCEPT ![t] = FALSE]
        /\ view' = [view EXCEPT ![t] = EmptyBuffer]
        /\ UNCHANGED <<job, observers, listVars>>
    BY <1>18 DEF NotifyEnd, stackVars
  <2>2. \/ pc' = [pc EXCEPT ![t] = "sleep"]
        \/ pc' = [pc EXCEPT ![t] = "stop"]
        \/ pc' = [pc EXCEPT ![t] = "thrown"]
    BY <1>18 DEF NotifyEnd
  <2>3. pc'[t] # "round" /\ \A u \in Threads \ {t} : pc'[u] = pc[u]
    BY <2>2, <1>0 DEF RoundType
  <2>4. ~stale'[t]
    BY <2>1, <1>0 DEF RoundType
  <2>5. RoundInvOf(t)'
    BY <2>3, <2>4 DEF RoundInvOf, InRound
  <2>6. \A u \in Threads \ {t} :
          /\ next'[u] = next[u] /\ count'[u] = count[u]
          /\ sent'[u] = sent[u] /\ failed'[u] = failed[u]
          /\ stale'[u] = stale[u] /\ view'[u] = view[u]
    BY <2>1, <1>0 DEF RoundType
  <2>7. \A u \in Threads \ {t} : disturbed'[u] = disturbed[u]
    BY <1>18, <1>0, Zenon DEF NotifyEnd, RoundType
  <2> QED
    BY <2>1, <2>3, <2>5, <2>6, <2>7, RoundOther
<1>19. ASSUME NEW o \in ObsIds, StillInterested(o) PROVE RoundInv'
  BY <1>19, <1>u DEF StillInterested
<1>20. ASSUME RedisException \/ RedisFails PROVE RoundInv'
  BY <1>20, <1>u DEF RedisException, RedisFails, stackVars
<1> QED
  BY StepCases, <1>1, <1>2, <1>4, <1>5, <1>6, <1>7, <1>8, <1>9, <1>11, <1>12,
     <1>14, <1>15, <1>16, <1>17, <1>18, <1>19, <1>20

-----------------------------------------------------------------------------

(* The flag and the threads it has admitted. *)
LEMMA FlagStep ==
  Inv /\ Next => StartedMeansRunning' /\ FlagInv' /\ OneNotifierUntilStopped'
<1> DEFINE Goal == StartedMeansRunning /\ FlagInv /\ OneNotifierUntilStopped
<1> SUFFICES ASSUME Inv, Next PROVE Goal'
  OBVIOUS
<1>0. Goal /\ server = "up" /\ RoundType
  BY DEF Inv, TypeOK, Next
<1>u. UNCHANGED <<flagVars, pc>> => Goal'
  BY <1>0 DEF StartedMeansRunning, FlagInv, OneNotifierUntilStopped, Alive,
     flagVars
<1>a. ASSUME NEW t \in Threads, UNCHANGED flagVars,
             pc' = [pc EXCEPT ![t] = pc'[t]],
             Alive(t) <=> Alive(t)'
      PROVE  Goal'
  <2>1. \A u \in Threads : Alive(u)' <=> Alive(u)
    BY <1>a, <1>0 DEF Alive, RoundType
  <2> QED
    BY <1>a, <1>0, <2>1 DEF StartedMeansRunning, FlagInv,
       OneNotifierUntilStopped, flagVars
<1>1. ASSUME StartThread PROVE Goal'
  <2>1. CASE m_isStartedThread
    BY <1>1, <2>1, <1>u DEF StartThread, flagVars
  <2>2. CASE ~m_isStartedThread
    <3>1. /\ m_isStartedThread'
          /\ stopped' = stopped
      BY <1>1, <2>2 DEF StartThread
    <3>2. PICK t \in Threads : pc[t] = "none" /\ pc' = [pc EXCEPT ![t] = "sleep"]
      BY <1>1, <2>2 DEF StartThread
    <3>3. Alive(t)' /\ \A u \in Threads \ {t} : Alive(u)' <=> Alive(u)
      BY <3>2, <1>0 DEF Alive, RoundType
    <3>4. ~stopped => \A u \in Threads : ~Alive(u)
      BY <2>2, <1>0 DEF FlagInv
    <3> QED
      BY <3>1, <3>3, <3>4 DEF StartedMeansRunning, FlagInv,
         OneNotifierUntilStopped
  <2> QED
    BY <2>1, <2>2
<1>2. ASSUME NEW t \in Threads, Wake(t) PROVE Goal'
  <2>1. pc[t] = "sleep" /\ UNCHANGED flagVars
    BY <1>2 DEF Wake
  <2>2. CASE m_isStartedThread
    <3>1. pc' = [pc EXCEPT ![t] = "notify"]
      BY <1>2, <2>2 DEF Wake
    <3>2. pc'[t] = "notify"
      BY <3>1, <1>0 DEF RoundType
    <3> QED
      BY <2>1, <3>1, <3>2, <1>a DEF Alive
  <2>3. CASE ~m_isStartedThread
    <3>1. pc' = [pc EXCEPT ![t] = "none"]
      BY <1>2, <2>3 DEF Wake
    <3>2. \A u \in Threads : Alive(u)' => Alive(u)
      BY <3>1, <1>0 DEF Alive, RoundType
    <3> QED
      BY <2>1, <2>3, <3>2, <1>0 DEF StartedMeansRunning, FlagInv,
         OneNotifierUntilStopped, flagVars
  <2> QED
    BY <2>2, <2>3
<1>3. ASSUME NEW t \in Threads, NotifyBegin(t) PROVE Goal'
  <2>1. \/ UNCHANGED pc
        \/ pc' = [pc EXCEPT ![t] = "round"]
    BY <1>3 DEF NotifyBegin
  <2>2. pc[t] = "notify" /\ UNCHANGED flagVars
    BY <1>3 DEF NotifyBegin
  <2>3. CASE pc' = [pc EXCEPT ![t] = "round"]
    <3>1. pc'[t] = "round"
      BY <2>3, <1>0 DEF RoundType
    <3> QED
      BY <2>2, <2>3, <3>1, <1>a DEF Alive
  <2> QED
    BY <2>1, <2>2, <2>3, <1>u
<1>4. ASSUME NEW t \in Threads, NotifyEnd(t) PROVE Goal'
  <2>1. pc[t] = "round" /\ UNCHANGED flagVars
    BY <1>4 DEF NotifyEnd, InRound
  <2>2. \/ pc' = [pc EXCEPT ![t] = "sleep"]
        \/ pc' = [pc EXCEPT ![t] = "stop"]
        \/ pc' = [pc EXCEPT ![t] = "thrown"] /\ server' = "notify exception"
    BY <1>4 DEF NotifyEnd
  <2>3. CASE pc' = [pc EXCEPT ![t] = "sleep"]
    <3>1. pc'[t] = "sleep"
      BY <2>3, <1>0 DEF RoundType
    <3> QED
      BY <2>1, <2>3, <3>1, <1>a DEF Alive
  <2>4. CASE pc' = [pc EXCEPT ![t] = "stop"]
    <3>1. pc'[t] = "stop"
      BY <2>4, <1>0 DEF RoundType
    <3> QED
      BY <2>1, <2>4, <3>1, <1>a DEF Alive
  <2>5. CASE pc' = [pc EXCEPT ![t] = "thrown"] /\ server' = "notify exception"
    <3>1. \A u \in Threads : Alive(u)' => Alive(u)
      BY <2>5, <1>0 DEF Alive, RoundType
    <3> QED
      BY <2>1, <2>5, <3>1, <1>0 DEF StartedMeansRunning, FlagInv,
         OneNotifierUntilStopped, flagVars
  <2> QED
    BY <2>2, <2>3, <2>4, <2>5
<1>5. ASSUME NEW t \in Threads, StopNotify(t) PROVE Goal'
  BY <1>5 DEF StopNotify, StartedMeansRunning, FlagInv, OneNotifierUntilStopped
<1> QED
  BY StepCases, <1>u, <1>1, <1>2, <1>3, <1>4, <1>5
  DEF Register, Deregister, NotInterested, FailedComm, StillInterested,
      PostRequest, ObserveRegister, ObserveUnregister, AddResourceTable,
      Post, RedisException, RedisFails, NotifyOne, threadVars

(* A clean round ends with OC_STACK_OK. *)
LEMMA DisturbedStep == Inv /\ Next => OnlyDisturbedRoundsFail'
<1> SUFFICES ASSUME Inv, Next, NEW u \in Threads, pc'[u] \in {"stop", "thrown"}
             PROVE  disturbed'[u]
  BY DEF OnlyDisturbedRoundsFail
<1>0. RoundType /\ RoundInvOf(u)
      /\ (pc[u] \in {"stop", "thrown"} => disturbed[u])
  BY DEF Inv, TypeOK, RoundInv, OnlyDisturbedRoundsFail
<1>d. Disturb /\ UNCHANGED pc => disturbed'[u]
  <2>1. ASSUME Disturb PROVE disturbed[u] => disturbed'[u]
    BY <2>1, Zenon DEF Disturb
  <2> QED
    BY <2>1, <1>0
<1>u. UNCHANGED <<pc, disturbed>> => disturbed'[u]
  BY <1>0
<1>1. ASSUME StartThread PROVE disturbed'[u]
  <2>1. pc'[u] = pc[u]
    BY <1>1, <1>0 DEF StartThread, RoundType
  <2> QED
    BY <1>0, <1>1, <2>1 DEF StartThread
<1>2. ASSUME NEW t \in Threads, Wake(t) PROVE disturbed'[u]
  <2>1. \/ pc' = [pc EXCEPT ![t] = "notify"]
        \/ pc' = [pc EXCEPT ![t] = "none"]
    BY <1>2 DEF Wake
  <2>2. pc'[u] = pc[u]
    BY <2>1, <1>0 DEF RoundType
  <2> QED
    BY <1>0, <1>2, <2>2 DEF Wake
<1>6. ASSUME NEW t \in Threads, StopNotify(t) PROVE disturbed'[u]
  <2>1. u # t /\ pc'[u] = pc[u]
    BY <1>6, <1>0 DEF StopNotify, RoundType
  <2>2. disturbed'[u] = disturbed[u]
    BY <1>6, <2>1, <1>0 DEF StopNotify, RoundType
  <2> QED
    BY <1>0, <2>1, <2>2
<1>3. ASSUME NEW t \in Threads, NotifyBegin(t) PROVE disturbed'[u]
  <2>1. CASE UNCHANGED <<pc, disturbed>>
    BY <2>1, <1>u
  <2>2. CASE /\ pc' = [pc EXCEPT ![t] = "round"]
             /\ disturbed' = [disturbed EXCEPT ![t] = ~AllObserved]
    <3>1. u # t /\ pc'[u] = pc[u]
      BY <2>2, <1>0 DEF RoundType
    <3>2. disturbed'[u] = disturbed[u]
      BY <2>2, <3>1, <1>0 DEF RoundType
    <3> QED
      BY <1>0, <3>1, <3>2
  <2> QED
    BY <1>3, <2>1, <2>2 DEF NotifyBegin
<1>4. ASSUME NEW t \in Threads, NotifyOne(t) PROVE disturbed'[u]
  <2>1. UNCHANGED pc /\ pc[t] = "round"
    BY <1>4 DEF NotifyOne, InRound
  <2>2. u # t
    BY <2>1
  <2>3. disturbed'[u] = disturbed[u]
    BY <1>4, <2>2, <1>0, Zenon DEF NotifyOne, RoundType
  <2> QED
    BY <1>0, <2>1, <2>3
<1>5. ASSUME NEW t \in Threads, NotifyEnd(t) PROVE disturbed'[u]
  <2>0. InRound(t) /\ next[t] > count[t]
    BY <1>5 DEF NotifyEnd
  <2>4. disturbed'[u] = IF u = t THEN disturbed[t] /\ ~RoundOK(t) ELSE disturbed[u]
    BY <1>5, <1>0, Zenon DEF NotifyEnd, RoundType
  <2>1. \/ pc' = [pc EXCEPT ![t] = "sleep"]
        \/ ~RoundOK(t) /\ pc' = [pc EXCEPT ![t] = "stop"]
        \/ ~RoundOK(t) /\ pc' = [pc EXCEPT ![t] = "thrown"]
    BY <1>5 DEF NotifyEnd
  <2>2. CASE u # t
    <3>1. pc'[u] = pc[u]
      BY <2>1, <2>2, <1>0 DEF RoundType
    <3> QED
      BY <1>0, <2>2, <2>4, <3>1
  <2>3. CASE u = t
    <3>1. ~RoundOK(u)
      <4>1. pc' # [pc EXCEPT ![t] = "sleep"]
        BY <2>3, <1>0 DEF RoundType
      <4> QED
        BY <2>1, <2>3, <4>1
    <3>2. ASSUME ~disturbed[u] PROVE RoundOK(u)
      <4>1. sent[u] = next[u] - 1 /\ ~failed[u] /\ next[u] <= count[u] + 1
        BY <2>0, <2>3, <3>2, <1>0 DEF RoundInvOf, CleanRound
      <4>2. next[u] \in Int /\ count[u] \in Int /\ next[u] > count[u]
        BY <2>0, <2>3, <1>0, ConstantsAssumption DEF RoundType
      <4>3. sent[u] = count[u]
        BY <4>1, <4>2
      <4> QED
        BY <4>1, <4>3 DEF RoundOK
    <3> QED
      BY <2>3, <2>4, <3>1, <3>2, Zenon
  <2> QED
    BY <2>2, <2>3
<1> QED
  BY StepCases, <1>d, <1>u, <1>1, <1>2, <1>3, <1>4, <1>5, <1>6
  DEF Register, Deregister, NotInterested, FailedComm, StillInterested,
      PostRequest, ObserveRegister, ObserveUnregister, AddResourceTable,
      Post, RedisException, RedisFails, threadVars

(* The table and the hashes. *)
LEMMA TableStep == Inv /\ Next => TableInv' /\ EntriesNeedMembership'
<1> SUFFICES ASSUME Inv, Next PROVE TableInv' /\ EntriesNeedMembership'
  OBVIOUS
<1>0. TableInv /\ EntriesNeedMembership /\ RedisType /\ JobInv /\ job \in JobType
  BY DEF Inv, TypeOK
<1>u. UNCHANGED <<resource_table, devices, alive>>
        => TableInv' /\ EntriesNeedMembership'
  BY <1>0 DEF TableInv, EntriesNeedMembership
<1>1. ASSUME ObserveUnregister PROVE TableInv' /\ EntriesNeedMembership'
  <2>1. UNCHANGED devices
    BY <1>1 DEF ObserveUnregister
  <2>2. \A o \in ObsIds : resource_table'[o] # NoDevice
          => resource_table'[o] = resource_table[o]
    BY <1>1, <1>0 DEF ObserveUnregister, RedisType
  <2>3. \A d \in Devices : alive'[d] # "none" => d \in devices
    <3>1. \A d \in Devices : alive'[d] = IF resource_table[job.id] = d
                                         THEN "0" ELSE alive[d]
      BY <1>1 DEF ObserveUnregister, ClearAlive
    <3>2. job.id \in ObsIds
      BY <1>0 DEF JobType
    <3>3. \A d \in Devices : resource_table[job.id] = d => d \in devices
      BY <3>2, <1>0, ConstantsAssumption DEF TableInv
    <3> QED
      BY <3>1, <3>3, <1>0 DEF EntriesNeedMembership
  <2> QED
    BY <2>1, <2>2, <2>3, <1>0 DEF TableInv, EntriesNeedMembership
<1>2. ASSUME AddResourceTable PROVE TableInv' /\ EntriesNeedMembership'
  <2>1. job.id = 0 /\ job.device \in Devices
    BY <1>2, <1>0 DEF AddResourceTable, JobInv
  <2>2. devices' = devices \cup {job.device} /\ UNCHANGED alive
    BY <1>2 DEF AddResourceTable
  <2>3. \A o \in ObsIds : \/ resource_table'[o] = resource_table[o]
                          \/ o = 0 /\ resource_table'[o] = job.device
    BY <1>2, <2>1, <1>0 DEF AddResourceTable, RedisType
  <2> QED
    BY <2>2, <2>3, <1>0 DEF TableInv, EntriesNeedMembership
<1>3. ASSUME Post PROVE TableInv' /\ EntriesNeedMembership'
  <2>1. job.device \in devices /\ UNCHANGED <<resource_table, devices>>
    BY <1>3, <1>0 DEF Post, JobInv
  <2>2. \A d \in Devices : alive'[d] = alive[d] \/ d = job.device
    BY <1>3, <1>0 DEF Post, RedisType
  <2> QED
    BY <2>1, <2>2, <1>0 DEF TableInv, EntriesNeedMembership
<1> QED
  BY StepCases, <1>u, <1>1, <1>2, <1>3
  DEF Register, Deregister, NotInterested, FailedComm, StillInterested,
      PostRequest, ObserveRegister, StartThread, RedisException,
      RedisFails, Wake, NotifyBegin, NotifyOne, NotifyEnd, StopNotify, redisVars

-----------------------------------------------------------------------------

LEMMA InitInv == Init => Inv
<1> SUFFICES ASSUME Init PROVE Inv
  OBVIOUS
<1>0. UINT8_MAX \in Nat /\ MaxListed \in Nat /\ NoDevice \notin Devices
  BY ConstantsAssumption
<1>1. EmptyBuffer \in Buffers
  BY <1>0 DEF EmptyBuffer, Buffers, ObsIds
<1>2. StackType /\ ListType
  BY <1>0, <1>1, ConstantsAssumption DEF Init, StackType, ListType
<1>3. RoundType
  BY <1>0, <1>1 DEF Init, RoundType
<1>4. RedisType /\ TableInv /\ EntriesNeedMembership
  BY DEF Init, RedisType, TableInv, EntriesNeedMembership
<1>5. job \in JobType /\ JobInv /\ job = Idle
  BY <1>0 DEF Init, Idle, Job, JobType, JobInv, Steps, ObsIds
<1>6. TypeOK
  BY <1>2, <1>3, <1>4, <1>5 DEF Init, TypeOK
<1>7. ListInv
  BY <1>5 DEF Init, ListInv, Listed, Idle, Job
<1>8. \A t \in Threads : ~InRound(t) /\ ~stale[t] /\ ~Alive(t)
  BY DEF Init, InRound, Alive
<1>9. RoundInv
  BY <1>8 DEF RoundInv, RoundInvOf
<1>10. StartedMeansRunning /\ FlagInv /\ OneNotifierUntilStopped
  BY <1>8 DEF Init, StartedMeansRunning, FlagInv, OneNotifierUntilStopped
<1>11. OnlyDisturbedRoundsFail
  BY DEF Init, OnlyDisturbedRoundsFail
<1> QED
  BY <1>4, <1>5, <1>6, <1>7, <1>9, <1>10, <1>11 DEF Inv

LEMMA StutterInv == Inv /\ UNCHANGED vars => Inv'
<1> SUFFICES ASSUME Inv, UNCHANGED vars PROVE Inv'
  OBVIOUS
<1>0. UNCHANGED <<server, observers, failedCommCount, joined, job, interested,
                  size, capacity, silent, m_isStartedThread, stopped, pc, next, count,
                  sent, failed, stale, view, disturbed, resource_table, redisUp,
                  devices, alive>>
  BY DEF vars, stackVars, listVars, flagVars, threadVars, roundVars, bufferVars,
     redisVars
<1>1. TypeOK'
  BY <1>0 DEF Inv, TypeOK, StackType, ListType, RoundType, RedisType
<1>2. JobInv' /\ ListInv'
  BY <1>0 DEF Inv, JobInv, ListInv, Listed
<1>3. RoundInv'
  BY <1>0 DEF Inv, RoundInv, RoundInvOf, CleanRound, InRound, Slot, Leaving
<1>4. /\ StartedMeansRunning' /\ FlagInv' /\ OneNotifierUntilStopped'
      /\ OnlyDisturbedRoundsFail'
  BY <1>0 DEF Inv, StartedMeansRunning, FlagInv, OneNotifierUntilStopped, Alive,
     OnlyDisturbedRoundsFail
<1>5. TableInv' /\ EntriesNeedMembership'
  BY <1>0 DEF Inv, TableInv, EntriesNeedMembership
<1> QED
  BY <1>1, <1>2, <1>3, <1>4, <1>5 DEF Inv

LEMMA InvStep == Inv /\ Next => Inv'
BY TypeStep, JobStep, ListStep, RoundStep, FlagStep, DisturbedStep, TableStep
DEF Inv

(* Every reachable state satisfies the inductive invariant, whatever requests,
   notify threads and faults come together. *)
THEOREM InvHolds == Spec => []Inv
<1>1. Inv /\ [Next]_vars => Inv'
  BY StutterInv, InvStep
<1> QED
  BY <1>1, InitInv, PTL DEF Spec

(* No step leaves the types: in particular push_back finds a slot, and a round
   never counts more than UINT8_MAX observers. *)
THEOREM TypesHold == Spec => []TypeOK
<1>1. Inv => TypeOK
  BY DEF Inv
<1> QED
  BY <1>1, InvHolds, PTL

(* Between two requests m_interestedObservers holds the observers of the stack
   and the lost ones, twice only those whose id was used again. *)
THEOREM ListsAgree == Spec => []ListMatchesStack
<1>1. Inv => ListMatchesStack
  BY DEF Inv, ListInv, ListMatchesStack, Idle, Job
<1> QED
  BY <1>1, InvHolds, PTL

(* While m_isStartedThread is set a notify thread runs. *)
THEOREM StartedThreadsRun == Spec => []StartedMeansRunning
<1>1. Inv => StartedMeansRunning
  BY DEF Inv
<1> QED
  BY <1>1, InvHolds, PTL

(* There is at most one notify thread until the flag is first cleared. *)
THEOREM OneNotifier == Spec => []OneNotifierUntilStopped
<1>1. Inv => OneNotifierUntilStopped
  BY DEF Inv
<1> QED
  BY <1>1, InvHolds, PTL

(* A round fails only if something disturbed it: a lost observer in the list, a
   departure, a failed send or reused memory. *)
THEOREM OnlyDisturbedFail == Spec => []OnlyDisturbedRoundsFail
<1>1. Inv => OnlyDisturbedRoundsFail
  BY DEF Inv
<1> QED
  BY <1>1, InvHolds, PTL

(* A hash with fields belongs to a device of the set. *)
THEOREM EntriesHaveMembership == Spec => []EntriesNeedMembership
<1>1. Inv => EntriesNeedMembership
  BY DEF Inv
<1> QED
  BY <1>1, InvHolds, PTL

(* Only the cancellation of the observer with id 0 clears the al of a device. *)
THEOREM OnlyKeyZeroClears == Spec => AliveClearsOnlyThroughKeyZero
<1> DEFINE Clears == \A d \in Devices : alive[d] = "1" /\ alive'[d] = "0"
                                          => job.id = 0
<1>1. Inv /\ [Next]_vars => Clears
  <2> SUFFICES ASSUME Inv, [Next]_vars,
                      NEW d \in Devices, alive[d] = "1", alive'[d] = "0"
               PROVE  job.id = 0
    OBVIOUS
  <2>0. TableInv /\ RedisType /\ JobInv /\ job.id \in ObsIds
    BY DEF Inv, TypeOK, JobType
  <2>1. Next
    BY DEF vars, redisVars
  <2>2. alive' # alive
    OBVIOUS
  <2>3. ASSUME ObserveUnregister PROVE job.id = 0
    <3>1. resource_table[job.id] = d
      BY <2>3 DEF ObserveUnregister, ClearAlive
    <3> QED
      BY <3>1, <2>0, ConstantsAssumption DEF TableInv
  <2>4. ASSUME Post PROVE FALSE
    BY <2>4, <2>0 DEF Post, RedisType
  <2> QED
    BY StepCases, <2>1, <2>2, <2>3, <2>4
    DEF Register, Deregister, NotInterested, FailedComm, StillInterested,
        PostRequest, ObserveRegister, StartThread, AddResourceTable,
        RedisException, RedisFails, Wake, NotifyBegin, NotifyOne, NotifyEnd,
        StopNotify, redisVars
<1> QED
  BY <1>1, InvHolds, PTL DEF Spec, AliveClearsOnlyThroughKeyZero

-----------------------------------------------------------------------------
(* As long as observers only join and the stack sends what it is given.      *)

(* Nothing disturbs a round: the flag, once set, stays. *)
LEMMA SteadyStep ==
  ASSUME Faults \subseteq {"redis"}, SteadyInv, Next
  PROVE  SteadyInv'
<1>0. /\ RoundType /\ job.step # "leave" /\ ~stopped /\ silent = {}
      /\ \A t \in Threads : ~disturbed[t]
      /\ size > 0 /\ job.step # "start" => m_isStartedThread
  BY DEF SteadyInv, Inv, TypeOK
<1>1. Inv'
  BY InvStep DEF SteadyInv
<1>2. "cancel" \notin Faults /\ "comm" \notin Faults /\ "send" \notin Faults
      /\ "reuse" \notin Faults
  OBVIOUS
<1>3. ASSUME UNCHANGED <<flagVars, disturbed, silent>>, job'.step # "leave",
             size' > 0 /\ job'.step # "start"
               => size > 0 /\ job.step # "start"
      PROVE  SteadyInv'
  BY <1>0, <1>1, <1>3 DEF SteadyInv, flagVars
<1>4. ASSUME NEW o \in ObsIds, NEW d \in Devices, Register(o, d)
      PROVE  SteadyInv'
  BY <1>3, <1>4 DEF Register, Idle, Job, listVars, threadVars
<1>5. ASSUME NEW o \in ObsIds, StillInterested(o) PROVE SteadyInv'
  BY <1>0, <1>3, <1>5 DEF StillInterested, listVars, threadVars
<1>6. ASSUME NEW d \in Devices, PostRequest(d) PROVE SteadyInv'
  BY <1>3, <1>6 DEF PostRequest, Idle, Job, listVars, threadVars
<1>7. ASSUME ObserveRegister PROVE SteadyInv'
  <2>1. job'.step = "start" /\ UNCHANGED <<flagVars, disturbed, silent>>
    <3>1. job \in JobType
      BY DEF SteadyInv, Inv, TypeOK
    <3> QED
      BY <1>7, <3>1 DEF ObserveRegister, JobType
  <2> QED
    BY <1>3, <2>1
<1>8. ASSUME StartThread PROVE SteadyInv'
  <2>1. m_isStartedThread' /\ UNCHANGED <<stopped, disturbed, silent>>
    BY <1>8 DEF StartThread, listVars
  <2>2. job'.step # "leave"
    BY <1>8 DEF StartThread, Idle, Job
  <2> QED
    BY <1>0, <1>1, <2>1, <2>2 DEF SteadyInv
<1>9. ASSUME AddResourceTable \/ Post \/ RedisException \/ RedisFails
      PROVE  SteadyInv'
  <2>1. UNCHANGED <<flagVars, disturbed, size, silent>>
    BY <1>9 DEF AddResourceTable, Post, RedisException, RedisFails,
       listVars, threadVars
  <2>2. job \in JobType
    BY DEF SteadyInv, Inv, TypeOK
  <2>3. job' = job \/ (job.step # "start" /\ job'.step # "leave")
    <3>1. CASE Post
      BY <3>1 DEF Post, Idle, Job
    <3>2. CASE AddResourceTable
      <4>1. job.step = "post" /\ job' = [job EXCEPT !.step = "entries"]
        BY <3>2 DEF AddResourceTable
      <4> QED
        BY <4>1, <2>2 DEF JobType
    <3>3. CASE RedisException \/ RedisFails
      BY <3>3 DEF RedisException, RedisFails
    <3> QED
      BY <1>9, <3>1, <3>2, <3>3
  <2> QED
    BY <1>0, <1>3, <2>1, <2>3
<1>10. ASSUME NEW t \in Threads, Wake(t) PROVE SteadyInv'
  BY <1>0, <1>3, <1>10 DEF Wake, listVars
<1>11. ASSUME NEW t \in Threads, NotifyBegin(t) PROVE SteadyInv'
  <2>0. AllObserved
    BY <1>0 DEF SteadyInv, Inv, ListInv, AllObserved
  <2>1. \A u \in Threads : ~disturbed'[u]
    BY <1>0, <2>0, <1>11, Zenon DEF NotifyBegin, RoundType
  <2> QED
    BY <1>0, <1>1, <1>11, <2>1 DEF NotifyBegin, SteadyInv, listVars, flagVars
<1>12. ASSUME NEW t \in Threads, NotifyOne(t) PROVE SteadyInv'
  <2>1. ~failed[t]
    BY <1>0, <1>12 DEF SteadyInv, Inv, RoundInv, RoundInvOf, CleanRound, NotifyOne
  <2>2. failed' = failed
    BY <1>2, <1>12 DEF NotifyOne
  <2>3. \A u \in Threads : ~disturbed'[u]
    BY <1>0, <1>2, <1>12, <2>1, <2>2, Zenon DEF NotifyOne, RoundType
  <2> QED
    BY <1>0, <1>1, <1>12, <2>3 DEF NotifyOne, SteadyInv, listVars, flagVars
<1>13. ASSUME NEW t \in Threads, NotifyEnd(t) PROVE SteadyInv'
  <2>1. \A u \in Threads : ~disturbed'[u]
    BY <1>0, <1>13, Zenon DEF NotifyEnd, RoundType
  <2> QED
    BY <1>0, <1>1, <1>13, <2>1 DEF NotifyEnd, SteadyInv, listVars, flagVars
<1>14. ASSUME NEW t \in Threads, StopNotify(t) PROVE FALSE
  BY <1>0, <1>14 DEF StopNotify, SteadyInv, Inv, OnlyDisturbedRoundsFail
<1> QED
  BY StepCases, <1>0, <1>2, <1>4, <1>5, <1>6, <1>7, <1>8, <1>9, <1>10, <1>11,
     <1>12, <1>13, <1>14
  DEF Deregister, NotInterested, FailedComm, ObserveUnregister

(* As long as no observation ends and no send fails, notifications that were
   started go on while the stack has an observer, also when the vector moves
   during a round and when redis fails. *)
THEOREM JoinsNeverStopNotifications ==
  Faults \subseteq {"redis"} => (Spec => []StopsOnlyWithoutObservers)
<1> SUFFICES ASSUME Faults \subseteq {"redis"}
             PROVE  Spec => []StopsOnlyWithoutObservers
  OBVIOUS
<1>1. Init => SteadyInv
  BY InitInv DEF Init, SteadyInv, Idle, Job
<1>2. SteadyInv /\ [Next]_vars => SteadyInv'
  <2>1. SteadyInv /\ UNCHANGED vars => SteadyInv'
    BY StutterInv DEF SteadyInv, vars, listVars, flagVars, threadVars
  <2> QED
    BY <2>1, SteadyStep
<1>3. SteadyInv => StopsOnlyWithoutObservers
  <2> SUFFICES ASSUME SteadyInv, job = Idle, observers # {}
               PROVE  m_isStartedThread
    BY DEF StopsOnlyWithoutObservers
  <2>1. Listed = observers /\ job.step = "idle"
    BY DEF SteadyInv, Inv, ListInv, Idle, Job
  <2>2. size \in Nat
    <3>1. MaxListed \in Nat /\ size \in 0 .. MaxListed
      BY ConstantsAssumption DEF SteadyInv, Inv, TypeOK, ListType
    <3> QED
      BY <3>1
  <2>3. size > 0
    BY <2>1, <2>2 DEF Listed
  <2> QED
    BY <2>1, <2>3 DEF SteadyInv
<1> QED
  BY <1>1, <1>2, <1>3, PTL DEF Spec
=============================================================================
