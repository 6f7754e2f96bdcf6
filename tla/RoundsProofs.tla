----------------------------- MODULE RoundsProofs -----------------------------
(***************************************************************************)
(* GenericResource implements Rounds, for every choice of its constants.   *)
(*                                                                         *)
(* Inv supplies what the steps need: an undisturbed round finds an         *)
(* observer of the stack in each slot (CleanRound), so a send takes that   *)
(* observer off what is owed, or nothing if he is listed again later; a    *)
(* push_back, and the move of the buffer that may come with it, changes    *)
(* none of these slots.                                                    *)
(***************************************************************************)
EXTENDS GenericResourceProofs

RoundsStep == [NotifyRounds!Next]_(NotifyRounds!vars)

(* How the rounds appear to Rounds. *)
SameRounds == \A t \in Threads : PhaseOf(t)' = PhaseOf(t) /\ OwedBy(t)' = OwedBy(t)

LEMMA SameMeansUnchanged ==
  ASSUME SameRounds
  PROVE  /\ UNCHANGED NotifyRounds!roundVars
         /\ UNCHANGED <<Listed, Departing, Lost>> => RoundsStep
<1>1. UNCHANGED NotifyRounds!roundVars
  BY DEF SameRounds, NotifyRounds!roundVars
<1> QED
  BY <1>1 DEF RoundsStep, NotifyRounds!vars, NotifyRounds!members

(* A thread that keeps its place, its marks and its slots. *)
LEMMA SameRound ==
  ASSUME NEW t \in Threads, pc'[t] = pc[t],
         InRound(t) => (disturbed'[t] <=> disturbed[t]),
         PhaseOf(t) = "open" =>
           /\ next'[t] = next[t] /\ count'[t] = count[t]
           /\ \A i \in next[t] .. count[t] : Slot(t, i)' = Slot(t, i)
  PROVE  PhaseOf(t)' = PhaseOf(t) /\ OwedBy(t)' = OwedBy(t)
<1>1. PhaseOf(t)' = PhaseOf(t)
  BY DEF PhaseOf, InRound
<1>2. CASE PhaseOf(t) = "open"
  BY <1>1, <1>2 DEF OwedBy
<1>3. CASE PhaseOf(t) # "open"
  BY <1>1, <1>3 DEF OwedBy
<1> QED
  BY <1>1, <1>2, <1>3

(* A thread outside its rounds owes nothing. *)
LEMMA NotOpen ==
  ASSUME NEW t \in Threads, PhaseOf(t) # "open"
  PROVE  OwedBy(t) = {}
BY DEF OwedBy

LEMMA NoThreadMoves ==
  ASSUME UNCHANGED <<threadVars, interested>>
  PROVE  SameRounds
<1>1. UNCHANGED <<pc, next, count, stale, view, disturbed, interested>>
  BY DEF threadVars, roundVars, bufferVars
<1> QED
  BY <1>1 DEF SameRounds, PhaseOf, OwedBy, InRound, Slot

(* A departure excuses the rounds that are under way. *)
LEMMA DisturbExcuses ==
  ASSUME UNCHANGED pc, Disturb
  PROVE  NotifyRounds!ExcuseAll
<1>1. ASSUME NEW t \in Threads PROVE InRound(t) => disturbed'[t]
  BY <1>1, Zenon DEF Disturb
<1>2. ASSUME NEW t \in Threads
      PROVE  /\ PhaseOf(t)' = IF PhaseOf(t) = "open" THEN "excused" ELSE PhaseOf(t)
             /\ OwedBy(t)' = {}
  <2>1. PhaseOf(t)' = IF PhaseOf(t) = "open" THEN "excused" ELSE PhaseOf(t)
    BY <1>1 DEF PhaseOf, InRound
  <2> QED
    BY <2>1 DEF OwedBy
<1> QED
  BY <1>2 DEF NotifyRounds!ExcuseAll

(* One thread moves: what the rounds become. *)
LEMMA OneMoves ==
  ASSUME NEW t \in Threads,
         \A u \in Threads \ {t} : PhaseOf(u)' = PhaseOf(u) /\ OwedBy(u)' = OwedBy(u)
  PROVE  /\ \A p : PhaseOf(t)' = p => NotifyRounds!Become(t, p)
         /\ \A s : OwedBy(t)' = s =>
              [u \in Threads |-> OwedBy(u)']
                = [[u \in Threads |-> OwedBy(u)] EXCEPT ![t] = s]
         /\ OwedBy(t)' = OwedBy(t) =>
              [u \in Threads |-> OwedBy(u)'] = [u \in Threads |-> OwedBy(u)]
BY DEF NotifyRounds!Become

-----------------------------------------------------------------------------

(* Who is listed, and whom the stack has lost. *)
LEMMA WhoIsLost ==
  ASSUME Inv
  PROVE  /\ job.step \notin {"register", "leave"} =>
              Departing = {} /\ Listed = observers \cup silent
         /\ Lost = {} /\ Departing = {} <=> AllObserved
<1>1. ListInv
  BY DEF Inv
<1>2. CASE Leaving
  BY <1>1, <1>2 DEF ListInv, Leaving, Departing, Lost, AllObserved
<1>3. CASE ~Leaving
  BY <1>1, <1>3 DEF ListInv, Leaving, Departing, Lost, AllObserved
<1> QED
  BY <1>2, <1>3

(* The stack takes the observer for lost, or counts a failure. *)
CommFails(o) == NotInterested(o) \/ FailedComm(o)

(* A departure that the handler does not hear of. *)
LEMMA LoseRefines ==
  ASSUME Inv, job = Idle, NEW o \in observers, Lose(o), Disturb,
         UNCHANGED <<job, pc, bufferOfList>>
  PROVE  RoundsStep
<1>1. job.step = "idle" /\ observers \subseteq ObsIds
  BY ListFacts DEF Idle, Job
<1>2. Departing = {} /\ Listed = observers \cup silent
  BY <1>1, WhoIsLost
<1>3. Departing' = {} /\ Listed' = Listed
  BY <1>1 DEF Departing, Leaving, bufferOfList, Listed
<1>4. observers' = observers \ {o}
  BY DEF Lose, Delete
<1>5. o \in Listed \ Lost /\ Lost' = Lost \cup {o}
  BY <1>2, <1>3, <1>4 DEF Lost
<1>6. NotifyRounds!Vanish(o)
  BY <1>2, <1>3, <1>5, DisturbExcuses DEF NotifyRounds!Vanish
<1> QED
  BY <1>1, <1>6 DEF RoundsStep, NotifyRounds!Next

(* The stack's thread: what it does to the list and to the departures. *)
LEMMA RequestRefines ==
  ASSUME Inv, Request
  PROVE  RoundsStep
<1>0. /\ job = Idle => Departing = {} /\ Listed = observers \cup silent
      /\ observers \subseteq ObsIds
  BY ListFacts, WhoIsLost DEF Idle, Job
<1>1. ASSUME job = Idle, job'.step # "leave",
             UNCHANGED <<observers, listVars, threadVars>>
      PROVE  RoundsStep
  <2>1. UNCHANGED <<Listed, Departing, Lost>>
    BY <1>0, <1>1 DEF listVars, Listed, Departing, Leaving, Lost
  <2> QED
    BY <1>1, <2>1, NoThreadMoves, SameMeansUnchanged DEF listVars
<1>3. ASSUME NEW o \in ObsIds, NEW d \in Devices, Register(o, d) PROVE RoundsStep
  <2>1. /\ job = Idle /\ o \notin observers
        /\ observers' = observers \cup {o} /\ job'.step = "register"
        /\ UNCHANGED <<interested, size, silent, threadVars>>
    BY <1>3 DEF Register, Job, listVars
  <2>2. Departing = {} /\ Departing' = {} /\ Listed' = Listed
    BY <1>0, <2>1 DEF Departing, Leaving, Listed
  <2>3. SameRounds
    BY <2>1, NoThreadMoves
  <2>4. CASE o \in Listed
    <3>1. o \in Lost /\ Lost' = Lost \ {o} /\ Listed' = Listed \cup {o}
      BY <2>1, <2>2, <2>4 DEF Lost
    <3>2. NotifyRounds!Join(o)
      BY <2>2, <2>3, <3>1, SameMeansUnchanged DEF NotifyRounds!Join
    <3> QED
      BY <3>2 DEF RoundsStep, NotifyRounds!Next
  <2>5. CASE o \notin Listed
    <3>1. Lost' = Lost
      BY <2>1, <2>2, <2>5 DEF Lost
    <3> QED
      BY <2>2, <2>3, <3>1, SameMeansUnchanged
  <2> QED
    BY <2>4, <2>5
<1>4. ASSUME NEW o \in ObsIds, Deregister(o) PROVE RoundsStep
  <2>1. /\ job = Idle /\ o \in observers /\ observers' = observers \ {o}
        /\ job' = Job("leave", o, NoDevice)
        /\ UNCHANGED <<interested, size, pc>> /\ Disturb
    BY <1>4 DEF Deregister, Delete, listVars
  <2>2. Departing' = {o} /\ Departing = {} /\ Listed' = Listed
    BY <1>0, <2>1 DEF Departing, Leaving, Job, Listed
  <2>3. o \in Listed \ Lost /\ Lost' = Lost
    BY <1>0, <2>1, <2>2 DEF Lost
  <2>4. NotifyRounds!Leave(o)
    BY <2>1, <2>2, <2>3, DisturbExcuses DEF NotifyRounds!Leave
  <2> QED
    BY <2>4 DEF RoundsStep, NotifyRounds!Next
<1>5. ASSUME NEW o \in ObsIds, CommFails(o) PROVE RoundsStep
  <2>1. UNCHANGED job /\ job'.step # "leave"
    BY <1>5 DEF CommFails, NotInterested, FailedComm, Idle, Job
  <2>2. CASE /\ UNCHANGED <<observers, silent, disturbed>>
             /\ UNCHANGED <<bufferOfList, pc, roundVars, bufferVars>>
    BY <1>5, <2>1, <2>2, <1>1
    DEF CommFails, NotInterested, FailedComm, bufferOfList, listVars, threadVars
  <2>3. CASE Lose(o) /\ Disturb
    BY <1>5, <2>3, LoseRefines DEF CommFails, NotInterested, FailedComm
  <2> QED
    BY <1>5, <2>2, <2>3 DEF CommFails, NotInterested, FailedComm
<1>7. ASSUME NEW o \in ObsIds, StillInterested(o) PROVE RoundsStep
  BY <1>7, <1>1 DEF StillInterested, Idle, Job
<1>8. ASSUME NEW d \in Devices, PostRequest(d) PROVE RoundsStep
  BY <1>8, <1>1 DEF PostRequest, Job, stackVars
<1> QED
  BY <1>3, <1>4, <1>5, <1>7, <1>8 DEF Request, CommFails

(* The slots that an undisturbed round has before it survive a push_back. *)
LEMMA PushBackKeepsRounds ==
  ASSUME Inv, ObserveRegister
  PROVE  SameRounds
<1> SUFFICES ASSUME NEW t \in Threads
             PROVE  PhaseOf(t)' = PhaseOf(t) /\ OwedBy(t)' = OwedBy(t)
  BY DEF SameRounds
<1>0. ListInv /\ ListType /\ RoundType /\ RoundInvOf(t)
  BY DEF Inv, TypeOK, RoundInv
<1>1. /\ job.step = "register"
      /\ interested' = [interested EXCEPT ![size + 1] = job.id]
      /\ size' = size + 1
      /\ UNCHANGED <<pc, next, count, disturbed>>
  BY DEF ObserveRegister, roundVars
<1>2. \A i \in 1 .. size : interested'[i] = interested[i]
  BY <1>0, <1>1, ListFacts, PushBackList DEF ListInv
<1>3. /\ stale[t] => stale'[t] /\ view'[t] = view[t]
      /\ stale'[t] /\ ~stale[t] => view'[t] = interested
  <2>1. CASE size # capacity
    BY <2>1 DEF ObserveRegister, bufferVars
  <2>2. CASE size = capacity
    <3>1. Reallocate
      BY <2>2 DEF ObserveRegister
    <3>2. stale'[t] = (stale[t] \/ InRound(t))
      BY <3>1, Zenon DEF Reallocate
    <3>3. view'[t] = IF InRound(t) /\ ~stale[t] THEN interested ELSE view[t]
      BY <3>1, Zenon DEF Reallocate
    <3> QED
      BY <3>2, <3>3, Zenon
  <2> QED
    BY <2>1, <2>2
<1>4. ASSUME PhaseOf(t) = "open", NEW i \in next[t] .. count[t]
      PROVE  Slot(t, i)' = Slot(t, i)
  <2>1. CleanRound(t)
    BY <1>0, <1>4 DEF PhaseOf, RoundInvOf
  <2>2. CASE stale[t]
    BY <1>3, <2>2 DEF Slot
  <2>3. CASE ~stale[t]
    <3>1. i \in 1 .. size
      BY <1>0, <2>1, <2>3, <1>4, ListFacts DEF CleanRound, RoundType
    <3> QED
      BY <1>2, <1>3, <2>3, <3>1 DEF Slot
  <2> QED
    BY <2>2, <2>3
<1> QED
  BY <1>1, <1>4, SameRound

LEMMA HandlerRefines ==
  ASSUME Inv, Handler
  PROVE  RoundsStep
<1>0. job \in JobType /\ JobInv /\ ListInv
  BY DEF Inv, TypeOK
<1>1. ASSUME job.step # "leave", job'.step # "leave",
             UNCHANGED <<observers, listVars>>, SameRounds
      PROVE  RoundsStep
  <2>1. UNCHANGED <<Listed, Departing, Lost>>
    BY <1>1 DEF listVars, Listed, Departing, Leaving, Lost
  <2> QED
    BY <1>1, <2>1, SameMeansUnchanged
<1>2. ASSUME ObserveRegister PROVE RoundsStep
  <2>1. /\ job.step = "register" /\ job' = [job EXCEPT !.step = "start"]
        /\ UNCHANGED <<observers, silent>>
    BY <1>2 DEF ObserveRegister, stackVars
  <2>2. Departing = {} /\ Departing' = {}
    BY <2>1, <1>0 DEF Departing, Leaving, JobType
  <2>3. Listed' = Listed \cup {job.id}
    BY <1>2, <2>1, ListFacts, PushBackList DEF ObserveRegister, Inv, TypeOK, ListInv
  <2>4. /\ job.id \in observers
        /\ Listed = (observers \ {job.id}) \cup silent
    BY <2>1, <1>0 DEF ListInv
  <2>5. job.id \notin Lost /\ Lost' = Lost
    BY <2>1, <2>2, <2>3, <2>4 DEF Lost
  <2>6. CASE job.id \in Listed
    BY <1>2, <2>2, <2>3, <2>5, <2>6, PushBackKeepsRounds, SameMeansUnchanged
  <2>7. CASE job.id \notin Listed
    <3>1. UNCHANGED NotifyRounds!roundVars
      BY <1>2, PushBackKeepsRounds, SameMeansUnchanged
    <3>2. NotifyRounds!Join(job.id)
      BY <2>2, <2>3, <2>5, <2>7, <3>1 DEF NotifyRounds!Join
    <3> QED
      BY <3>2, ListFacts DEF RoundsStep, NotifyRounds!Next
  <2> QED
    BY <2>6, <2>7
<1>3. ASSUME ObserveUnregister PROVE RoundsStep
  <2>1. /\ job.step = "leave" /\ job' = [job EXCEPT !.step = "start"]
        /\ Erase(job.id)
        /\ UNCHANGED <<observers, pc, next, count, stale, view, disturbed>>
    BY <1>3 DEF ObserveUnregister, stackVars, threadVars, roundVars, bufferVars
  <2>2. Departing = {job.id} /\ Departing' = {}
    BY <2>1, <1>0 DEF Departing, Leaving, JobType
  <2>3. ListType /\ Listed = observers \cup silent \cup {job.id}
        /\ job.id \notin observers
    BY <2>1, <1>0 DEF ListInv, Inv, TypeOK
  <2>4. Listed' = Listed \ {job.id}
    BY <2>1, <2>3, <1>0, EraseList DEF ListInv
  <2>5. Lost' = Lost
    BY <2>1, <2>2, <2>4 DEF Lost
  <2>6. ASSUME NEW t \in Threads
        PROVE  PhaseOf(t) # "open" /\ PhaseOf(t)' = PhaseOf(t)
    <3>1. RoundInvOf(t)
      BY DEF Inv, RoundInv
    <3> QED
      BY <2>1, <3>1 DEF RoundInvOf, CleanRound, Leaving, PhaseOf, InRound
  <2>7. SameRounds
    BY <2>6 DEF SameRounds, OwedBy
  <2>8. NotifyRounds!Left
    BY <2>2, <2>4, <2>5, <2>7, SameMeansUnchanged DEF NotifyRounds!Left
  <2> QED
    BY <2>8 DEF RoundsStep, NotifyRounds!Next
<1>4. ASSUME StartThread PROVE RoundsStep
  <2>1. /\ job.step = "start" /\ UNCHANGED <<observers, listVars, interested>>
        /\ job' = Idle
        /\ UNCHANGED <<next, count, stale, view, disturbed>>
    BY <1>4 DEF StartThread, stackVars, listVars, roundVars, bufferVars
  <2>2. job'.step # "leave"
    BY <2>1, <1>0 DEF JobType, Idle, Job
  <2>3. \/ UNCHANGED pc
        \/ \E t \in Threads : pc[t] = "none" /\ pc' = [pc EXCEPT ![t] = "sleep"]
    BY <1>4 DEF StartThread
  <2>4. \A t \in Threads : pc'[t] = pc[t] \/ (pc[t] = "none" /\ pc'[t] = "sleep")
    BY <2>3 DEF Inv, TypeOK, RoundType
  <2>5. SameRounds
    BY <2>1, <2>4 DEF SameRounds, PhaseOf, OwedBy, InRound, Slot
  <2> QED
    BY <1>1, <2>1, <2>2, <2>5
<1>5. ASSUME AddResourceTable \/ Post PROVE RoundsStep
  <2>1. /\ job.step \in {"post", "entries"}
        /\ UNCHANGED <<observers, listVars, threadVars>>
    BY <1>5 DEF AddResourceTable, Post, stackVars
  <2>2. job' = Idle \/ job' = [job EXCEPT !.step = "entries"]
    BY <1>5 DEF AddResourceTable, Post
  <2>3. job'.step # "leave"
    BY <2>2, <1>0 DEF JobType, Idle, Job
  <2> QED
    BY <1>1, <2>1, <2>3, NoThreadMoves DEF listVars
<1>6. ASSUME RedisException PROVE RoundsStep
  <2>1. UNCHANGED <<job, observers, interested, size, threadVars>>
    BY <1>6 DEF RedisException, stackVars, listVars
  <2> QED
    BY <2>1, NoThreadMoves, SameMeansUnchanged DEF Listed, Departing, Leaving, Lost
<1> QED
  BY <1>2, <1>3, <1>4, <1>5, <1>6 DEF Handler

-----------------------------------------------------------------------------

(* A send of an undisturbed round takes its observer off what the round owes,
   or leaves it as it is if a later slot names him again. *)
LEMMA SendPaysOne ==
  ASSUME Inv, NEW t \in Threads, NotifyOne(t), PhaseOf(t)' = "open"
  PROVE  /\ PhaseOf(t) = "open"
         /\ Slot(t, next[t]) \in OwedBy(t)
         /\ \/ OwedBy(t)' = OwedBy(t) \ {Slot(t, next[t])}
            \/ OwedBy(t)' = OwedBy(t)
<1>0. RoundType /\ RoundInvOf(t)
  BY DEF Inv, TypeOK, RoundInv
<1>1. /\ InRound(t) /\ next[t] <= count[t]
      /\ next'[t] = next[t] + 1
      /\ UNCHANGED <<pc, count, stale, view, interested>>
  BY <1>0 DEF NotifyOne, RoundType, bufferVars, listVars
<1>2. ~disturbed'[t]
  BY <1>1 DEF PhaseOf, InRound
<1>3. ~disturbed[t]
  <2>1. disturbed'[t] = \/ disturbed[t]
                        \/ failed'[t]
                        \/ stale[t] /\ "reuse" \in Faults
    BY <1>0, Zenon DEF NotifyOne, RoundType
  <2> QED
    BY <1>2, <2>1, Zenon
<1>4. PhaseOf(t) = "open" /\ CleanRound(t)
  BY <1>0, <1>1, <1>3 DEF PhaseOf, RoundInvOf
<1>5. next[t] \in Nat /\ next[t] >= 1 /\ count[t] \in Nat
  BY <1>0, ConstantsAssumption DEF RoundType
<1>6. OwedBy(t) = {Slot(t, i) : i \in next[t] .. count[t]}
  BY <1>4 DEF OwedBy
<1>7. OwedBy(t)' = {Slot(t, i) : i \in next[t] + 1 .. count[t]}
  BY <1>1 DEF OwedBy, Slot
<1>8. \A i : i \in next[t] .. count[t]
                <=> i \in next[t] + 1 .. count[t] \/ i = next[t]
  BY <1>1, <1>5
<1>9. OwedBy(t) = OwedBy(t)' \cup {Slot(t, next[t])}
  BY <1>6, <1>7, <1>8
<1> QED
  BY <1>4, <1>9

(* A notify thread: its rounds open, are paid, are excused and end. *)
LEMMA NotifierRefines ==
  ASSUME Inv, NEW t \in Threads, Notifier(t)
  PROVE  RoundsStep
<1> DEFINE Kept == \A u \in Threads \ {t} :
                     PhaseOf(u)' = PhaseOf(u) /\ OwedBy(u)' = OwedBy(u)
           Did == \/ NotifyRounds!Begin(t)
                  \/ NotifyRounds!Notify(t)
                  \/ NotifyRounds!Excuse(t)
                  \/ NotifyRounds!End(t)
                  \/ NotifyRounds!Resume(t)
<1>0. RoundType /\ RoundInvOf(t)
  BY DEF Inv, TypeOK, RoundInv
<1>1. /\ UNCHANGED <<Listed, Departing, Lost, interested>>
      /\ UNCHANGED NotifyRounds!members
  <2>1. UNCHANGED <<job, observers, interested, size>>
    <3>1. CASE Wake(t) \/ NotifyBegin(t)
      BY <3>1 DEF Wake, NotifyBegin, stackVars, listVars
    <3>2. CASE NotifyOne(t)
      BY <3>2 DEF NotifyOne, stackVars, listVars
    <3>3. CASE NotifyEnd(t) \/ StopNotify(t)
      BY <3>3 DEF NotifyEnd, StopNotify, stackVars, listVars
    <3> QED
      BY <3>1, <3>2, <3>3 DEF Notifier
  <2> QED
    BY <2>1 DEF Listed, Departing, Leaving, Lost, NotifyRounds!members
<1>2. ASSUME NEW u \in Threads \ {t}
      PROVE  /\ pc'[u] = pc[u] /\ next'[u] = next[u] /\ count'[u] = count[u]
             /\ stale'[u] = stale[u] /\ view'[u] = view[u]
  BY <1>0 DEF Notifier, Wake, NotifyBegin, NotifyOne, NotifyEnd, StopNotify,
     roundVars, bufferVars, RoundType
<1>3. \A u \in Threads \ {t} : disturbed'[u] = disturbed[u]
  BY <1>0, Zenon DEF Notifier, Wake, NotifyBegin, NotifyOne, NotifyEnd,
     StopNotify, RoundType
<1>4. Kept
  BY <1>1, <1>2, <1>3, SameRound DEF Slot
<1>s. Did => RoundsStep
  BY DEF RoundsStep, NotifyRounds!Next
<1>u. PhaseOf(t)' = PhaseOf(t) /\ OwedBy(t)' = OwedBy(t) => RoundsStep
  BY <1>1, <1>4, SameMeansUnchanged DEF SameRounds
<1>b. \A p : PhaseOf(t)' = p => NotifyRounds!Become(t, p)
  BY <1>4, OneMoves
<1>o. \A s : OwedBy(t)' = s =>
        [u \in Threads |-> OwedBy(u)']
          = [[u \in Threads |-> OwedBy(u)] EXCEPT ![t] = s]
  BY <1>4, OneMoves
<1>5. ASSUME Wake(t) PROVE RoundsStep
  <2>1. pc[t] = "sleep" /\ pc'[t] \in {"notify", "none"}
    BY <1>5, <1>0 DEF Wake, RoundType
  <2> QED
    BY <2>1, <1>u DEF PhaseOf, OwedBy, InRound
<1>6. ASSUME NotifyBegin(t) PROVE RoundsStep
  <2>0. size \in Nat /\ UINT8_MAX \in Nat
    BY ListFacts
  <2>1. CASE size > UINT8_MAX
    <3>0. ~(size <= UINT8_MAX)
      BY <2>0, <2>1
    <3>1. UNCHANGED <<pc, next, count, stale, view, disturbed>>
      BY <1>6, <3>0 DEF NotifyBegin, roundVars, bufferVars
    <3> QED
      BY <3>1, <1>1, <1>u DEF PhaseOf, OwedBy, InRound, Slot
  <2>2. CASE ~(size > UINT8_MAX)
    <3>1. /\ pc[t] = "notify" /\ pc'[t] = "round"
          /\ next'[t] = 1 /\ count'[t] = size
          /\ UNCHANGED <<size, stale>>
      BY <1>6, <2>2, <1>0 DEF NotifyBegin, RoundType, listVars, bufferVars
    <3>2. disturbed'[t] = ~AllObserved
      BY <1>6, <2>0, <2>2, <1>0, Zenon DEF NotifyBegin, RoundType
    <3>3. PhaseOf(t) = "idle" /\ ~stale[t] /\ OwedBy(t) = {}
      BY <3>1, <1>0 DEF PhaseOf, InRound, RoundInvOf, OwedBy
    <3>4. CASE ~AllObserved
      <4>1. PhaseOf(t)' = "excused" /\ OwedBy(t)' = {}
        BY <3>1, <3>2, <3>4 DEF PhaseOf, InRound, OwedBy
      <4>2. Departing \cup Lost # {}
        BY <3>4, WhoIsLost
      <4>3. NotifyRounds!Begin(t)
        BY <1>1, <1>4, <1>b, <3>3, <4>1, <4>2, OneMoves DEF NotifyRounds!Begin
      <4> QED
        BY <4>3, <1>s
    <3>5. CASE AllObserved
      <4>1. PhaseOf(t)' = "open"
        BY <3>1, <3>2, <3>5 DEF PhaseOf, InRound
      <4>2. OwedBy(t)' = Listed
        BY <3>1, <3>3, <4>1, <1>1 DEF OwedBy, Listed, Slot
      <4>3. Departing \cup Lost = {}
        BY <3>5, WhoIsLost
      <4>4. NotifyRounds!Begin(t)
        BY <1>1, <1>b, <1>o, <3>3, <4>1, <4>2, <4>3 DEF NotifyRounds!Begin
      <4> QED
        BY <4>4, <1>s
    <3> QED
      BY <3>4, <3>5
  <2> QED
    BY <2>1, <2>2
<1>7. ASSUME NotifyOne(t) PROVE RoundsStep
  <2>1. InRound(t) /\ UNCHANGED pc
    BY <1>7 DEF NotifyOne
  <2>2. CASE PhaseOf(t)' = "open"
    <3>1. /\ PhaseOf(t) = "open"
          /\ Slot(t, next[t]) \in OwedBy(t)
          /\ \/ OwedBy(t)' = OwedBy(t) \ {Slot(t, next[t])}
             \/ OwedBy(t)' = OwedBy(t)
      BY <1>7, <2>2, SendPaysOne
    <3>2. CASE OwedBy(t)' = OwedBy(t)
      BY <2>2, <3>1, <3>2, <1>u
    <3>3. ASSUME OwedBy(t)' = OwedBy(t) \ {Slot(t, next[t])}
          PROVE  NotifyRounds!Notify(t)
      <4>1. [u \in Threads |-> PhaseOf(u)'] = [u \in Threads |-> PhaseOf(u)]
        BY <1>4, <2>2, <3>1
      <4> QED
        BY <1>1, <1>o, <3>1, <3>3, <4>1 DEF NotifyRounds!Notify
    <3> QED
      BY <3>1, <3>2, <3>3, <1>s
  <2>3. CASE PhaseOf(t)' # "open" /\ PhaseOf(t) = "open"
    <3>1. PhaseOf(t)' = "excused" /\ OwedBy(t)' = {}
      BY <2>1, <2>3 DEF PhaseOf, InRound, OwedBy
    <3>2. Faults \cap {"send", "reuse"} # {}
      <4>1. disturbed'[t]
        BY <2>1, <2>3 DEF PhaseOf, InRound
      <4>2. ~disturbed[t] /\ ~failed[t]
        BY <2>1, <2>3, <1>0 DEF PhaseOf, RoundInvOf, CleanRound
      <4>3. disturbed'[t] = \/ disturbed[t]
                            \/ failed'[t]
                            \/ stale[t] /\ "reuse" \in Faults
        BY <1>7, <1>0, Zenon DEF NotifyOne, RoundType
      <4>4. failed' = failed \/ "send" \in Faults
        BY <1>7 DEF NotifyOne
      <4>5. "reuse" \in Faults \/ "send" \in Faults
        BY <4>1, <4>2, <4>3, <4>4, Zenon
      <4> QED
        BY <4>5
    <3>3. NotifyRounds!Excuse(t)
      BY <1>1, <1>b, <1>o, <2>3, <3>1, <3>2 DEF NotifyRounds!Excuse
    <3> QED
      BY <3>3, <1>s
  <2>4. CASE PhaseOf(t)' # "open" /\ PhaseOf(t) # "open"
    <3>1. PhaseOf(t)' = "excused" /\ PhaseOf(t) = "excused"
      BY <2>1, <2>4 DEF PhaseOf, InRound
    <3> QED
      BY <3>1, <1>u DEF OwedBy
  <2> QED
    BY <2>2, <2>3, <2>4
<1>8. ASSUME NotifyEnd(t) PROVE RoundsStep
  <2>1. InRound(t) /\ next[t] > count[t]
    BY <1>8 DEF NotifyEnd
  <2>2. \/ pc' = [pc EXCEPT ![t] = "sleep"]
        \/ ~RoundOK(t) /\ pc' = [pc EXCEPT ![t] = "stop"]
        \/ ~RoundOK(t) /\ pc' = [pc EXCEPT ![t] = "thrown"]
    BY <1>8 DEF NotifyEnd
  <2>3. \/ pc'[t] = "sleep"
        \/ ~RoundOK(t) /\ pc'[t] \in {"stop", "thrown"}
    BY <2>2, <1>0 DEF RoundType
  <2>4. \/ PhaseOf(t)' = "idle"
        \/ ~RoundOK(t) /\ PhaseOf(t)' = "failed"
    BY <2>3 DEF PhaseOf, InRound
  <2>5. next[t] \in Nat /\ count[t] \in Nat
    BY <1>0, ConstantsAssumption DEF RoundType
  <2>6. OwedBy(t) = {} /\ OwedBy(t)' = {}
    <3>1. next[t] .. count[t] = {}
      BY <2>1, <2>5
    <3> QED
      BY <2>4, <3>1 DEF OwedBy
  <2>7. [u \in Threads |-> OwedBy(u)'] = [u \in Threads |-> OwedBy(u)]
    BY <1>4, <2>6
  <2>8. CASE PhaseOf(t) = "open"
    <3>1. CleanRound(t) /\ next[t] <= count[t] + 1
      BY <2>1, <2>8, <1>0 DEF PhaseOf, RoundInvOf
    <3>2. RoundOK(t)
      <4>1. sent[t] = next[t] - 1 /\ ~failed[t]
        BY <3>1 DEF CleanRound
      <4>2. sent[t] = count[t]
        BY <4>1, <3>1, <2>1, <2>5
      <4> QED
        BY <4>1, <4>2 DEF RoundOK
    <3>3. NotifyRounds!End(t)
      BY <1>1, <1>b, <2>4, <2>6, <2>7, <2>8, <3>2 DEF NotifyRounds!End
    <3> QED
      BY <3>3, <1>s
  <2>9. CASE PhaseOf(t) # "open"
    <3>1. PhaseOf(t) = "excused"
      BY <2>1, <2>9 DEF PhaseOf
    <3>2. NotifyRounds!End(t)
      BY <1>1, <1>b, <2>4, <2>7, <3>1 DEF NotifyRounds!End
    <3> QED
      BY <3>2, <1>s
  <2> QED
    BY <2>8, <2>9
<1>9. ASSUME StopNotify(t) PROVE RoundsStep
  <2>1. pc[t] = "stop" /\ pc'[t] = "sleep"
    BY <1>9, <1>0 DEF StopNotify, RoundType
  <2>2. /\ PhaseOf(t) = "failed" /\ PhaseOf(t)' = "idle"
        /\ OwedBy(t) = {} /\ OwedBy(t)' = {}
    BY <2>1 DEF PhaseOf, InRound, OwedBy
  <2>3. NotifyRounds!Resume(t)
    BY <1>1, <1>4, <1>b, <2>2, OneMoves DEF NotifyRounds!Resume
  <2> QED
    BY <2>3, <1>s
<1> QED
  BY <1>5, <1>6, <1>7, <1>8, <1>9 DEF Notifier

-----------------------------------------------------------------------------

LEMMA RoundsInit == Init => NotifyRounds!Init
<1> SUFFICES ASSUME Init PROVE NotifyRounds!Init
  OBVIOUS
<1>1. \A t \in Threads : PhaseOf(t) = "idle" /\ OwedBy(t) = {}
  BY DEF Init, PhaseOf, OwedBy, InRound
<1>2. Listed = {} /\ Departing = {} /\ Lost = {}
  BY DEF Init, Listed, Departing, Leaving, Lost, Idle, Job
<1> QED
  BY <1>1, <1>2 DEF NotifyRounds!Init

(* Whatever requests, departures and faults come during a round, each step of
   the server is a step that Rounds allows, or none: a round that begins when no
   lost observer is listed, and that nothing disturbs, sends to each observer
   listed at its beginning and does not fail. *)
THEOREM RoundsImplemented == Spec => ImplementsRounds
<1>1. Inv /\ [Next]_vars => RoundsStep
  <2>1. ASSUME UNCHANGED vars PROVE RoundsStep
    <3>1. UNCHANGED <<job, observers, interested, size, threadVars>>
      BY <2>1 DEF vars, stackVars, listVars
    <3> QED
      BY <3>1, NoThreadMoves, SameMeansUnchanged
      DEF Listed, Departing, Leaving, Lost
  <2>2. ASSUME RedisFails PROVE RoundsStep
    <3>1. UNCHANGED <<job, observers, interested, size, threadVars>>
      BY <2>2 DEF RedisFails, stackVars, listVars
    <3> QED
      BY <3>1, NoThreadMoves, SameMeansUnchanged
      DEF Listed, Departing, Leaving, Lost
  <2> QED
    BY <2>1, <2>2, RequestRefines, HandlerRefines, NotifierRefines DEF Next
<1> QED
  BY <1>1, RoundsInit, InvHolds, PTL
  DEF Spec, ImplementsRounds, NotifyRounds!Spec, RoundsStep

=============================================================================
