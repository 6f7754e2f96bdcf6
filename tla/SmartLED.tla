------------------------------ MODULE SmartLED ------------------------------
(***************************************************************************)
(* The light: os_examples/SmartLED.  Each notification makes it read the   *)
(* key "alert" and choose the colour of the LED; a thread of its own       *)
(* (normal_state_run) drives the pins every half second.                   *)
(*                                                                         *)
(* The colour is stored after _led_lock is released, so a callback may     *)
(* store a colour it chose before another callback read a newer alert.     *)
(***************************************************************************)
EXTENDS Client

VARIABLES
  answer,   \* what each callback was told about the alert
  led,      \* m_value of GenericControl: uninitialized at first
  ledSet,   \* history: led was stored at least once
  colour,   \* what the pins show
  posted    \* the alert state of the last POST

ledVars == <<answer, led, ledSet, colour, posted>>
vars == <<clientVars, ledVars>>

Values == 0 .. 4      \* 4 stands for any other integer
Dark == "dark"
Alarm == "blue"
Normal == "white"
Colours == {Dark, "red", "green", Alarm, Normal}

(* make_shared leaves m_value indeterminate. *)
Init ==
  /\ ClientInit
  /\ answer = [t \in Threads |-> "none"]
  /\ led \in Values
  /\ ledSet = FALSE
  /\ colour = Dark
  /\ posted = FALSE

-----------------------------------------------------------------------------

(* Mutant: the lock is kept when there is nothing to report. *)
GetAlertKeepsLock(t) ==
  /\ pc[t] = "get"
  /\ \/ /\ "reply" \in Outcomes
        /\ alert # "absent"
        /\ answer' = [answer EXCEPT ![t] = alert]
        /\ lock' = IF alert = "1" THEN "free" ELSE "leaked"
        /\ Goto(t, "set")
        /\ UNCHANGED <<process, joinVars, redisVars, context>>
     \/ /\ NullReply
        /\ ThrowLocked(t)
        /\ UNCHANGED answer
  /\ UNCHANGED <<led, ledSet, colour, posted>>

(* Mutant: an answer that another callback has not used yet is taken over. *)
GetAlertShared(t) ==
  /\ pc[t] = "get"
  /\ \/ /\ "reply" \in Outcomes
        /\ alert # "absent"
        /\ \E a \in ({alert} \cup {answer[u] : u \in Threads}) \ {"none"} :
             answer' = [answer EXCEPT ![t] = a]
        /\ lock' = "free"
        /\ Goto(t, "set")
        /\ UNCHANGED <<process, joinVars, redisVars, context>>
     \/ /\ NullReply
        /\ ThrowLocked(t)
        /\ UNCHANGED answer
  /\ UNCHANGED <<led, ledSet, colour, posted>>

(* GET alert, under the lock.  A key that does not exist has a reply without a
   string, and the code makes a string of it: the process crashes. *)
GetAlert(t) ==
  /\ pc[t] = "get"
  /\ \/ /\ "reply" \in Outcomes
        /\ alert # "absent"
        /\ answer' = [answer EXCEPT ![t] = alert]
        /\ lock' = "free"
        /\ Goto(t, "set")
        /\ UNCHANGED <<process, joinVars, redisVars, context>>
     \/ /\ NullReply
        /\ ThrowLocked(t)
        /\ UNCHANGED answer
     \/ /\ "crash" \in Outcomes \/ ("reply" \in Outcomes /\ alert = "absent")
        /\ Crash
        /\ UNCHANGED answer
  /\ UNCHANGED <<led, ledSet, colour, posted>>

(* Mutant: the two colours are swapped. *)
ColourOfSwapped(a) == IF a = "1" THEN 3 ELSE 2

ColourOf(a) == IF a = "1" THEN 2 ELSE 3

SetLed(t) ==
  /\ pc[t] = "set"
  /\ led' = ColourOf(answer[t])
  /\ ledSet' = TRUE
  /\ Goto(t, "post")
  /\ UNCHANGED <<process, joinVars, redisVars, context, lock, answer, colour,
                 posted>>

(* The POST carries what getAlertStatus returned; it is the only use of it. *)
Post(t) ==
  /\ pc[t] \in {"post", "false", "unallocated"}
  /\ posted' = (pc[t] = "post" /\ answer[t] = "1")
  /\ answer' = [answer EXCEPT ![t] = "none"]
  /\ Goto(t, "none")
  /\ UNCHANGED <<process, joinVars, redisVars, context, lock, led, ledSet,
                 colour>>

ColourShown == <<"red", "green", Alarm, Normal, Normal>>

Control ==
  /\ colour' = ColourShown[led + 1]
  /\ UNCHANGED <<clientVars, answer, led, ledSet, posted>>

-----------------------------------------------------------------------------

Joining == (FoundResource \/ OnGet) /\ UNCHANGED ledVars

Notification(t) == OnObserve(t, "status") /\ UNCHANGED ledVars

Callback(t) ==
  \/ GetAlertStatus(t) /\ UNCHANGED ledVars
  \/ Connect(t) /\ UNCHANGED ledVars
  \/ CheckContext(t) /\ UNCHANGED ledVars
  \/ FreeContext(t) /\ UNCHANGED ledVars
  \/ Lock(t, "lock", "get") /\ UNCHANGED ledVars
  \/ GetAlert(t)
  \/ SetLed(t)
  \/ Post(t)

ObserveError == OnObserveError /\ UNCHANGED ledVars

Environment == (Raised \/ RedisStops \/ RedisStarts) /\ UNCHANGED ledVars

(* What the process does.  The rest of the system goes on when it has ended. *)
Own ==
  /\ process = "up"
  /\ \/ Joining
     \/ \E t \in Threads : Notification(t) \/ Callback(t)
     \/ ObserveError
     \/ Control

Next == Own \/ Environment

Spec == Init /\ [][Next]_vars

(* Discovery responses and answers arrive, the server keeps notifying, and the
   threads of the process keep running. *)
Fairness ==
  /\ WF_vars(process = "up" /\ Joining)
  /\ WF_vars(process = "up" /\ \E t \in Threads : Notification(t))
  /\ \A t \in Threads : WF_vars(process = "up" /\ Callback(t))
  /\ WF_vars(process = "up" /\ Control)

FairSpec == Spec /\ Fairness

-----------------------------------------------------------------------------

Steps == {"none", "status", "connect", "check", "free", "false", "unallocated",
          "lock", "get", "set", "post"}

TypeOK ==
  /\ ClientTypeOK
  /\ pc \in [Threads -> Steps]
  /\ answer \in [Threads -> {"none", "0", "1"}]
  /\ led \in Values
  /\ ledSet \in BOOLEAN
  /\ colour \in Colours
  /\ posted \in BOOLEAN

(* Whoever is inside GET alert holds _led_lock, and nobody else does: hiredis
   contexts are not thread safe. *)
LockHeldByOne ==
  /\ lock = "held" <=> \E t \in Threads : pc[t] = "get"
  /\ \A t, u \in Threads : pc[t] = "get" /\ pc[u] = "get" => t = u

(* As long as connecting works, whoever is inside GET alert finds a connection,
   although callbacks test, assign and free m_context without a lock. *)
GetFindsConnection ==
  \A t \in Threads : pc[t] = "get" => context = "ok"

(* The alarm colour, once a callback has stored a colour, and the alert in a
   POST both come from an alert that was raised. *)
NoFalseAlarm ==
  (ledSet /\ led = 2) \/ posted => alert = "1"

(* "Cannot allocated m_context by server redis" (Client.cpp:330): the message
   is printed when there is no connection to work with. *)
MessageMeansNoConnection ==
  \A t \in Threads : pc[t] = "unallocated" => context # "ok"

(* Once the alert is raised the light turns to the alarm colour and stays so,
   and the server is told, in spite of callbacks that still carry the old
   answer: as long as redis, the server and the sensor of the system work. *)
AlertShown ==
  (alert = "1") ~> [](colour = Alarm /\ posted)

(* Callbacks that still carry an answer from before the alert was raised. *)
OldNews == {t \in Threads : pc[t] = "set" /\ answer[t] # "1"}

(* After the alert was raised the colour can still fall back, but only as often
   as callbacks carry the old answer at that moment: none takes it up any more,
   whatever redis does, and each fall uses one of them up. *)
LapsesRunOut ==
  [][alert = "1" => /\ OldNews' \subseteq OldNews
                    /\ (led = 2 /\ led' # 2) => OldNews' # OldNews]_vars

-----------------------------------------------------------------------------
(* The inductive invariants behind these properties.                         *)

(* An answer that says "1" is not older than the alert, which stays. *)
AnswerInv == \A t \in Threads : answer[t] = "1" => alert = "1"

Inv ==
  /\ TypeOK
  /\ JoinInv
  /\ LockHeldByOne
  /\ AnswerInv
  /\ NoFalseAlarm

(* As long as redis works and contexts can be allocated. *)
SteadyInv ==
  /\ TypeOK
  /\ JoinInv
  /\ Connected({"check", "unallocated", "lock", "get", "set"})

=============================================================================
