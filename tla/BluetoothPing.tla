---------------------------- MODULE BluetoothPing ----------------------------
(***************************************************************************)
(* Bluetooth::ping of src/modules/BLE and of both clients: Count echo      *)
(* requests to a device, one after the other, each with a timeout, and the *)
(* counters that the statistics are made from.                             *)
(*                                                                         *)
(* The counters are static and go on from ping to ping; the handler of     *)
(* SIGINT computes the loss from them whenever the signal comes.  Their    *)
(* increments are taken in the order of the source.                        *)
(*                                                                         *)
(* The radio keeps the order of what it carries.  Every ping has a socket  *)
(* of its own, but a late answer to an earlier one reaches the socket that *)
(* is open then.  Packets of other programs, the payload and the times are *)
(* not modelled.                                                           *)
(***************************************************************************)
EXTENDS Integers, Sequences

CONSTANTS
  Count,    \* requests of a ping (10 in the clients)
  ident,    \* first id of a ping (200)
  LastId,   \* last one before it starts again (254)
  MaxSent,  \* bound of the model: requests that count until getInstance
  MaxAir,   \* bound of the model: answers on their way when a ping starts
  Faults    \* which of AllFaults the environment may inject

(***************************************************************************)
(* late    an answer comes after the timeout                               *)
(* lost    an answer does not come                                         *)
(* signal  SIGINT                                                          *)
(* error   socket, bind, connect, send or recv fail, or the device rejects *)
(***************************************************************************)
AllFaults == {"late", "lost", "signal", "error"}

ASSUME PingAssumption ==
  /\ Count \in Nat \ {0}
  /\ ident \in Nat
  /\ LastId \in Nat
  /\ ident <= LastId
  /\ MaxSent \in Nat
  /\ MaxAir \in Nat
  /\ Faults \subseteq AllFaults

VARIABLES
  pc,          \* "idle", or where ping is
  count,       \* requests left
  id,
  sent_pkt,
  recv_pkt,
  loss,
  samples,     \* round trips that latency is the sum of
  result,      \* what the last ping returned
  air,         \* answers on their way: their id, and whether they are to the
               \* request that ping is waiting for
  unanswered,  \* history: requests that timed out since getInstance
  abandoned,   \* history: a ping has ended before an answer to it came
  mistaken     \* history: an answer to another request was counted

counters == <<sent_pkt, recv_pkt, loss>>
history  == <<unanswered, abandoned, mistaken>>
vars == <<pc, count, id, counters, samples, result, air, history>>

Init ==
  /\ pc = "idle"
  /\ count = 0
  /\ id = ident
  /\ sent_pkt = 0
  /\ recv_pkt = 0
  /\ loss = 0
  /\ samples = 0
  /\ result = 0
  /\ air = <<>>
  /\ unanswered = 0
  /\ abandoned = FALSE
  /\ mistaken = FALSE

-----------------------------------------------------------------------------

(* stat; 0 - 0 is 0 too. *)
Loss == sent_pkt - recv_pkt

(* The answers that are still to come are to nobody's request any more. *)
Orphans == [i \in DOMAIN air |-> [air[i] EXCEPT !.own = FALSE]]

(* Mutant: the ids go on after the last one. *)
NextIdOn == id + 1

NextId == IF id + 1 > LastId THEN ident ELSE id + 1

(* An exception: the socket is closed, -1 is returned, stat is not called. *)
Fail ==
  /\ pc' = "idle"
  /\ result' = -1
  /\ air' = Orphans
  /\ abandoned' = (abandoned \/ air # <<>>)

(* getInstance resets the counters each time: _instance stays NULL, because the
   local variable of that name hides it. *)
GetInstance ==
  /\ pc = "idle"
  /\ sent_pkt' = 0
  /\ recv_pkt' = 0
  /\ loss' = 0
  /\ unanswered' = 0
  /\ UNCHANGED <<pc, count, id, samples, result, air, abandoned, mistaken>>

Start ==
  /\ pc = "idle"
  /\ sent_pkt + Count <= MaxSent
  /\ Len(air) <= MaxAir
  /\ \/ /\ pc' = "send"
        /\ UNCHANGED <<result, air, abandoned>>
     \/ "error" \in Faults /\ Fail
  /\ count' = Count
  /\ id' = ident
  /\ samples' = 0
  /\ UNCHANGED <<counters, unanswered, mistaken>>

(* Mutant: a request counts when it is sent. *)
SendCounts ==
  /\ pc = "send"
  /\ count > 0
  /\ count' = count - 1
  /\ sent_pkt' = sent_pkt + 1
  /\ \/ /\ pc' = "wait"
        /\ air' = Append(air, [id |-> id, own |-> TRUE])
        /\ UNCHANGED <<result, abandoned>>
     \/ "error" \in Faults /\ Fail
  /\ UNCHANGED <<id, recv_pkt, loss, samples, unanswered, mistaken>>

(* The request; its answer is on its way from then on. *)
Send ==
  /\ pc = "send"
  /\ count > 0
  /\ count' = count - 1
  /\ \/ /\ pc' = "wait"
        /\ air' = Append(air, [id |-> id, own |-> TRUE])
        /\ UNCHANGED <<result, abandoned>>
     \/ "error" \in Faults /\ Fail
  /\ UNCHANGED <<id, counters, samples, unanswered, mistaken>>

(* An answer with another id is read and ignored.  A rejection in place of the
   answer, or a recv that fails, ends the ping. *)
Receive ==
  /\ pc = "wait"
  /\ air # <<>>
  /\ LET answer == Head(air)
     IN  \/ /\ answer.id # id
            /\ air' = Tail(air)
            /\ UNCHANGED <<pc, result, sent_pkt, abandoned, mistaken>>
         \/ /\ answer.id = id
            /\ air' = Tail(air)
            /\ sent_pkt' = sent_pkt + 1
            /\ mistaken' = (mistaken \/ ~answer.own)
            /\ pc' = "answered"
            /\ UNCHANGED <<result, abandoned>>
         \/ /\ "error" \in Faults
            /\ Fail
            /\ UNCHANGED <<sent_pkt, mistaken>>
  /\ UNCHANGED <<count, id, recv_pkt, loss, samples, unanswered>>

(* Mutant: after a timeout the next request is sent. *)
TimeoutGoesOn ==
  /\ pc = "wait"
  /\ sent_pkt' = sent_pkt + 1
  /\ unanswered' = unanswered + 1
  /\ pc' = "send"
  /\ id' = NextId
  /\ air' = Orphans
  /\ UNCHANGED <<count, recv_pkt, loss, samples, result, abandoned, mistaken>>

(* Mutant: after a timeout the wait begins anew. *)
TimeoutWaits ==
  /\ pc = "wait"
  /\ sent_pkt + Count <= MaxSent
  /\ sent_pkt' = sent_pkt + 1
  /\ unanswered' = unanswered + 1
  /\ UNCHANGED <<pc, air, result, abandoned, count, id, recv_pkt, loss, samples,
                 mistaken>>

(* poll returns 0: the request counts, and the ping is over. *)
Timeout ==
  /\ pc = "wait"
  /\ {"late", "lost"} \cap Faults # {}
  /\ sent_pkt' = sent_pkt + 1
  /\ unanswered' = unanswered + 1
  /\ Fail
  /\ UNCHANGED <<count, id, recv_pkt, loss, samples, mistaken>>

NextRequest ==
  /\ pc = "answered"
  /\ recv_pkt' = recv_pkt + 1
  /\ samples' = samples + 1
  /\ id' = NextId
  /\ pc' = "send"
  /\ UNCHANGED <<count, sent_pkt, loss, result, air, history>>

Finish ==
  /\ pc = "send"
  /\ count = 0
  /\ loss' = Loss
  /\ result' = 0
  /\ pc' = "idle"
  /\ UNCHANGED <<count, id, sent_pkt, recv_pkt, samples, air, history>>

(* The handler is installed by the first ping.  If the signal finds this thread
   in poll, that fails with EINTR. *)
Signal ==
  /\ "signal" \in Faults
  /\ loss' = Loss
  /\ \/ UNCHANGED <<pc, result, air, abandoned>>
     \/ pc = "wait" /\ Fail
  /\ UNCHANGED <<count, id, sent_pkt, recv_pkt, samples, unanswered, mistaken>>

(* An answer does not arrive, or arrives when no socket is open. *)
Vanish ==
  /\ air # <<>>
  /\ "lost" \in Faults \/ pc = "idle"
  /\ air' = Tail(air)
  /\ UNCHANGED <<pc, count, id, counters, samples, result, history>>

-----------------------------------------------------------------------------

Ping == Send \/ Receive \/ Timeout \/ NextRequest \/ Finish

Next == GetInstance \/ Start \/ Ping \/ Signal \/ Vanish

(* The thread keeps running, and the timers fire. *)
Spec == Init /\ [][Next]_vars /\ WF_vars(Ping)

-----------------------------------------------------------------------------
(* Properties.                                                               *)

Ids == ident .. LastId

TypeOK ==
  /\ pc \in {"idle", "send", "wait", "answered"}
  /\ count \in 0 .. Count
  /\ id \in Ids
  /\ sent_pkt \in Nat
  /\ recv_pkt \in Nat
  /\ loss \in Int
  /\ samples \in 0 .. Count
  /\ result \in {-1, 0}
  /\ air \in Seq([id : Ids, own : BOOLEAN])
  /\ unanswered \in Nat
  /\ abandoned \in BOOLEAN
  /\ mistaken \in BOOLEAN

(* When a ping has returned 0, the loss is the number of requests that timed out
   in all the pings since getInstance, not in this one: interrupted or rejected
   requests do not count, and signals that came in between leave no trace. *)
LossIsUnanswered ==
  pc = "idle" /\ result = 0 => loss = unanswered

(* A ping that returns 0 has measured every one of its requests. *)
SuccessMeasuresAll ==
  [][pc # "idle" /\ pc' = "idle" /\ result' = 0 => samples = Count]_vars

(* An answer is taken for the answer to another request only if an earlier ping
   was given up while its answer was on its way: within a ping the ids, though
   they start again after LastId, cannot be mixed up. *)
AnswersMatch == mistaken => abandoned

(* A ping comes to an end, whatever is late or lost. *)
PingEnds == pc # "idle" ~> pc = "idle"

-----------------------------------------------------------------------------
(* The inductive invariant behind these properties.                          *)

(* What the counters say at every step of a ping. *)
CountersInv ==
  /\ sent_pkt = recv_pkt + unanswered + (IF pc = "answered" THEN 1 ELSE 0)
  /\ pc = "send" => samples + count = Count
  /\ pc \in {"wait", "answered"} => samples + count + 1 = Count

(* As long as no ping was given up with an answer on its way, only the answer
   that is waited for can be. *)
AirInv ==
  ~abandoned => \/ air = <<>>
                \/ pc = "wait" /\ air = <<[id |-> id, own |-> TRUE]>>

Inv ==
  /\ TypeOK
  /\ CountersInv
  /\ AirInv
  /\ LossIsUnanswered
  /\ AnswersMatch

=============================================================================
