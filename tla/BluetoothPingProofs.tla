------------------------- MODULE BluetoothPingProofs -------------------------
(***************************************************************************)
(* What ping promises for any number of requests, any range of ids and any *)
(* subset of the faults.                                                   *)
(***************************************************************************)
EXTENDS BluetoothPing, TLAPS

USE DEF Ids

(* What an answer on its way looks like, for facts about sequences of them. *)
Answers == [id : Ids, own : BOOLEAN]

(* The next id of a ping is an id. *)
LEMMA NextIdInRange ==
  ASSUME id \in Ids PROVE NextId \in Ids
BY PingAssumption DEF NextId

(* The answers that have lost their ping are the same ones in the same order. *)
LEMMA OrphansTyped ==
  ASSUME air \in Seq(Answers)
  PROVE  Orphans \in Seq(Answers) /\ (air = <<>> => Orphans = <<>>)
<1>2. DOMAIN air = 1 .. Len(air) /\ Len(air) \in Nat
  OBVIOUS
<1>1. ASSUME NEW i \in DOMAIN air PROVE [air[i] EXCEPT !.own = FALSE] \in Answers
  <2>1. air[i] \in Answers
    BY <1>2
  <2>. QED BY <2>1 DEF Answers
<1>3. Orphans \in [1 .. Len(air) -> Answers]
  BY <1>1, <1>2 DEF Orphans
<1>4. Orphans \in Seq(Answers)
  BY <1>2, <1>3
<1>5. ASSUME air = <<>> PROVE Orphans = <<>>
  <2>1. Len(air) = 0
    BY <1>5
  <2>2. DOMAIN Orphans = 1 .. 0
    BY <1>2, <2>1 DEF Orphans
  <2>. QED BY <1>4, <2>2
<1>. QED BY <1>4, <1>5

(* An exception leaves the types alone, and keeps the promise of AirInv. *)
LEMMA FailTyped ==
  ASSUME air \in Seq(Answers), abandoned \in BOOLEAN, Fail
  PROVE  /\ pc' = "idle"
         /\ result' = -1
         /\ air' \in Seq(Answers)
         /\ abandoned' \in BOOLEAN
         /\ abandoned => abandoned'
         /\ ~abandoned' => air' = <<>>
BY OrphansTyped DEF Fail

(* The initial state is one that the invariant allows. *)
LEMMA InitInv == Init => Inv
<1> SUFFICES ASSUME Init PROVE Inv
  OBVIOUS
<1>1. ident \in Ids /\ Count \in Nat
  BY PingAssumption
<1>2. /\ air \in Seq(Answers)
      /\ abandoned \in BOOLEAN
      /\ mistaken \in BOOLEAN
  <2>1. air = <<>>
    BY DEF Init
  <2>2. air \in Seq(Answers)
    BY <2>1
  <2>3. abandoned = FALSE /\ mistaken = FALSE
    BY DEF Init
  <2>4. abandoned \in BOOLEAN /\ mistaken \in BOOLEAN
    BY <2>3
  <2>. QED BY <2>2, <2>4
<1>3. TypeOK
  BY <1>1, <1>2 DEF Init, TypeOK, Answers
<1>4. CountersInv /\ LossIsUnanswered
  BY DEF Init, CountersInv, LossIsUnanswered
<1>5. AirInv /\ AnswersMatch
  BY DEF Init, AirInv, AnswersMatch
<1>. QED BY <1>3, <1>4, <1>5 DEF Inv

(* Types are kept by every step. *)
LEMMA TypeStep == Inv /\ [Next]_vars => TypeOK'
<1> SUFFICES ASSUME Inv, [Next]_vars PROVE TypeOK'
  OBVIOUS
<1>1. TypeOK /\ CountersInv
  BY DEF Inv
<1>2. air \in Seq(Answers) /\ abandoned \in BOOLEAN
  BY <1>1 DEF TypeOK, Answers
<1>3. Count \in Nat /\ ident \in Ids
  BY PingAssumption
<1>4. CASE GetInstance
  BY <1>1, <1>4 DEF TypeOK, GetInstance
<1>5. CASE Start
  <2>1. CASE Fail
    <3>1. pc' = "idle" /\ result' = -1 /\ air' \in Seq(Answers)
          /\ abandoned' \in BOOLEAN
      BY <1>2, <2>1, FailTyped
    <3>. QED BY <1>1, <1>3, <1>5, <3>1 DEF TypeOK, Start, counters, Answers
  <2>2. CASE pc' = "send" /\ UNCHANGED <<result, air, abandoned>>
    BY <1>1, <1>3, <1>5, <2>2 DEF TypeOK, Start, counters
  <2>. QED BY <1>5, <2>1, <2>2 DEF Start
<1>6. CASE Send
  <2>0. count' \in 0 .. Count
    BY <1>1, <1>3, <1>6 DEF TypeOK, Send
  <2>1. CASE Fail
    <3>1. pc' = "idle" /\ result' = -1 /\ air' \in Seq(Answers)
          /\ abandoned' \in BOOLEAN
      BY <1>2, <2>1, FailTyped
    <3>. QED BY <1>1, <1>6, <2>0, <3>1 DEF TypeOK, Send, counters, Answers
  <2>2. CASE /\ pc' = "wait"
             /\ air' = Append(air, [id |-> id, own |-> TRUE])
             /\ UNCHANGED <<result, abandoned>>
    <3>1. [id |-> id, own |-> TRUE] \in Answers
      BY <1>1 DEF TypeOK, Answers
    <3>2. air' \in Seq(Answers)
      BY <1>2, <2>2, <3>1
    <3>. QED BY <1>1, <1>6, <2>0, <2>2, <3>2 DEF TypeOK, Send, counters, Answers
  <2>. QED BY <1>6, <2>1, <2>2 DEF Send
<1>7. CASE Receive
  <2>0. UNCHANGED <<count, id, recv_pkt, loss, samples, unanswered>>
    BY <1>7 DEF Receive
  <2>1. CASE Fail /\ UNCHANGED <<sent_pkt, mistaken>>
    <3>1. pc' = "idle" /\ result' = -1 /\ air' \in Seq(Answers)
          /\ abandoned' \in BOOLEAN
      BY <1>2, <2>1, FailTyped
    <3>. QED BY <1>1, <2>0, <2>1, <3>1 DEF TypeOK, Answers
  <2>2. CASE air # <<>> /\ air' = Tail(air)
    <3>1. air' \in Seq(Answers)
      BY <1>2, <2>2
    <3>2. Head(air) \in Answers
      BY <1>2, <2>2
    <3>3. sent_pkt' \in Nat /\ mistaken' \in BOOLEAN /\ abandoned' \in BOOLEAN
          /\ pc' \in {"idle", "send", "wait", "answered"} /\ result' \in {-1, 0}
      <4>1. CASE UNCHANGED <<pc, result, sent_pkt, abandoned, mistaken>>
        BY <1>1, <4>1 DEF TypeOK
      <4>2. CASE /\ sent_pkt' = sent_pkt + 1
                 /\ mistaken' = (mistaken \/ ~Head(air).own)
                 /\ pc' = "answered"
                 /\ UNCHANGED <<result, abandoned>>
        <5>1. mistaken' \in BOOLEAN
          BY <4>2
        <5>. QED BY <1>1, <4>2, <5>1 DEF TypeOK
      <4>3. CASE Fail /\ UNCHANGED <<sent_pkt, mistaken>>
        <5>1. pc' = "idle" /\ result' = -1 /\ abandoned' \in BOOLEAN
          BY <1>2, <4>3, FailTyped
        <5>. QED BY <1>1, <4>3, <5>1 DEF TypeOK
      <4>. QED BY <1>7, <4>1, <4>2, <4>3 DEF Receive
    <3>. QED BY <1>1, <2>0, <3>1, <3>3 DEF TypeOK, Answers
  <2>. QED BY <1>7, <2>1, <2>2 DEF Receive
<1>8. CASE Timeout
  <2>1. pc' = "idle" /\ result' = -1 /\ air' \in Seq(Answers)
        /\ abandoned' \in BOOLEAN
    BY <1>2, <1>8, FailTyped DEF Timeout
  <2>. QED BY <1>1, <1>8, <2>1 DEF TypeOK, Timeout, Answers
<1>9. CASE NextRequest
  <2>1. id' \in Ids
    BY <1>1, <1>9, NextIdInRange DEF NextRequest, TypeOK
  <2>2. samples' \in 0 .. Count
    BY <1>1, <1>3, <1>9 DEF NextRequest, TypeOK, CountersInv
  <2>. QED BY <1>1, <1>9, <2>1, <2>2 DEF TypeOK, NextRequest, history
<1>10. CASE Finish
  BY <1>1, <1>10 DEF TypeOK, Finish, Loss, history
<1>11. CASE Signal
  <2>0. loss' \in Int
    BY <1>1, <1>11 DEF TypeOK, Signal, Loss
  <2>1. CASE Fail
    <3>1. pc' = "idle" /\ result' = -1 /\ air' \in Seq(Answers)
          /\ abandoned' \in BOOLEAN
      BY <1>2, <2>1, FailTyped
    <3>. QED BY <1>1, <1>11, <2>0, <3>1 DEF TypeOK, Signal, Answers
  <2>2. CASE UNCHANGED <<pc, result, air, abandoned>>
    BY <1>1, <1>11, <2>0, <2>2 DEF TypeOK, Signal
  <2>. QED BY <1>11, <2>1, <2>2 DEF Signal
<1>12. CASE Vanish
  <2>1. air' \in Seq(Answers)
    BY <1>2, <1>12 DEF Vanish
  <2>. QED BY <1>1, <1>12, <2>1 DEF TypeOK, Vanish, counters, history, Answers
<1>13. CASE UNCHANGED vars
  BY <1>1, <1>13 DEF TypeOK, vars, counters, history
<1>. QED
  BY <1>4, <1>5, <1>6, <1>7, <1>8, <1>9, <1>10, <1>11, <1>12, <1>13
  DEF Next, Ping

(* The counters fit together after every step. *)
LEMMA CountersStep == Inv /\ [Next]_vars => CountersInv' /\ LossIsUnanswered'
<1> SUFFICES ASSUME Inv, [Next]_vars PROVE CountersInv' /\ LossIsUnanswered'
  OBVIOUS
<1>1. /\ count \in Nat /\ samples \in Nat /\ sent_pkt \in Nat /\ recv_pkt \in Nat
      /\ unanswered \in Nat /\ loss \in Int /\ Count \in Nat
      /\ CountersInv /\ LossIsUnanswered
  BY PingAssumption DEF Inv, TypeOK
<1>2. ASSUME Fail PROVE pc' = "idle" /\ result' = -1
  BY <1>2 DEF Fail
<1>. USE DEF CountersInv, LossIsUnanswered
<1>4. CASE GetInstance
  BY <1>1, <1>4 DEF GetInstance
<1>5. CASE Start
  BY <1>1, <1>2, <1>5 DEF Start, counters
<1>6. CASE Send
  BY <1>1, <1>2, <1>6 DEF Send, counters
<1>7. CASE Receive
  BY <1>1, <1>2, <1>7 DEF Receive
<1>8. CASE Timeout
  BY <1>1, <1>2, <1>8 DEF Timeout
<1>9. CASE NextRequest
  BY <1>1, <1>9 DEF NextRequest, history
<1>10. CASE Finish
  BY <1>1, <1>10 DEF Finish, Loss, history
<1>11. CASE Signal
  BY <1>1, <1>2, <1>11 DEF Signal, Loss
<1>12. CASE Vanish
  BY <1>1, <1>12 DEF Vanish, counters, history
<1>13. CASE UNCHANGED vars
  BY <1>1, <1>13 DEF vars, counters, history
<1>. QED
  BY <1>4, <1>5, <1>6, <1>7, <1>8, <1>9, <1>10, <1>11, <1>12, <1>13
  DEF Next, Ping

(* No step of a ping that nothing disturbed puts a strange answer on its way. *)
LEMMA AirStep == Inv /\ [Next]_vars => AirInv' /\ AnswersMatch'
<1> SUFFICES ASSUME Inv, [Next]_vars PROVE AirInv' /\ AnswersMatch'
  OBVIOUS
<1>1. /\ air \in Seq(Answers) /\ abandoned \in BOOLEAN /\ mistaken \in BOOLEAN
      /\ AirInv /\ AnswersMatch
  BY DEF Inv, TypeOK, Answers
<1>2. ASSUME Fail
      PROVE  pc' = "idle" /\ (abandoned => abandoned') /\ AirInv'
  BY <1>1, <1>2, FailTyped DEF AirInv
<1>3. DEFINE own == [id |-> id, own |-> TRUE]
<1>4. Tail(<<own>>) = <<>> /\ Head(<<own>>) = own /\ own.own
  OBVIOUS
<1>5. CASE GetInstance
  BY <1>1, <1>5 DEF GetInstance, AirInv, AnswersMatch
<1>6. CASE Start
  <2>1. CASE Fail
    BY <1>1, <1>2, <1>6, <2>1 DEF Start, AnswersMatch
  <2>2. CASE pc' = "send" /\ UNCHANGED <<result, air, abandoned>>
    BY <1>1, <1>6, <2>2 DEF Start, AirInv, AnswersMatch
  <2>. QED BY <1>6, <2>1, <2>2 DEF Start
<1>7. CASE Send
  <2>1. CASE Fail
    BY <1>1, <1>2, <1>7, <2>1 DEF Send, AnswersMatch
  <2>2. CASE pc' = "wait" /\ air' = Append(air, own) /\ UNCHANGED <<result, abandoned>>
    <3>1. ASSUME ~abandoned PROVE air' = <<own>>
      <4>1. air = <<>>
        BY <1>1, <1>7, <3>1 DEF Send, AirInv
      <4>. QED BY <2>2, <4>1
    <3>. QED BY <1>1, <1>7, <2>2, <3>1 DEF Send, AirInv, AnswersMatch
  <2>. QED BY <1>7, <2>1, <2>2 DEF Send
<1>8. CASE Receive
  <2>1. CASE Fail /\ UNCHANGED <<sent_pkt, mistaken>>
    BY <1>1, <1>2, <2>1 DEF AnswersMatch
  <2>2. ASSUME air' = Tail(air), UNCHANGED abandoned,
               \/ UNCHANGED mistaken
               \/ mistaken' = (mistaken \/ ~Head(air).own)
        PROVE  AirInv' /\ AnswersMatch'
    <3>1. ASSUME ~abandoned PROVE air = <<own>>
      BY <1>1, <1>8, <3>1 DEF Receive, AirInv
    <3>2. ASSUME ~abandoned PROVE air' = <<>> /\ ~mistaken'
      BY <1>1, <1>4, <2>2, <3>1, <3>2 DEF AnswersMatch
    <3>. QED BY <2>2, <3>2 DEF AirInv, AnswersMatch
  <2>. QED BY <1>8, <2>1, <2>2 DEF Receive
<1>9. CASE Timeout
  BY <1>1, <1>2, <1>9 DEF Timeout, AnswersMatch
<1>10. CASE NextRequest
  BY <1>1, <1>10 DEF NextRequest, history, AirInv, AnswersMatch
<1>11. CASE Finish
  BY <1>1, <1>11 DEF Finish, history, AirInv, AnswersMatch
<1>12. CASE Signal
  <2>1. CASE Fail
    BY <1>1, <1>2, <1>12, <2>1 DEF Signal, AnswersMatch
  <2>2. CASE UNCHANGED <<pc, result, air, abandoned>>
    BY <1>1, <1>12, <2>2 DEF Signal, AirInv, AnswersMatch
  <2>. QED BY <1>12, <2>1, <2>2 DEF Signal
<1>13. CASE Vanish
  <2>1. ASSUME ~abandoned PROVE air' = <<>>
    BY <1>1, <1>4, <1>13, <2>1 DEF Vanish, AirInv
  <2>. QED BY <1>1, <1>13, <2>1 DEF Vanish, history, AirInv, AnswersMatch
<1>14. CASE UNCHANGED vars
  BY <1>1, <1>14 DEF vars, history, AirInv, AnswersMatch
<1>. QED
  BY <1>5, <1>6, <1>7, <1>8, <1>9, <1>10, <1>11, <1>12, <1>13, <1>14
  DEF Next, Ping

LEMMA StepInv == Inv /\ [Next]_vars => Inv'
BY TypeStep, CountersStep, AirStep DEF Inv

(* The invariant of ping: see CountersInv and AirInv. *)
THEOREM InvHolds == Spec => []Inv
BY InitInv, StepInv, PTL DEF Spec

(* Types, for any number of requests and any range of ids. *)
THEOREM TypesHold == Spec => []TypeOK
BY InvHolds, PTL DEF Inv

(* After a ping that returned 0 the loss is the number of requests that timed
   out since getInstance. *)
THEOREM LossCounted == Spec => []LossIsUnanswered
BY InvHolds, PTL DEF Inv

(* Only a ping that was given up lets an answer be taken for another. *)
THEOREM AnswersMatched == Spec => []AnswersMatch
BY InvHolds, PTL DEF Inv

(* A ping returns 0 only after a sample for each of its requests. *)
THEOREM AllMeasured == Spec => SuccessMeasuresAll
<1>1. ASSUME Inv, [Next]_vars
      PROVE  [pc # "idle" /\ pc' = "idle" /\ result' = 0 => samples = Count]_vars
  <2>1. samples \in Nat /\ Count \in Nat /\ (pc = "send" => samples + count = Count)
    BY <1>1, PingAssumption DEF Inv, TypeOK, CountersInv
  <2>2. ASSUME Fail PROVE result' = -1
    BY <2>2 DEF Fail
  <2>3. ASSUME pc # "idle", pc' = "idle", result' = 0, Next PROVE samples = Count
    <3>1. Finish
      BY <2>2, <2>3 DEF Next, Ping, GetInstance, Start, Send, Receive, Timeout,
         NextRequest, Signal, Vanish
    <3>. QED BY <2>1, <3>1 DEF Finish
  <2>. QED BY <1>1, <2>3
<1>. QED BY <1>1, InvHolds, PTL DEF Spec, SuccessMeasuresAll

=============================================================================
