-------------------------------- MODULE Rounds --------------------------------
(***************************************************************************)
(* What the server promises to its observers, seen from outside: a round   *)
(* of notifications owes one to everybody who is interested when it        *)
(* begins, pays each debt once, whoever joins in the meantime, and ends    *)
(* well only when nothing is owed.  A departure that overlaps the round    *)
(* excuses it, and so does a notification that cannot be sent: only an     *)
(* excused round may fail.  Whoever leaves without a word stays among the  *)
(* interested as lost, and excuses every round until he joins or leaves.   *)
(***************************************************************************)
CONSTANTS
  Observers,
  Notifiers,   \* who runs rounds, each one at a time
  MayFail      \* a notification may fail

VARIABLES
  interested,  \* who is to be notified
  leaving,     \* who is about to be taken out of it
  lost,        \* who is in it and cannot be notified any more
  phase,       \* "idle", "open", "excused" or "failed", of each notifier
  owed         \* whom its open round has not notified yet

roundVars == <<phase, owed>>
members == <<interested, leaving, lost>>
vars == <<members, roundVars>>

Init ==
  /\ interested = {}
  /\ leaving = {}
  /\ lost = {}
  /\ phase = [n \in Notifiers |-> "idle"]
  /\ owed = [n \in Notifiers |-> {}]

Become(n, p) == phase' = [phase EXCEPT ![n] = p]

ExcuseAll ==
  /\ phase' = [n \in Notifiers |->
                 IF phase[n] = "open" THEN "excused" ELSE phase[n]]
  /\ owed' = [n \in Notifiers |-> {}]

-----------------------------------------------------------------------------

Join(o) ==
  /\ o \notin interested \ lost
  /\ leaving = {}
  /\ interested' = interested \cup {o}
  /\ lost' = lost \ {o}
  /\ UNCHANGED <<leaving, roundVars>>

Leave(o) ==
  /\ leaving = {}
  /\ o \in interested \ lost
  /\ leaving' = {o}
  /\ ExcuseAll
  /\ UNCHANGED <<interested, lost>>

Left ==
  /\ leaving # {}
  /\ leaving' = {}
  /\ interested' = interested \ leaving
  /\ UNCHANGED <<lost, roundVars>>

Vanish(o) ==
  /\ leaving = {}
  /\ o \in interested \ lost
  /\ lost' = lost \cup {o}
  /\ ExcuseAll
  /\ UNCHANGED <<interested, leaving>>

Begin(n) ==
  /\ phase[n] = "idle"
  /\ \/ /\ leaving \cup lost = {}
        /\ Become(n, "open")
        /\ owed' = [owed EXCEPT ![n] = interested]
     \/ /\ leaving \cup lost # {}
        /\ Become(n, "excused")
        /\ UNCHANGED owed
  /\ UNCHANGED members

Notify(n) ==
  /\ phase[n] = "open"
  /\ \E o \in owed[n] : owed' = [owed EXCEPT ![n] = @ \ {o}]
  /\ UNCHANGED <<members, phase>>

Excuse(n) ==
  /\ MayFail
  /\ phase[n] = "open"
  /\ Become(n, "excused")
  /\ owed' = [owed EXCEPT ![n] = {}]
  /\ UNCHANGED members

End(n) ==
  /\ \/ /\ phase[n] = "open"
        /\ owed[n] = {}
        /\ Become(n, "idle")
     \/ /\ phase[n] = "excused"
        /\ Become(n, "idle") \/ Become(n, "failed")
  /\ UNCHANGED <<members, owed>>

(* A notifier that gave up may be started again. *)
Resume(n) ==
  /\ phase[n] = "failed"
  /\ Become(n, "idle")
  /\ UNCHANGED <<members, owed>>

Next ==
  \/ \E o \in Observers : Join(o) \/ Leave(o) \/ Vanish(o)
  \/ Left
  \/ \E n \in Notifiers :
       \/ Begin(n)
       \/ Notify(n)
       \/ Excuse(n)
       \/ End(n)
       \/ Resume(n)

Spec == Init /\ [][Next]_vars

=============================================================================
