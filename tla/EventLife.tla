----------------------------- MODULE EventLife -----------------------------
(***************************************************************************)
(* What the event bus promises the code that emits events, and no more:    *)
(* once stored an event is never lost; it becomes processed only when all  *)
(* its handlers have completed.  A status other than that is provisional:  *)
(* deliveries that overlap write their conclusions in any order, so even a *)
(* processed or dead event may be found open again.                        *)
(*                                                                         *)
(* EventBus implements it (EventBus.tla, Promise); PolicyPublication, which*)
(* decides on an event's status, is built on it.                           *)
(***************************************************************************)
CONSTANT Events

VARIABLES
  st,     \* absent, open (pending or failed), processed or dead
  handled \* every handler has completed at least once

vars == <<st, handled>>

Init ==
  /\ st = [e \in Events |-> "absent"]
  /\ handled = [e \in Events |-> FALSE]

Store(e) ==
  /\ st[e] = "absent"
  /\ st' = [st EXCEPT ![e] = "open"]
  /\ UNCHANGED handled

(* The last handler that had not completed yet does, under some delivery.  *)
Handle(e) ==
  /\ st[e] # "absent"
  /\ ~handled[e]
  /\ handled' = [handled EXCEPT ![e] = TRUE]
  /\ UNCHANGED st

Conclude(e, s) ==
  /\ st[e] \notin {"absent", s}
  /\ st' = [st EXCEPT ![e] = s]
  /\ UNCHANGED handled

Process(e) == handled[e] /\ Conclude(e, "processed")
GiveUp(e)  == Conclude(e, "dead")

(* An administrator's retry, or the late word of an overlapping delivery.  *)
Reopen(e)  == Conclude(e, "open")

Next == \E e \in Events : Store(e) \/ Handle(e) \/ Process(e) \/ GiveUp(e) \/ Reopen(e)

Spec == Init /\ [][Next]_vars
=============================================================================
