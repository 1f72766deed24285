--------------------------- MODULE IncidentClock ---------------------------
(***************************************************************************)
(* The acknowledgement clock of a BCM incident (bcm/escalation.py and the  *)
(* incident functions of bcm/data_service.py): the named commander has a   *)
(* window, by severity, to acknowledge; when it ends, the scheduled pass   *)
(* of some server process tells the alternates, once.                      *)
(*                                                                         *)
(* Data abstracted: an incident is its clock and the fields the clock is   *)
(* computed from; telling the alternates is one event, in the transaction  *)
(* of its claim.                                                           *)
(***************************************************************************)
EXTENDS Integers

CONSTANTS
  Commanders,    \* people who may be named
  Editors,       \* calls of update_incident at one time
  Passes,        \* one scheduled pass per server process
  WINDOW,        \* severity -> minutes, 0 for none
  Undisturbed,   \* TRUE: nobody edits between what another call or a pass reads and writes
  MaxTime        \* bound on time

Severities == DOMAIN WINDOW

(* Assumed of the constants. *)
ASSUME ClockAssumption ==
  /\ WINDOW \in [Severities -> Nat] /\ Undisturbed \in BOOLEAN /\ MaxTime \in Nat

VARIABLES
  now,
  inc,        \* the row of bcm_incidents
  before,     \* a call: the row update_incident has read
  listed,     \* a pass: the row it has selected
  told        \* history: notices since the clock was last started

clockVars == <<now, inc, before, listed, told>>

NoOne == "no one"
NoDue == -1
NoRow == [live |-> FALSE]

(* due_from                                                                *)
DueFrom(sev) == IF WINDOW[sev] = 0 THEN NoDue ELSE now + WINDOW[sev]

(* new_clock: who names themselves has acknowledged.                       *)
NewClock(row, actor) ==
  LET d == IF row.live THEN DueFrom(row.sev) ELSE NoDue IN
  [live |-> row.live, sev |-> row.sev, cmd |-> row.cmd,
   due |-> d, ack |-> d # NoDue /\ row.cmd = actor, esc |-> FALSE]

ClockInit ==
  /\ now = 0
  /\ \E sev \in Severities, cmd \in Commanders \cup {NoOne}, actor \in Commanders :
       inc = NewClock([live |-> TRUE, sev |-> sev, cmd |-> cmd, due |-> NoDue,
                       ack |-> FALSE, esc |-> FALSE], actor)
  /\ before = [e \in Editors |-> NoRow]
  /\ listed = [p \in Passes |-> NoRow]
  /\ told = 0

-----------------------------------------------------------------------------
(* update_incident reads the row, and computes what it writes from it.     *)

Reopened(b, row) == ~b.live /\ row.live
HandedOver(b, row) == row.cmd # b.cmd

Restarts(b, row) == row.live /\ (Reopened(b, row) \/ HandedOver(b, row))

(* A severity only shortens what is left.                                  *)
Shortens(b, row) ==
  /\ row.live /\ row.sev # b.sev /\ ~b.ack /\ DueFrom(row.sev) # NoDue
  /\ b.due = NoDue \/ DueFrom(row.sev) < b.due

(* clock_after_update: the row after `row`'s fields are stored over inc.   *)
AfterUpdate(b, row, actor) ==
  LET edited == [live |-> row.live, sev |-> row.sev, cmd |-> row.cmd,
                 due |-> inc.due, ack |-> inc.ack, esc |-> inc.esc] IN
  IF Restarts(b, row) THEN NewClock(edited, actor)
  ELSE IF Shortens(b, row) THEN [edited EXCEPT !.due = DueFrom(row.sev)]
  ELSE edited

ReadRow(e) ==
  /\ before[e] = NoRow
  /\ before' = [before EXCEPT ![e] = inc]
  /\ UNCHANGED <<now, inc, listed, told>>

Alone(e) ==
  /\ \A f \in Editors : f # e => before[f] = NoRow
  /\ \A p \in Passes : listed[p] = NoRow

(* The form sends every field, changed or not.                             *)
Update(e) ==
  /\ before[e] # NoRow
  /\ Undisturbed => Alone(e)
  /\ \E live \in BOOLEAN, sev \in Severities, cmd \in Commanders \cup {NoOne}, actor \in Commanders :
       LET row == [live |-> live, sev |-> sev, cmd |-> cmd] IN
       /\ inc' = AfterUpdate(before[e], row, actor)
       /\ told' = IF Restarts(before[e], row) THEN 0 ELSE told
  /\ before' = [before EXCEPT ![e] = NoRow]
  /\ UNCHANGED <<now, listed>>

DropEdit(e) ==
  /\ before[e] # NoRow
  /\ before' = [before EXCEPT ![e] = NoRow]
  /\ UNCHANGED <<now, inc, listed, told>>

(* acknowledge_incident: the first acknowledgement stands.  (What it reads *)
(* first, but for the status, its update asks again.)                      *)
Acknowledge ==
  /\ inc.live /\ ~inc.ack
  /\ inc' = [inc EXCEPT !.ack = TRUE]
  /\ UNCHANGED <<now, before, listed, told>>

-----------------------------------------------------------------------------
(* escalate_due: select what is due, then claim and tell in a transaction. *)

(* Slip: only an incident with a commander.                                *)
Slip_IfNamed == inc.due # NoDue /\ inc.due <= now /\ ~inc.ack /\ ~inc.esc /\ inc.live /\ inc.cmd # NoOne
IsOverdue == inc.due # NoDue /\ inc.due <= now /\ ~inc.ack /\ ~inc.esc /\ inc.live

Select(p) ==
  /\ listed[p] = NoRow /\ IsOverdue
  /\ listed' = [listed EXCEPT ![p] = inc]
  /\ UNCHANGED <<now, inc, before, told>>

(* The claim asks again for two of the conditions.  (Slip: for one.)       *)
Slip_AskOnlyAck == ~inc.ack
MayEscalate == ~inc.esc /\ ~inc.ack

Escalate(p) ==
  /\ listed[p] # NoRow
  /\ IF MayEscalate
     THEN inc' = [inc EXCEPT !.esc = TRUE] /\ told' = told + 1
     ELSE UNCHANGED <<inc, told>>
  /\ listed' = [listed EXCEPT ![p] = NoRow]
  /\ UNCHANGED <<now, before>>

(* Telling fails and rolls back, or the process dies.                      *)
PassFails(p) ==
  /\ listed[p] # NoRow
  /\ listed' = [listed EXCEPT ![p] = NoRow]
  /\ UNCHANGED <<now, inc, before, told>>

ClockTick ==
  /\ now < MaxTime
  /\ now' = now + 1
  /\ UNCHANGED <<inc, before, listed, told>>

ClockNext ==
  \/ \E e \in Editors : ReadRow(e) \/ Update(e) \/ DropEdit(e)
  \/ Acknowledge
  \/ \E p \in Passes : Select(p) \/ Escalate(p) \/ PassFails(p)
  \/ ClockTick

ClockSpec == ClockInit /\ [][ClockNext]_clockVars

(* The scheduled passes look for what is due, and go on.                   *)
ClockFairness == \A p \in Passes : WF_clockVars(Select(p)) /\ WF_clockVars(Escalate(p))
ClockFairSpec == ClockSpec /\ ClockFairness

-----------------------------------------------------------------------------
(* Properties.                                                             *)

Rows == [live : BOOLEAN, sev : Severities, cmd : Commanders \cup {NoOne},
         due : Nat \cup {NoDue}, ack : BOOLEAN, esc : BOOLEAN]

ClockTypes ==
  /\ now \in 0 .. MaxTime /\ inc \in Rows
  /\ before \in [Editors -> Rows \cup {NoRow}]
  /\ listed \in [Passes -> Rows \cup {NoRow}]
  /\ told \in Nat

(* escalate_due: the alternates are told once for a clock, by whichever of *)
(* the processes that selected the incident together, and only of a live   *)
(* incident whose window has ended without an acknowledgement, also one    *)
(* that comes while a pass already has the incident in its list.           *)
EscalatedOnceWhenDue ==
  [][told' > told => /\ told = 0
                     /\ inc.live /\ inc.due # NoDue /\ inc.due <= now /\ ~inc.ack]_clockVars

(* An incident nobody acknowledged in time does not stay so: it is         *)
(* escalated, acknowledged or edited, once passes stop failing.            *)
PassesWork == <>[][~ \E p \in Passes : PassFails(p) /\ ~Escalate(p)]_clockVars
Unanswered == inc.live /\ ~inc.ack /\ ~inc.esc /\ inc.due # NoDue /\ inc.due <= now
OverdueIsEscalated == PassesWork => (Unanswered ~> ~Unanswered)
=============================================================================
