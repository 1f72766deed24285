--------------------------- MODULE WorkflowEngine ---------------------------
(***************************************************************************)
(* One workflow instance (launcher/routes_workflows.py): each step gives   *)
(* every holder of its role an action, and whoever decides first decides   *)
(* for all of them.  A decision reads its action, and writes by id in a    *)
(* later statement; two server processes can be between the two at once.   *)
(*                                                                         *)
(* Data abstracted: a definition is the number of its steps.  To whom an   *)
(* action is assigned, which is all that delegating one changes, comments, *)
(* due dates and notices are left out.                                     *)
(***************************************************************************)
EXTENDS Integers, FiniteSets

CONSTANTS
  WActions,     \* ids of workflow_actions
  WCalls,       \* calls of api_workflow_action_decide at one time
  MAX_STEPS,    \* bound on the steps of the definition
  MAX_HOLDERS,  \* bound on the holders of a role
  OneAtATime,   \* TRUE: one server process, so that decisions do not overlap
  StepsKept     \* TRUE: a definition has steps, and is not edited while an instance runs

(* Assumed of the constants. *)
ASSUME EngineAssumption ==
  /\ WActions \subseteq Nat /\ MAX_STEPS \in Nat \ {0} /\ MAX_HOLDERS \in Nat \ {0}
  /\ OneAtATime \in BOOLEAN /\ StepsKept \in BOOLEAN

VARIABLES
  steps,   \* workflow_definitions: the number of steps
  flow,    \* workflow_instances: [st, step]
  act,     \* workflow_actions: [st, step]
  wcall    \* a decision: its action, and the steps it has read

engineVars == <<steps, flow, act, wcall>>

NoAction == -1
FreeCall   == [id |-> NoAction, len |-> 0]

Lengths  == (IF StepsKept THEN 1 ELSE 0) .. MAX_STEPS

EngineInit ==
  /\ steps \in Lengths
  /\ flow  = [st |-> "none", step |-> 0]
  /\ act   = [a \in WActions |-> [st |-> "absent", step |-> 0]]
  /\ wcall = [c \in WCalls |-> FreeCall]

-----------------------------------------------------------------------------
(* _create_step_action: an action for each holder of the role, one when    *)
(* nobody holds it.                                                        *)

Unused == {a \in WActions : act[a].st = "absent"}

Holders ==
  {S \in SUBSET Unused : /\ S # {} /\ Cardinality(S) <= MAX_HOLDERS
                         /\ \A a \in S, b \in Unused \ S : a < b}

WithStep(rows, S, k) ==
  [a \in WActions |-> IF a \in S THEN [st |-> "pending", step |-> k] ELSE rows[a]]

StartFlow ==
  /\ flow.st = "none"
  /\ flow' = [st |-> "active", step |-> 0]
  /\ IF steps = 0 THEN act' = act ELSE \E S \in Holders : act' = WithStep(act, S, 0)
  /\ UNCHANGED <<steps, wcall>>

-----------------------------------------------------------------------------
(* api_workflow_action_decide.                                             *)

Busy == {c \in WCalls : wcall[c] # FreeCall}

(* The status is looked at here, and not again.  (OneAtATime is assumed, of*)
(* a server of one process; nothing in the code asks for it.)              *)
ReadAction(c, a) ==
  /\ wcall[c] = FreeCall /\ act[a].st = "pending"
  /\ OneAtATime => Busy = {}
  /\ wcall' = [wcall EXCEPT ![c] = [id |-> a, len |-> steps]]
  /\ UNCHANGED <<steps, flow, act>>

(* The other holders' actions of the step that still wait.  (Slip: left.)  *)
Slip_Siblings(a) == {}
Siblings(a) ==
  {b \in WActions \ {a} : act[b].st = "pending" /\ act[b].step = act[a].step}

Decided(a, as) ==
  [b \in WActions |-> IF b = a THEN [act[b] EXCEPT !.st = as]
                      ELSE IF b \in Siblings(a) THEN [act[b] EXCEPT !.st = "cancelled"]
                      ELSE act[b]]

(* An approval moves to the next step, and the last one completes.         *)
ApproveStep(c) ==
  LET a == wcall[c].id
      k == act[a].step + 1 IN
  /\ wcall[c] # FreeCall
  /\ \/ /\ k < wcall[c].len
        /\ flow' = [flow EXCEPT !.step = k]
        /\ \E S \in Holders : act' = WithStep(Decided(a, "approved"), S, k)
     \/ /\ k >= wcall[c].len
        /\ flow' = [flow EXCEPT !.st = "completed"]
        /\ act' = Decided(a, "approved")
  /\ wcall' = [wcall EXCEPT ![c] = FreeCall]
  /\ UNCHANGED steps

RejectStep(c) ==
  /\ wcall[c] # FreeCall
  /\ flow' = [flow EXCEPT !.st = "rejected"]
  /\ act' = Decided(wcall[c].id, "rejected")
  /\ wcall' = [wcall EXCEPT ![c] = FreeCall]
  /\ UNCHANGED steps

(* A return goes to a step that is not ahead, if the definition has it.    *)
ReturnStep(c) ==
  LET a == wcall[c].id IN
  /\ wcall[c] # FreeCall
  /\ \E k \in 0 .. act[a].step :
       /\ flow' = [st |-> "active", step |-> k]
       /\ IF k < wcall[c].len
          THEN \E S \in Holders : act' = WithStep(Decided(a, "returned"), S, k)
          ELSE act' = Decided(a, "returned")
  /\ wcall' = [wcall EXCEPT ![c] = FreeCall]
  /\ UNCHANGED steps

(* An error or the death of the process rolls the decision back.           *)
DropDecision(c) ==
  /\ wcall[c] # FreeCall
  /\ wcall' = [wcall EXCEPT ![c] = FreeCall]
  /\ UNCHANGED <<steps, flow, act>>

(* api_workflow_definition_update: running instances follow.               *)
EditDefinition ==
  /\ StepsKept => flow.st # "active"
  /\ steps' \in Lengths
  /\ UNCHANGED <<flow, act, wcall>>

EngineNext ==
  \/ StartFlow
  \/ \E c \in WCalls :
       \/ \E a \in WActions : ReadAction(c, a)
       \/ ApproveStep(c) \/ RejectStep(c) \/ ReturnStep(c) \/ DropDecision(c)
  \/ EditDefinition

EngineSpec == EngineInit /\ [][EngineNext]_engineVars

-----------------------------------------------------------------------------
(* Properties.                                                             *)

EngineTypes ==
  /\ steps \in 0 .. MAX_STEPS
  /\ flow \in [st : {"none", "active", "completed", "rejected"}, step : 0 .. MAX_STEPS - 1]
  /\ act \in [WActions -> [st : {"absent", "pending", "approved", "rejected", "returned", "cancelled"},
                           step : 0 .. MAX_STEPS - 1]]
  /\ wcall \in [WCalls -> [id : WActions \cup {NoAction}, len : 0 .. MAX_STEPS]]

(* What waits is the current step of an instance that runs, and an instance*)
(* that runs waits for somebody: through returns to any earlier step no    *)
(* workflow is stuck, and none that has ended, or has moved on, can be     *)
(* decided again.  Decisions do not overlap, and the definition is kept.   *)
OneStepWaits ==
  /\ \A a \in WActions : act[a].st = "pending" => flow.st = "active" /\ act[a].step = flow.step
  /\ flow.st = "active" => \E a \in WActions : act[a].st = "pending"

(* _create_step_action: "The first to decide cancels the others (first-to- *)
(* respond wins)": an action that was cancelled is not decided after all.  *)
FirstResponderWins ==
  [][\A a \in WActions : act[a].st = "cancelled" => act'[a].st = "cancelled"]_engineVars
=============================================================================
