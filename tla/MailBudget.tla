----------------------------- MODULE MailBudget -----------------------------
(***************************************************************************)
(* How the outbox worker of one process shares the mail of a minute among  *)
(* the organizations (deliver_all_tenants of core/email_outbox.py): a first*)
(* pass gives each its share, in an order that the minute rotates, and a   *)
(* second one gives what is left in the same order.                        *)
(*                                                                         *)
(* What an organization's pass does with its budget is EmailOutbox; here it*)
(* hands over some of what is due, and fails or not.  Data abstracted: the *)
(* minute counts modulo the number of organizations, which is all that the *)
(* order depends on; mail that is due is a number.                          *)
(***************************************************************************)
EXTENDS Integers

CONSTANTS
  N,           \* organizations, numbered 0 .. N - 1 in the order they are listed
  ALLOWANCE,   \* PER_MINUTE
  Strides,     \* minutes from one pass to the next
  MaxDue       \* bound on the mail due in an organization

(* Assumed of the constants. *)
ASSUME BudgetAssumption ==
  /\ N \in Nat \ {0} /\ ALLOWANCE \in Nat /\ Strides \subseteq Nat /\ MaxDue \in Nat

VARIABLES
  minute,
  step,     \* of the pass: "wait", "first" or "spare", and the organizations before it
  budget,   \* left for the process in this minute
  mail,     \* ordinary mail an organization has due
  late      \* history: passes since an organization had a share of its own

budgetVars == <<minute, step, budget, mail, late>>

Tenants == 0 .. N - 1
Between == [at |-> "wait", index |-> 0]

BudgetInit ==
  /\ minute = 0 /\ step = Between /\ budget = ALLOWANCE
  /\ mail \in [Tenants -> 0 .. MaxDue]
  /\ late = [t \in Tenants |-> 0]

(* Slip: the order moves on by one.                                        *)
Slip_Stride == 1
Stride == IF ALLOWANCE \in 1 .. N - 1 THEN ALLOWANCE ELSE 1
Served(index) == (minute * Stride + index) % N
ShareOf(index) == ALLOWANCE \div N + (IF index < ALLOWANCE % N THEN 1 ELSE 0)

Ask(t) ==
  /\ step = Between /\ mail[t] < MaxDue
  /\ mail' = [mail EXCEPT ![t] = @ + 1]
  /\ UNCHANGED <<minute, step, budget, late>>

(* for_each_tenant: after the last one, the second pass, if there is       *)
(* something left, or the end.                                             *)
OnFrom(left) ==
  step' = IF step.index + 1 < N THEN [step EXCEPT !.index = @ + 1]
          ELSE IF step.at = "first" /\ left > 0 THEN [at |-> "spare", index |-> 0]
          ELSE Between

(* The budget of the process is reduced by what the share was used for,    *)
(* also when the organization's pass failed half way.                      *)
FirstPass ==
  /\ step.at = "first"
  /\ LET t == Served(step.index) IN
     /\ \E n \in 0 .. mail[t] :
          /\ n <= ShareOf(step.index)
          /\ mail' = [mail EXCEPT ![t] = @ - n]
          /\ budget' = budget - n
          /\ OnFrom(budget - n)
     /\ late' = [late EXCEPT ![t] = IF ShareOf(step.index) > 0 THEN 0 ELSE @ + 1]
  /\ UNCHANGED minute

(* What is left is for whoever comes first.  (Slip: what there was.)       *)
Slip_Spare == ALLOWANCE
Spare == budget

SparePass ==
  /\ step.at = "spare"
  /\ LET t == Served(step.index) IN
       \E n \in 0 .. mail[t] :
         /\ n <= Spare
         /\ mail' = [mail EXCEPT ![t] = @ - n]
         /\ budget' = budget - n
         /\ OnFrom(budget - n)
  /\ UNCHANGED <<minute, late>>

NextMinute ==
  /\ step = Between
  /\ \E k \in Strides : minute' = (minute + k) % N
  /\ step' = [at |-> "first", index |-> 0]
  /\ budget' = ALLOWANCE
  /\ UNCHANGED <<mail, late>>

BudgetNext == (\E t \in Tenants : Ask(t)) \/ FirstPass \/ SparePass \/ NextMinute

BudgetSpec == BudgetInit /\ [][BudgetNext]_budgetVars

-----------------------------------------------------------------------------
(* Properties.                                                             *)

(* With budget \in 0 .. ALLOWANCE: in one process's pass, all organizations*)
(* together, in both rounds and however they failed, hand over no more than*)
(* its allowance.  (Each server process has an allowance of its own, so two*)
(* of them may hand over twice that in a minute.)                          *)
BudgetTypes ==
  /\ minute \in Tenants
  /\ step \in [at : {"wait", "first", "spare"}, index : Tenants]
  /\ budget \in 0 .. ALLOWANCE
  /\ mail \in [Tenants -> 0 .. MaxDue]
  /\ late \in [Tenants -> Nat]

(* The rotation: with a pass in every minute, an organization is without a *)
(* share of its own only for as long as the others take to get theirs.     *)
SharesGoRound ==
  ALLOWANCE > 0 => \A t \in Tenants : late[t] <= (N - 1) \div ALLOWANCE
=============================================================================
