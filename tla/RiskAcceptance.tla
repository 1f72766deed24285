--------------------------- MODULE RiskAcceptance ---------------------------
(***************************************************************************)
(* Acceptances of one risk (erm/acceptance.py): somebody proposes to accept*)
(* the risk as it is now, somebody else decides, and an approval counts    *)
(* while the risk and its appetite are what was approved.                  *)
(*                                                                         *)
(* propose and decide lock the risk's row, as every edit of the risk does; *)
(* the appetite, revocations and the passing of dates are not locked out.  *)
(*                                                                         *)
(* Data abstracted: the fields of the risk are a number that grows with    *)
(* every edit (updated_at is one of them), the appetite's another; the     *)
(* hash of both is the pair.  A proposal's dates are to come or passed.    *)
(***************************************************************************)
EXTENDS Integers, FiniteSets

CONSTANTS
  Proposals,   \* ids of erm_risk_acceptances
  Users,
  Deciders,    \* calls of decide at one time
  MaxEdits     \* bound on edits of the risk and of the appetite

Free == "free"

(* Assumed of the constants. *)
ASSUME RiskAssumption == MaxEdits \in Nat /\ Free \notin Deciders

VARIABLES
  risk, appetite, closed,
  lock,        \* the call that has the risk's row locked, or Free
  prop,        \* the rows of erm_risk_acceptances
  call         \* a call of decide: where it is, the row it read, its decision

riskVars == <<risk, appetite, closed, lock, prop, call>>

NoProposal == -1
NoUser == "nobody"
None == [st |-> "absent", by |-> NoUser, hash |-> <<0, 0>>, version |-> 0, expired |-> FALSE]
Gone == [at |-> "away", id |-> NoProposal, version |-> 0, user |-> NoUser, as |-> "none"]

RiskInit ==
  /\ risk = 0 /\ appetite = 0 /\ closed = FALSE
  /\ lock = Free
  /\ prop = [a \in Proposals |-> None]
  /\ call = [d \in Deciders |-> Gone]

Snapshot == <<risk, appetite>>

(* The current approvals of the risk as in h.  (Slip: not looked for.)     *)
Slip_Approved(h) == {}
Approved(h) == {a \in Proposals : prop[a].st = "approved" /\ prop[a].hash = h /\ ~prop[a].expired}

(* propose, under the risk's lock.                                         *)
Propose(u) ==
  /\ lock = Free /\ ~closed
  /\ Approved(Snapshot) = {}
  /\ \A a \in Proposals : prop[a].st # "submitted"
  /\ \E a \in Proposals :
       /\ prop[a].st = "absent" /\ \A b \in Proposals : prop[b].st = "absent" => a <= b
       /\ prop' = [prop EXCEPT ![a] = [st |-> "submitted", by |-> u, hash |-> Snapshot,
                                        version |-> 1, expired |-> FALSE]]
  /\ UNCHANGED <<risk, appetite, closed, lock, call>>

-----------------------------------------------------------------------------
(* decide reads the proposal, locks the risk, checks, and writes.          *)

ReadProposal(d) ==
  /\ call[d].at = "away"
  /\ \E a \in Proposals, u \in Users, as \in {"approved", "rejected", "returned"} :
       /\ prop[a].st = "submitted" /\ prop[a].by # u
       /\ call' = [call EXCEPT ![d] = [at |-> "read", id |-> a, version |-> prop[a].version,
                                        user |-> u, as |-> as]]
  /\ UNCHANGED <<risk, appetite, closed, lock, prop>>

LockRisk(d) ==
  /\ call[d].at = "read" /\ lock = Free
  /\ lock' = d
  /\ call' = [call EXCEPT ![d].at = "locked"]
  /\ UNCHANGED <<risk, appetite, closed, prop>>

Refuse(d) ==
  /\ call[d].at \in {"locked", "checked"}
  /\ lock' = Free
  /\ call' = [call EXCEPT ![d] = Gone]
  /\ UNCHANGED <<risk, appetite, closed, prop>>

(* What the decision was made on is what the risk is.  (Slip: unchecked.)  *)
Slip_RiskUnchanged(d) == TRUE
RiskUnchanged(d) == prop[call[d].id].hash = Snapshot

CheckProposal(d) ==
  /\ call[d].at = "locked"
  /\ call[d].as = "approved" =>
       ~prop[call[d].id].expired /\ Approved(prop[call[d].id].hash) = {}
  /\ RiskUnchanged(d)
  /\ call' = [call EXCEPT ![d].at = "checked"]
  /\ UNCHANGED <<risk, appetite, closed, lock, prop>>

(* The update asks for the version that was read, submitted still.         *)
StillOpen(d) == prop[call[d].id].st = "submitted" /\ prop[call[d].id].version = call[d].version

DecideProposal(d) ==
  /\ call[d].at = "checked" /\ StillOpen(d)
  /\ prop' = [prop EXCEPT ![call[d].id].st = call[d].as, ![call[d].id].version = @ + 1]
  /\ lock' = Free
  /\ call' = [call EXCEPT ![d] = Gone]
  /\ UNCHANGED <<risk, appetite, closed>>

(* revoke, on the version its caller has seen.                             *)
Revoke(a) ==
  /\ prop[a].st = "approved"
  /\ prop' = [prop EXCEPT ![a].st = "revoked", ![a].version = @ + 1]
  /\ UNCHANGED <<risk, appetite, closed, lock, call>>

-----------------------------------------------------------------------------
(* Edits and dates.                                                        *)

EditRisk ==
  /\ lock = Free /\ risk < MaxEdits
  /\ risk' = risk + 1 /\ closed' \in BOOLEAN
  /\ UNCHANGED <<appetite, lock, prop, call>>

EditAppetite ==
  /\ appetite < MaxEdits
  /\ appetite' = appetite + 1
  /\ UNCHANGED <<risk, closed, lock, prop, call>>

(* A date of the row has passed: of a proposal review_on, after which it    *)
(* cannot be approved any more; of an approval expires_on, which ends it.   *)
TermEnds(a) ==
  /\ prop[a].st # "absent" /\ ~prop[a].expired
  /\ prop' = [prop EXCEPT ![a].expired = TRUE]
  /\ UNCHANGED <<risk, appetite, closed, lock, call>>

RiskNext ==
  \/ \E u \in Users : Propose(u)
  \/ \E d \in Deciders : ReadProposal(d) \/ LockRisk(d) \/ Refuse(d) \/ CheckProposal(d) \/ DecideProposal(d)
  \/ \E a \in Proposals : Revoke(a) \/ TermEnds(a)
  \/ EditRisk \/ EditAppetite

RiskSpec == RiskInit /\ [][RiskNext]_riskVars

-----------------------------------------------------------------------------
(* Properties.                                                             *)

RiskTypes ==
  /\ risk \in 0 .. MaxEdits /\ appetite \in 0 .. MaxEdits /\ closed \in BOOLEAN
  /\ lock \in Deciders \cup {Free}
  /\ prop \in [Proposals -> [st : {"absent", "submitted", "approved", "rejected", "returned", "revoked"},
                             by : Users \cup {NoUser}, hash : (0 .. MaxEdits) \X (0 .. MaxEdits),
                             version : 0 .. 3, expired : BOOLEAN]]
  /\ call \in [Deciders -> [at : {"away", "read", "locked", "checked"}, id : Proposals \cup {NoProposal},
                            version : 0 .. 3, user : Users \cup {NoUser},
                            as : {"none", "approved", "rejected", "returned"}]]

(* _present: what counts as the risk's acceptance is one approval at most, *)
(* although proposals are made and decided by several people at once.      *)
OneCurrentApproval ==
  \A a, b \in Proposals :
    /\ prop[a].st = "approved" /\ prop[a].hash = Snapshot /\ ~prop[a].expired
    /\ prop[b].st = "approved" /\ prop[b].hash = Snapshot /\ ~prop[b].expired
    => a = b

(* decide L217-232: a proposal is approved by another person than its      *)
(* proposer, and of the risk as it is at that moment, whoever edits it     *)
(* while the decision waits for the lock; of two people who decide one     *)
(* proposal, the second changes nothing.                                   *)
ApprovedAsItIs ==
  [][\A a \in Proposals : prop[a].st # "approved" /\ prop'[a].st = "approved"
       => /\ prop[a].st = "submitted" /\ prop[a].hash[1] = risk
          /\ \E d \in Deciders : call[d].id = a /\ call[d].user # prop[a].by]_riskVars
=============================================================================
