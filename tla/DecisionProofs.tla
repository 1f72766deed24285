--------------------------- MODULE DecisionProofs ---------------------------
(* Invariance proofs for what people decide on: the acceptance of a risk,  *)
(* the use of an AI system, and the steps of a workflow, for any number of *)
(* proposals, requests, users and calls.                                   *)
EXTENDS RiskAcceptance, AiDecisions, WorkflowEngine, TLAPS

(***************************************************************************)
(* The acceptance of a risk.                                               *)
(***************************************************************************)

States == {"absent", "submitted", "approved", "rejected", "returned", "revoked"}
Hashes == (0 .. MaxEdits) \X (0 .. MaxEdits)
PropRow == [st : States, by : Users \cup {NoUser}, hash : Hashes, version : 0 .. 3, expired : BOOLEAN]
RCallRec == [at : {"away", "read", "locked", "checked"}, id : Proposals \cup {NoProposal},
            version : 0 .. 3, user : Users \cup {NoUser}, as : {"none", "approved", "rejected", "returned"}]

RiskOK  == risk \in 0 .. MaxEdits /\ appetite \in 0 .. MaxEdits
LockOK  == lock \in Deciders \cup {Free}
PropOK  == prop \in [Proposals -> PropRow]
CallOK  == call \in [Deciders -> RCallRec]
RiskTyped   == RiskOK /\ closed \in BOOLEAN /\ LockOK /\ PropOK /\ CallOK

(* The version counts the steps of a proposal.                             *)
RCounted == \A a \in Proposals :
  /\ prop[a].st \in {"absent", "submitted"} => prop[a].version <= 1
  /\ prop[a].st \in {"approved", "rejected", "returned"} => prop[a].version <= 2

(* What a call knows: a proposal of somebody else; with the lock its own,  *)
(* and after the check, what was checked.                                  *)
Known(d) ==
  /\ call[d].at # "away" => /\ call[d].id \in Proposals /\ prop[call[d].id].st # "absent"
                            /\ prop[call[d].id].by # call[d].user /\ call[d].as # "none"
  /\ call[d].at \in {"locked", "checked"} => lock = d
  /\ call[d].at = "checked" => prop[call[d].id].hash[1] = risk
  /\ call[d].at = "checked" /\ call[d].as = "approved" => Approved(prop[call[d].id].hash) = {}

(* Approvals of the risk as it was at one time: one of them at most.       *)
OneApproval ==
  \A a, b \in Proposals :
    /\ prop[a].st = "approved" /\ ~prop[a].expired
    /\ prop[b].st = "approved" /\ ~prop[b].expired
    /\ prop[a].hash = prop[b].hash
    => a = b

RiskInv == RiskTyped /\ RCounted /\ (\A d \in Deciders : Known(d)) /\ OneApproval

LEMMA GoneIs == Gone \in RCallRec /\ Gone.at = "away"
BY DEF Gone, RCallRec

(* A proposal's row changes, and no other does.                            *)
Changes(a) == prop' = [prop EXCEPT ![a] = prop'[a]] /\ prop'[a] \in PropRow

LEMMA ProposeIs ==
  ASSUME RiskTyped, NEW u \in Users, Propose(u)
  PROVE  \E a \in Proposals :
           /\ prop[a].st = "absent" /\ Changes(a) /\ prop'[a].st = "submitted" /\ prop'[a].version = 1
           /\ lock = Free /\ UNCHANGED <<risk, appetite, closed, lock, call>>
<1>1. PICK a \in Proposals :
        /\ prop[a].st = "absent"
        /\ prop' = [prop EXCEPT ![a] = [st |-> "submitted", by |-> u, hash |-> Snapshot,
                                        version |-> 1, expired |-> FALSE]]
  BY DEF Propose
<1>2. prop'[a] = [st |-> "submitted", by |-> u, hash |-> Snapshot, version |-> 1, expired |-> FALSE]
  BY <1>1 DEF RiskTyped, PropOK
<1>3. Snapshot \in Hashes
  BY DEF Snapshot, Hashes, RiskTyped, RiskOK
<1>4. prop'[a] \in PropRow
  BY <1>2, <1>3 DEF PropRow, States
<1>5. prop' = [prop EXCEPT ![a] = prop'[a]]
  BY <1>1, <1>2
<1>6. prop'[a].st = "submitted" /\ prop'[a].version = 1
  BY <1>2
<1> QED BY <1>1, <1>4, <1>5, <1>6 DEF Changes, Propose

LEMMA DecideIs ==
  ASSUME RiskTyped, RCounted, NEW d \in Deciders, Known(d), DecideProposal(d)
  PROVE  LET a == call[d].id IN
         /\ a \in Proposals /\ prop[a].st = "submitted" /\ call[d].at = "checked" /\ lock = d
         /\ Changes(a) /\ prop'[a].st = call[d].as /\ prop'[a].version <= 2
         /\ call[d].as \in {"approved", "rejected", "returned"}
         /\ prop'[a].hash = prop[a].hash /\ prop'[a].by = prop[a].by
         /\ lock' = Free /\ call' = [call EXCEPT ![d] = Gone]
         /\ UNCHANGED <<risk, appetite, closed>>
<1> DEFINE a == call[d].id
<1>1. a \in Proposals /\ prop[a].st = "submitted" /\ call[d].at = "checked" /\ lock = d
  BY DEF DecideProposal, StillOpen, Known
<1>2. prop[a] \in PropRow /\ prop[a].version \in 0 .. 1
  BY <1>1 DEF RiskTyped, PropOK, PropRow, RCounted
<1>3. call[d].as \in {"approved", "rejected", "returned"}
  BY <1>1 DEF Known, RiskTyped, CallOK, RCallRec
<1>4. prop' = [prop EXCEPT ![a].st = call[d].as, ![a].version = @ + 1]
  BY DEF DecideProposal
<1>5. prop'[a] = [st |-> call[d].as, by |-> prop[a].by, hash |-> prop[a].hash,
                  version |-> prop[a].version + 1, expired |-> prop[a].expired]
  BY <1>1, <1>2, <1>4 DEF RiskTyped, PropOK, PropRow
<1>6. prop[a].version + 1 \in 0 .. 3 /\ prop[a].version + 1 <= 2
  BY <1>2
<1>7. prop'[a] \in PropRow
  BY <1>2, <1>3, <1>5, <1>6 DEF PropRow, States
<1>8. prop' = [prop EXCEPT ![a] = prop'[a]]
  BY <1>1, <1>4 DEF RiskTyped, PropOK
<1>9. /\ prop'[a].st = call[d].as /\ prop'[a].version = prop[a].version + 1
      /\ prop'[a].hash = prop[a].hash /\ prop'[a].by = prop[a].by
  BY <1>5
<1> QED BY <1>1, <1>3, <1>6, <1>7, <1>8, <1>9 DEF Changes, DecideProposal

(* Revocation and the end of a term take approvals away, and add none.     *)
LEMMA FadeIs ==
  ASSUME RiskTyped, RCounted, NEW a \in Proposals, Revoke(a) \/ TermEnds(a)
  PROVE  /\ Changes(a) /\ prop[a].st # "absent" /\ prop'[a].st # "absent"
         /\ prop'[a].hash = prop[a].hash /\ prop'[a].by = prop[a].by
         /\ prop'[a].st = "revoked" \/ (prop'[a].st = prop[a].st /\ prop'[a].expired
                                        /\ prop'[a].version = prop[a].version)
         /\ UNCHANGED <<risk, appetite, closed, lock, call>>
<1>1. prop[a] \in PropRow
  BY DEF RiskTyped, PropOK
<1>2. CASE Revoke(a)
  <2>1. prop[a].st = "approved" /\ prop[a].version \in 0 .. 2
    BY <1>1, <1>2 DEF Revoke, RCounted, PropRow
  <2>2. prop'[a] = [st |-> "revoked", by |-> prop[a].by, hash |-> prop[a].hash,
                    version |-> prop[a].version + 1, expired |-> prop[a].expired]
    BY <1>1, <1>2 DEF Revoke, RiskTyped, PropOK, PropRow
  <2>3. prop[a].version + 1 \in 0 .. 3
    BY <2>1
  <2>4. prop'[a] \in PropRow
    BY <1>1, <2>2, <2>3 DEF PropRow, States
  <2>5. prop' = [prop EXCEPT ![a] = prop'[a]]
    BY <1>2 DEF Revoke, RiskTyped, PropOK
  <2>6. prop'[a].st = "revoked" /\ prop'[a].hash = prop[a].hash /\ prop'[a].by = prop[a].by
    BY <2>2
  <2> QED BY <1>2, <2>1, <2>4, <2>5, <2>6 DEF Changes, Revoke
<1>3. CASE TermEnds(a)
  <2>1. prop'[a] = [st |-> prop[a].st, by |-> prop[a].by, hash |-> prop[a].hash,
                    version |-> prop[a].version, expired |-> TRUE]
    BY <1>1, <1>3 DEF TermEnds, RiskTyped, PropOK, PropRow
  <2>2. prop'[a] \in PropRow
    BY <1>1, <2>1 DEF PropRow
  <2>3. prop' = [prop EXCEPT ![a] = prop'[a]]
    BY <1>3 DEF TermEnds, RiskTyped, PropOK
  <2>4. /\ prop'[a].st = prop[a].st /\ prop'[a].hash = prop[a].hash /\ prop'[a].by = prop[a].by
        /\ prop'[a].version = prop[a].version /\ prop'[a].expired
    BY <2>1
  <2> QED BY <1>3, <2>2, <2>3, <2>4 DEF Changes, TermEnds
<1> QED BY <1>2, <1>3

LEMMA RReadIs ==
  ASSUME RiskTyped, NEW d \in Deciders, ReadProposal(d)
  PROVE  /\ call' = [call EXCEPT ![d] = call'[d]] /\ call'[d] \in RCallRec
         /\ call'[d].at = "read" /\ call'[d].id \in Proposals /\ prop[call'[d].id].st # "absent"
         /\ prop[call'[d].id].by # call'[d].user /\ call'[d].as # "none"
<1>1. PICK a \in Proposals, u \in Users, as \in {"approved", "rejected", "returned"} :
        /\ prop[a].st = "submitted" /\ prop[a].by # u
        /\ call' = [call EXCEPT ![d] = [at |-> "read", id |-> a, version |-> prop[a].version,
                                        user |-> u, as |-> as]]
  BY DEF ReadProposal
<1>2. call'[d] = [at |-> "read", id |-> a, version |-> prop[a].version, user |-> u, as |-> as]
  BY <1>1 DEF RiskTyped, CallOK
<1>3. prop[a].version \in 0 .. 3
  BY DEF RiskTyped, PropOK, PropRow
<1>4. /\ call'[d].at = "read" /\ call'[d].id = a /\ call'[d].user = u /\ call'[d].as = as
      /\ call'[d].version = prop[a].version
  BY <1>2
<1>5. call'[d] \in RCallRec
  <2>1. \A v \in 0 .. 3 : [at |-> "read", id |-> a, version |-> v, user |-> u, as |-> as] \in RCallRec
    BY DEF RCallRec
  <2> QED BY <1>2, <1>3, <2>1
<1>6. call' = [call EXCEPT ![d] = call'[d]]
  BY <1>1, <1>2
<1> QED BY <1>1, <1>4, <1>5, <1>6

LEMMA RiskTypedStep ==
  ASSUME RiskInv, [RiskNext]_riskVars
  PROVE  RiskTyped'
<1> USE DEF RiskInv, RiskTyped
<1>1. RiskOK' /\ closed' \in BOOLEAN
  <2>1. CASE EditRisk
    BY <2>1, RiskAssumption DEF EditRisk, RiskOK
  <2>2. CASE EditAppetite
    BY <2>2, RiskAssumption DEF EditAppetite, RiskOK
  <2>3. CASE UNCHANGED <<risk, appetite, closed>>
    BY <2>3 DEF RiskOK
  <2> QED BY <2>1, <2>2, <2>3 DEF RiskNext, Propose, ReadProposal, LockRisk, Refuse, CheckProposal,
                                  DecideProposal, Revoke, TermEnds, riskVars
<1>2. LockOK'
  BY DEF LockOK, RiskNext, Propose, ReadProposal, LockRisk, Refuse, CheckProposal, DecideProposal,
         Revoke, TermEnds, EditRisk, EditAppetite, riskVars
<1>3. PropOK'
  <2>1. ASSUME NEW a \in Proposals, Changes(a) PROVE PropOK'
    BY <2>1 DEF Changes, PropOK
  <2>2. ASSUME NEW u \in Users, Propose(u) PROVE PropOK'
    BY <2>1, <2>2, ProposeIs
  <2>3. ASSUME NEW d \in Deciders, DecideProposal(d) PROVE PropOK'
    BY <2>1, <2>3, DecideIs
  <2>4. ASSUME NEW a \in Proposals, Revoke(a) \/ TermEnds(a) PROVE PropOK'
    BY <2>1, <2>4, FadeIs
  <2>5. CASE prop' = prop
    BY <2>5 DEF PropOK
  <2> QED BY <2>2, <2>3, <2>4, <2>5 DEF RiskNext, ReadProposal, LockRisk, Refuse, CheckProposal,
                                        EditRisk, EditAppetite, riskVars
<1>4. CallOK'
  <2>1. ASSUME NEW d \in Deciders, ReadProposal(d) PROVE CallOK'
    BY <2>1, RReadIs DEF CallOK
  <2>2. ASSUME NEW d \in Deciders, LockRisk(d) \/ CheckProposal(d) PROVE CallOK'
    BY <2>2 DEF LockRisk, CheckProposal, CallOK, RCallRec
  <2>3. ASSUME NEW d \in Deciders, Refuse(d) \/ DecideProposal(d) PROVE CallOK'
    BY <2>3, GoneIs DEF Refuse, DecideProposal, CallOK
  <2>4. CASE call' = call
    BY <2>4 DEF CallOK
  <2> QED BY <2>1, <2>2, <2>3, <2>4 DEF RiskNext, Propose, Revoke, TermEnds, EditRisk, EditAppetite, riskVars
<1> QED BY <1>1, <1>2, <1>3, <1>4

(* Versions and approvals move with one row.                               *)
LEMMA RowStep ==
  ASSUME RiskInv, [RiskNext]_riskVars
  PROVE  RCounted' /\ OneApproval'
<1> USE DEF RiskInv, RiskTyped
<1>1. ASSUME NEW a \in Proposals, Changes(a),
             prop'[a].st \in {"absent", "submitted"} => prop'[a].version <= 1,
             prop'[a].st \in {"approved", "rejected", "returned"} => prop'[a].version <= 2,
             prop'[a].st = "approved" /\ ~prop'[a].expired => Approved(prop'[a].hash) = {}
      PROVE  RCounted' /\ OneApproval'
  <2>1. \A b \in Proposals \ {a} : prop'[b] = prop[b]
    BY <1>1 DEF Changes, PropOK
  <2>2. RCounted'
    BY <1>1, <2>1 DEF RCounted
  <2>3. OneApproval'
    BY <1>1, <2>1 DEF OneApproval, Approved
  <2> QED BY <2>2, <2>3
<1>2. ASSUME NEW u \in Users, Propose(u) PROVE RCounted' /\ OneApproval'
  <2>1. PICK a \in Proposals : Changes(a) /\ prop'[a].st = "submitted" /\ prop'[a].version = 1
    BY <1>2, ProposeIs
  <2> QED BY <1>1, <2>1
<1>3. ASSUME NEW d \in Deciders, DecideProposal(d) PROVE RCounted' /\ OneApproval'
  <2>1. Known(d)
    OBVIOUS
  <2>2. prop'[call[d].id].st = "approved" => Approved(prop'[call[d].id].hash) = {}
    BY <1>3, <2>1, DecideIs DEF Known
  <2> QED BY <1>1, <1>3, <2>1, <2>2, DecideIs
<1>4. ASSUME NEW a \in Proposals, Revoke(a) \/ TermEnds(a) PROVE RCounted' /\ OneApproval'
  <2>1. /\ prop'[a].st \in {"absent", "submitted"} => prop'[a].version <= 1
        /\ prop'[a].st \in {"approved", "rejected", "returned"} => prop'[a].version <= 2
        /\ ~(prop'[a].st = "approved" /\ ~prop'[a].expired)
    BY <1>4, FadeIs DEF RCounted
  <2> QED BY <1>1, <1>4, <2>1, FadeIs
<1>5. CASE prop' = prop
  BY <1>5 DEF RCounted, OneApproval
<1> QED BY <1>2, <1>3, <1>4, <1>5 DEF RiskNext, ReadProposal, LockRisk, Refuse, CheckProposal,
                                      EditRisk, EditAppetite, riskVars

(* What the other calls know stays so.                                     *)
LEMMA KnownKept ==
  ASSUME RiskTyped, NEW d \in Deciders, Known(d), call'[d] = call[d],
         call[d].at \in {"locked", "checked"} => lock' = d /\ risk' = risk,
         \A a \in Proposals :
           \/ prop'[a] = prop[a]
           \/ prop[a].st = "absent" /\ prop'[a].st # "approved"
           \/ /\ prop[a].st # "absent" /\ prop'[a].st # "absent"
              /\ prop'[a].hash = prop[a].hash /\ prop'[a].by = prop[a].by
              /\ prop'[a].st = "approved" /\ ~prop'[a].expired =>
                   call[d].at # "checked" \/ (prop[a].st = "approved" /\ ~prop[a].expired)
  PROVE  Known(d)'
<1>1. CASE call[d].at = "away"
  BY <1>1 DEF Known
<1>2. CASE call[d].at # "away"
  <2> DEFINE i == call[d].id
  <2>1. i \in Proposals /\ prop[i].st # "absent" /\ prop[i].by # call[d].user /\ call[d].as # "none"
    BY <1>2 DEF Known
  <2>2. prop'[i].st # "absent" /\ prop'[i].hash = prop[i].hash /\ prop'[i].by = prop[i].by
    BY <2>1
  <2>3. ASSUME call[d].at = "checked", call[d].as = "approved" PROVE Approved(prop[i].hash)' = {}
    BY <2>1, <2>2, <2>3 DEF Known, Approved
  <2>4. call[d].at \in {"away", "read", "locked", "checked"}
    BY DEF RiskTyped, CallOK, RCallRec
  <2> QED BY <2>1, <2>2, <2>3, <2>4 DEF Known
<1> QED BY <1>1, <1>2

LEMMA KnownStep ==
  ASSUME RiskInv, [RiskNext]_riskVars, NEW d \in Deciders
  PROVE  Known(d)'
<1> USE DEF RiskInv, RiskTyped
<1>1. Known(d) /\ d # Free
  BY RiskAssumption
<1>2. ASSUME call'[d].at = "away" PROVE Known(d)'
  BY <1>2 DEF Known
<1>3. ASSUME NEW u \in Users, Propose(u) PROVE Known(d)'
  <2>1. PICK a \in Proposals :
           /\ prop[a].st = "absent" /\ Changes(a) /\ prop'[a].st = "submitted"
           /\ lock = Free /\ UNCHANGED <<risk, appetite, closed, lock, call>>
    BY <1>3, ProposeIs
  <2>2. \A b \in Proposals \ {a} : prop'[b] = prop[b]
    BY <2>1 DEF Changes, PropOK
  <2> QED BY <1>1, <2>1, <2>2, KnownKept DEF Known
<1>4. ASSUME NEW e \in Deciders, DecideProposal(e) PROVE Known(d)'
  <2>1. CASE e = d
    <3>1. call'[d].at = "away"
      BY <1>4, <2>1, GoneIs DEF DecideProposal, CallOK
    <3> QED BY <1>2, <3>1
  <2>2. CASE e # d
    <3> DEFINE a == call[e].id
    <3>1. /\ a \in Proposals /\ prop[a].st = "submitted" /\ lock = e /\ Changes(a)
          /\ prop'[a].st \in {"approved", "rejected", "returned"}
          /\ prop'[a].hash = prop[a].hash /\ prop'[a].by = prop[a].by
          /\ call' = [call EXCEPT ![e] = Gone] /\ risk' = risk
      BY <1>4, DecideIs
    <3>2. call'[d] = call[d] /\ call[d].at \notin {"locked", "checked"}
      BY <1>1, <2>2, <3>1 DEF CallOK, Known
    <3>3. \A b \in Proposals \ {a} : prop'[b] = prop[b]
      BY <3>1 DEF Changes, PropOK
    <3> QED BY <1>1, <3>1, <3>2, <3>3, KnownKept
  <2> QED BY <2>1, <2>2
<1>5. ASSUME NEW a \in Proposals, Revoke(a) \/ TermEnds(a) PROVE Known(d)'
  <2>1. \A b \in Proposals \ {a} : prop'[b] = prop[b]
    BY <1>5, FadeIs DEF Changes, PropOK
  <2>2. /\ UNCHANGED <<risk, lock, call>> /\ prop[a].st # "absent" /\ prop'[a].st # "absent"
        /\ prop'[a].hash = prop[a].hash /\ prop'[a].by = prop[a].by
        /\ ~(prop'[a].st = "approved" /\ ~prop'[a].expired)
    BY <1>5, FadeIs
  <2> QED BY <1>1, <2>1, <2>2, KnownKept DEF Known
<1>6. ASSUME NEW e \in Deciders, ReadProposal(e) PROVE Known(d)'
  <2>1. prop' = prop /\ risk' = risk /\ lock' = lock
    BY <1>6 DEF ReadProposal
  <2>2. CASE e = d
    BY <1>6, <2>1, <2>2, RReadIs DEF Known
  <2>3. CASE e # d
    <3>1. call'[d] = call[d]
      BY <1>6, <2>3, RReadIs DEF CallOK
    <3> QED BY <1>1, <2>1, <3>1 DEF Known, Approved
  <2> QED BY <2>2, <2>3
<1>7. ASSUME NEW e \in Deciders, LockRisk(e) PROVE Known(d)'
  <2>1. /\ prop' = prop /\ risk' = risk /\ lock = Free /\ lock' = e /\ call[e].at = "read"
        /\ call' = [call EXCEPT ![e].at = "locked"]
    BY <1>7 DEF LockRisk
  <2>2. CASE e = d
    <3>1. /\ call'[d].at = "locked" /\ call'[d].id = call[d].id /\ call'[d].user = call[d].user
          /\ call'[d].as = call[d].as
      BY <2>1, <2>2 DEF CallOK, RCallRec
    <3> QED BY <1>1, <2>1, <2>2, <3>1 DEF Known
  <2>3. CASE e # d
    <3>1. call'[d] = call[d] /\ call[d].at \notin {"locked", "checked"}
      BY <1>1, <2>1, <2>3 DEF CallOK, Known
    <3> QED BY <1>1, <2>1, <3>1 DEF Known, Approved
  <2> QED BY <2>2, <2>3
<1>8. ASSUME NEW e \in Deciders, Refuse(e) PROVE Known(d)'
  <2>1. prop' = prop /\ risk' = risk /\ lock = e /\ call' = [call EXCEPT ![e] = Gone]
    BY <1>8 DEF Refuse, Known
  <2>2. CASE e = d
    <3>1. call'[d].at = "away"
      BY <2>1, <2>2, GoneIs DEF CallOK
    <3> QED BY <1>2, <3>1
  <2>3. CASE e # d
    <3>1. call'[d] = call[d] /\ call[d].at \notin {"locked", "checked"}
      BY <1>1, <2>1, <2>3 DEF CallOK, Known
    <3> QED BY <1>1, <2>1, <3>1 DEF Known, Approved
  <2> QED BY <2>2, <2>3
<1>9. ASSUME NEW e \in Deciders, CheckProposal(e) PROVE Known(d)'
  <2>1. /\ prop' = prop /\ risk' = risk /\ lock' = lock /\ call[e].at = "locked"
        /\ call[e].as = "approved" => Approved(prop[call[e].id].hash) = {}
        /\ prop[call[e].id].hash = Snapshot
        /\ call' = [call EXCEPT ![e].at = "checked"]
    BY <1>9 DEF CheckProposal, RiskUnchanged
  <2>2. CASE e = d
    <3>1. /\ call'[d].at = "checked" /\ call'[d].id = call[d].id /\ call'[d].user = call[d].user
          /\ call'[d].as = call[d].as
      BY <2>1, <2>2 DEF CallOK, RCallRec
    <3>2. prop[call[d].id].hash[1] = risk
      BY <2>1, <2>2 DEF Snapshot
    <3> QED BY <1>1, <2>1, <2>2, <3>1, <3>2 DEF Known, Approved
  <2>3. CASE e # d
    <3>1. call'[d] = call[d]
      BY <2>1, <2>3 DEF CallOK
    <3> QED BY <1>1, <2>1, <3>1 DEF Known, Approved
  <2> QED BY <2>2, <2>3
<1>10. CASE EditRisk
  <2>1. lock = Free /\ lock' = lock /\ prop' = prop /\ call' = call
    BY <1>10 DEF EditRisk
  <2> QED BY <1>1, <2>1 DEF Known
<1>11. CASE EditAppetite \/ UNCHANGED riskVars
  <2>1. UNCHANGED <<risk, lock, prop, call>>
    BY <1>11 DEF EditAppetite, riskVars
  <2> QED BY <1>1, <2>1 DEF Known, Approved
<1> QED BY <1>3, <1>4, <1>5, <1>6, <1>7, <1>8, <1>9, <1>10, <1>11 DEF RiskNext

LEMMA RiskStart == RiskInit => RiskInv
<1> SUFFICES ASSUME RiskInit PROVE RiskInv
  OBVIOUS
<1>1. None \in PropRow /\ None.st = "absent" /\ None.version = 0
  BY RiskAssumption DEF None, PropRow, States, Hashes
<1>2. PropOK /\ RCounted /\ OneApproval
  BY <1>1 DEF RiskInit, PropOK, RCounted, OneApproval
<1>3. CallOK /\ \A d \in Deciders : Known(d)
  BY GoneIs DEF RiskInit, CallOK, Known
<1>4. RiskOK /\ LockOK
  BY RiskAssumption DEF RiskInit, RiskOK, LockOK
<1>5. closed \in BOOLEAN
  BY DEF RiskInit
<1> QED BY <1>2, <1>3, <1>4, <1>5 DEF RiskInv, RiskTyped

LEMMA RiskKept == RiskInv /\ [RiskNext]_riskVars => RiskInv'
<1> SUFFICES ASSUME RiskInv, [RiskNext]_riskVars PROVE RiskInv'
  OBVIOUS
<1>1. RiskTyped' /\ RCounted' /\ OneApproval'
  BY RiskTypedStep, RowStep
<1>2. \A d \in Deciders : Known(d)'
  BY KnownStep
<1> QED BY <1>1, <1>2 DEF RiskInv

(* Type correctness of the risk, its proposals and the decisions.          *)
THEOREM RiskTypesTheorem == RiskSpec => []RiskTypes
<1>1. RiskInv => RiskTypes
  BY DEF RiskInv, RiskTyped, RiskOK, LockOK, PropOK, CallOK, PropRow, RCallRec, States, Hashes, RiskTypes
<1> QED BY <1>1, RiskStart, RiskKept, PTL DEF RiskSpec

(* One approval counts at a time, whoever proposes and decides at once.    *)
THEOREM OneCurrentTheorem == RiskSpec => []OneCurrentApproval
<1>1. RiskInv => OneCurrentApproval
  BY DEF RiskInv, OneApproval, OneCurrentApproval
<1> QED BY <1>1, RiskStart, RiskKept, PTL DEF RiskSpec

(* decide: an approval is of the risk as it is, and by another than its    *)
(* proposer.  Of the appetite it says nothing: that may be edited between  *)
(* the check and the update, which hold only the lock of the risk's row.   *)
THEOREM ApprovedTheorem == RiskSpec => ApprovedAsItIs
<1> DEFINE Right == \A a \in Proposals : prop[a].st # "approved" /\ prop'[a].st = "approved"
                      => /\ prop[a].st = "submitted" /\ prop[a].hash[1] = risk
                         /\ \E d \in Deciders : call[d].id = a /\ call[d].user # prop[a].by
<1>1. RiskInv /\ [RiskNext]_riskVars => [Right]_riskVars
  <2> SUFFICES ASSUME RiskInv, RiskNext PROVE Right
    OBVIOUS
  <2> USE DEF RiskInv, RiskTyped
  <2>1. ASSUME NEW u \in Users, Propose(u) PROVE Right
    BY <2>1, ProposeIs DEF Changes, PropOK
  <2>2. ASSUME NEW d \in Deciders, DecideProposal(d) PROVE Right
    <3>1. Known(d)
      OBVIOUS
    <3>2. /\ call[d].id \in Proposals /\ prop[call[d].id].st = "submitted"
          /\ \A b \in Proposals \ {call[d].id} : prop'[b] = prop[b]
      BY <2>2, <3>1, DecideIs DEF Changes, PropOK
    <3>3. prop[call[d].id].hash[1] = risk /\ call[d].user # prop[call[d].id].by
      BY <2>2, <3>1 DEF DecideProposal, Known
    <3> QED BY <3>2, <3>3
  <2>3. ASSUME NEW a \in Proposals, Revoke(a) \/ TermEnds(a) PROVE Right
    BY <2>3, FadeIs DEF Changes, PropOK
  <2>4. prop' = prop => Right
    OBVIOUS
  <2> HIDE DEF Right
  <2> QED BY <2>1, <2>2, <2>3, <2>4 DEF RiskNext, ReadProposal, LockRisk, Refuse, CheckProposal, EditRisk, EditAppetite
<1> QED BY <1>1, RiskStart, RiskKept, PTL DEF RiskSpec, ApprovedAsItIs

-----------------------------------------------------------------------------
(***************************************************************************)
(* Decisions on an AI use.                                                 *)
(***************************************************************************)
AiDecided == {"approved", "rejected", "returned", "withdrawn"}
OutcomeRec == [id : Decisions, out : AiDecided]
DecisionRec == [st : {"absent", "proposed", "approved", "rejected", "returned", "withdrawn"},
                ask : Briefs, signed : Briefs, version : 0 .. 3, over : BOOLEAN, revoked : BOOLEAN]
AiCallRec == [op : {"none", "ask", "approved", "rejected", "returned", "withdrawn", "revoke"},
            id : Decisions \cup {NoDecision}, version : 0 .. 3, brief : Briefs]

AiTyped == AiTypes /\ outcomes \in Seq(OutcomeRec)

(* The version of a decision counts its steps, and only an approval that   *)
(* was given on what was asked can be revoked.                             *)
Counted(d) ==
  /\ decision[d].st = "absent" => decision[d].version = 0
  /\ decision[d].st = "proposed" => decision[d].version = 1
  /\ decision[d].st \in AiDecided /\ ~decision[d].revoked => decision[d].version = 2
  /\ decision[d].revoked => decision[d].st = "approved" /\ decision[d].version = 3
  /\ decision[d].st = "approved" => decision[d].signed = decision[d].ask

(* Ids are given in order, and only the newest can be open.                *)
InOrder(d) ==
  /\ decision[d].st # "absent" => \A b \in Decisions : b <= d => decision[b].st # "absent"
  /\ decision[d].st = "proposed" => \A b \in Decisions : decision[b].st # "absent" => b <= d

Recorded(d) == decision[d].st \in AiDecided => \E n \in 1 .. Len(outcomes) : outcomes[n].id = d

CallRight(c) ==
  /\ aicall[c].op \notin {"none", "ask"} =>
       aicall[c].id \in Decisions /\ decision[aicall[c].id].st # "absent"
  /\ aicall[c].op = "approved" => aicall[c].brief = decision[aicall[c].id].ask
  /\ aicall[c].op = "revoke" => decision[aicall[c].id].st = "approved"

(* The record tells the state of each decision, in the order of their ids. *)
OutcomesRight ==
  \A n \in 1 .. Len(outcomes) :
    /\ outcomes[n].id \in Decisions /\ outcomes[n].out \in AiDecided
    /\ decision[outcomes[n].id].st = outcomes[n].out
    /\ \A k \in 1 .. Len(outcomes) : n < k => outcomes[n].id < outcomes[k].id

AiInv ==
  /\ AiTyped
  /\ \A d \in Decisions : Counted(d) /\ InOrder(d) /\ Recorded(d)
  /\ \A c \in AiCalls : CallRight(c)
  /\ OutcomesRight

LEMMA AiConstants ==
  /\ \A d \in Decisions : d \in Nat
  /\ MaxVersion \in Nat /\ MaxVersion >= 1
  /\ NoDecision \notin Decisions
BY DecisionAssumption DEF NoDecision

LEMMA NoBriefIs ==
  ASSUME use \in [fact : Facts, tier : Tiers, version : 1 .. MaxVersion, live : BOOLEAN]
  PROVE  NoBrief \in Briefs /\ Brief \in Briefs
<1>1. use.fact \in Facts /\ use.tier \in Tiers /\ use.version \in 1 .. MaxVersion
  OBVIOUS
<1>2. (CHOOSE f \in Facts : TRUE) \in Facts /\ (CHOOSE t \in Tiers : TRUE) \in Tiers
  BY <1>1, Zenon
<1>3. 1 \in 1 .. MaxVersion
  BY AiConstants
<1> QED BY <1>1, <1>2, <1>3 DEF NoBrief, Brief, Briefs

LEMMA RecordsAre ==
  ASSUME AiTypes
  PROVE  /\ NoBrief \in Briefs /\ Brief \in Briefs
         /\ decision \in [Decisions -> DecisionRec] /\ aicall \in [AiCalls -> AiCallRec]
         /\ IdleCall \in AiCallRec
<1>1. NoBrief \in Briefs /\ Brief \in Briefs
  BY NoBriefIs DEF AiTypes
<1>2. decision \in [Decisions -> DecisionRec] /\ aicall \in [AiCalls -> AiCallRec]
  BY Zenon DEF AiTypes, DecisionRec, AiCallRec
<1>3. IdleCall \in AiCallRec
  BY <1>1 DEF IdleCall, AiCallRec
<1> QED BY <1>1, <1>2, <1>3

LEMMA TypesFrom ==
  ASSUME use' \in [fact : Facts, tier : Tiers, version : 1 .. MaxVersion, live : BOOLEAN],
         decision' \in [Decisions -> DecisionRec], aicall' \in [AiCalls -> AiCallRec],
         changes' \subseteq Facts, outcomes' \in Seq(OutcomeRec)
  PROVE  AiTyped'
BY Zenon DEF AiTyped, AiTypes, DecisionRec, AiCallRec

LEMMA AiInitInv ==
  ASSUME AiInit PROVE AiInv
<1>1. use \in [fact : Facts, tier : Tiers, version : 1 .. MaxVersion, live : BOOLEAN]
  BY AiConstants DEF AiInit
<1>2. NoBrief \in Briefs
  BY <1>1, NoBriefIs
<1>3. NoRequest \in DecisionRec /\ IdleCall \in AiCallRec
  BY <1>2 DEF NoRequest, IdleCall, DecisionRec, AiCallRec
<1>4. AiTyped
  <2>1. decision \in [Decisions -> DecisionRec] /\ aicall \in [AiCalls -> AiCallRec]
    BY <1>3 DEF AiInit
  <2>2. <<>> \in Seq(OutcomeRec)
    OBVIOUS
  <2> QED BY <1>1, <2>1, <2>2 DEF AiInit, AiTyped, AiTypes, DecisionRec, AiCallRec
<1>5. \A d \in Decisions : Counted(d) /\ InOrder(d) /\ Recorded(d)
  BY DEF AiInit, NoRequest, Counted, InOrder, Recorded, AiDecided
<1>6. \A c \in AiCalls : CallRight(c)
  BY DEF AiInit, IdleCall, CallRight
<1>7. OutcomesRight
  BY DEF AiInit, OutcomesRight
<1> QED BY <1>4, <1>5, <1>6, <1>7 DEF AiInv

-----------------------------------------------------------------------------
(* What the calls begin with, and end with.                                *)

LEMMA CallsKept ==
  ASSUME aicall \in [AiCalls -> AiCallRec], \A c \in AiCalls : CallRight(c),
         aicall' = aicall \/ \E c \in AiCalls : aicall' = [aicall EXCEPT ![c] = IdleCall],
         \A d \in Decisions : decision[d].st # "absent" =>
            /\ decision'[d].st # "absent" /\ decision'[d].ask = decision[d].ask
            /\ decision[d].st = "approved" => decision'[d].st = "approved"
  PROVE  \A c \in AiCalls : CallRight(c)'
<1> SUFFICES ASSUME NEW c \in AiCalls PROVE CallRight(c)'
  OBVIOUS
<1>1. aicall'[c] = aicall[c] \/ aicall'[c] = IdleCall
  OBVIOUS
<1>2. CASE aicall'[c] = IdleCall
  BY <1>2 DEF IdleCall, CallRight
<1>3. CASE aicall'[c] = aicall[c]
  BY <1>3 DEF CallRight
<1> QED BY <1>1, <1>2, <1>3

(* A call that reads the use and, but for a request, a decision.           *)
LEMMA BeginIs ==
  ASSUME AiInv, NEW c \in AiCalls, NEW op, NEW d, NEW v, BeginCall(c, op, d, v),
         op \in {"none", "ask", "approved", "rejected", "returned", "withdrawn", "revoke"},
         d \in Decisions \cup {NoDecision}, v \in 0 .. 3,
         op \notin {"none", "ask"} => d \in Decisions /\ decision[d].st # "absent",
         op = "approved" => decision[d].ask = Brief,
         op = "revoke" => decision[d].st = "approved"
  PROVE  AiInv'
<1> DEFINE entry == [op |-> op, id |-> d, version |-> v, brief |-> Brief]
<1>1. /\ aicall' = [aicall EXCEPT ![c] = entry] /\ aicall[c].op = "none"
      /\ UNCHANGED <<use, decision, changes, outcomes>>
  BY DEF BeginCall
<1>2. AiTyped /\ AiTypes
  BY DEF AiInv, AiTyped
<1>3. entry \in AiCallRec /\ aicall \in [AiCalls -> AiCallRec]
  BY <1>2, RecordsAre DEF AiCallRec
<1>4. AiTyped'
  <2>1. aicall' \in [AiCalls -> AiCallRec]
    BY <1>1, <1>3
  <2>2. decision' \in [Decisions -> DecisionRec]
    BY <1>1, <1>2, RecordsAre
  <2> QED BY <1>1, <1>2, <2>1, <2>2, TypesFrom DEF AiTyped, AiTypes
<1>5. entry.op = op /\ entry.id = d /\ entry.brief = Brief
  OBVIOUS
<1> HIDE DEF entry
<1>6. \A e \in AiCalls : CallRight(e)'
  <2> SUFFICES ASSUME NEW e \in AiCalls PROVE CallRight(e)'
    OBVIOUS
  <2>1. CASE e = c
    <3>1. aicall'[e] = entry /\ decision' = decision
      BY <1>1, <1>3, <2>1
    <3> QED BY <1>5, <3>1 DEF CallRight
  <2>2. CASE e # c
    <3>1. aicall'[e] = aicall[e] /\ decision' = decision
      BY <1>1, <1>3, <2>2
    <3> QED BY <3>1 DEF AiInv, CallRight
  <2> QED BY <2>1, <2>2
<1>7. \A e \in Decisions : Counted(e)' /\ InOrder(e)' /\ Recorded(e)'
  BY <1>1 DEF AiInv, Counted, InOrder, Recorded
<1>8. OutcomesRight'
  BY <1>1 DEF AiInv, OutcomesRight
<1> QED BY <1>4, <1>6, <1>7, <1>8 DEF AiInv

(* What leaves decisions and outcomes alone, and begins no entry.           *)
LEMMA BesideDecisions ==
  ASSUME AiInv, UNCHANGED <<decision, outcomes>>,
         use' \in [fact : Facts, tier : Tiers, version : 1 .. MaxVersion, live : BOOLEAN],
         changes' \subseteq Facts,
         aicall' = aicall \/ \E c \in AiCalls : aicall' = [aicall EXCEPT ![c] = IdleCall]
  PROVE  AiInv'
<1>1. AiTyped /\ AiTypes
  BY DEF AiInv, AiTyped
<1>2. aicall \in [AiCalls -> AiCallRec] /\ decision \in [Decisions -> DecisionRec] /\ IdleCall \in AiCallRec
  BY <1>1, RecordsAre
<1>3. aicall' \in [AiCalls -> AiCallRec]
  BY <1>2
<1>4. AiTyped'
  BY <1>1, <1>2, <1>3, TypesFrom DEF AiTyped
<1>5. \A e \in AiCalls : CallRight(e)'
  BY <1>2, CallsKept DEF AiInv
<1>6. \A e \in Decisions : Counted(e)' /\ InOrder(e)' /\ Recorded(e)'
  BY DEF AiInv, Counted, InOrder, Recorded
<1>7. OutcomesRight'
  BY DEF AiInv, OutcomesRight
<1> QED BY <1>4, <1>5, <1>6, <1>7 DEF AiInv

-----------------------------------------------------------------------------
(* What the calls write.                                                   *)

LEMMA CallFinished ==
  ASSUME AiTypes, NEW c \in AiCalls, FinishCall(c)
  PROVE  aicall' \in [AiCalls -> AiCallRec] /\ \E e \in AiCalls : aicall' = [aicall EXCEPT ![e] = IdleCall]
<1>1. aicall \in [AiCalls -> AiCallRec] /\ IdleCall \in AiCallRec
  BY RecordsAre
<1>2. aicall' = [aicall EXCEPT ![c] = IdleCall]
  BY DEF FinishCall
<1> QED BY <1>1, <1>2

LEMMA RequestInv ==
  ASSUME AiInv, NEW c \in AiCalls, RequestDecision(c)
  PROVE  AiInv'
<1>1. AiTyped /\ AiTypes
  BY DEF AiInv, AiTyped
<1>2. FinishCall(c) /\ UNCHANGED <<use, changes, outcomes>>
  BY DEF RequestDecision
<1>3. aicall' \in [AiCalls -> AiCallRec] /\ \E e \in AiCalls : aicall' = [aicall EXCEPT ![e] = IdleCall]
  BY <1>1, <1>2, CallFinished
<1>4. /\ decision \in [Decisions -> DecisionRec] /\ aicall \in [AiCalls -> AiCallRec]
      /\ use \in [fact : Facts, tier : Tiers, version : 1 .. MaxVersion, live : BOOLEAN] /\ changes \subseteq Facts
      /\ outcomes \in Seq(OutcomeRec)
  BY <1>1, RecordsAre DEF AiTyped, AiTypes
<1>5. CASE decision' = decision
  BY <1>2, <1>3, <1>4, <1>5, BesideDecisions
<1>6. ASSUME decision' # decision PROVE AiInv'
  <2>1. PICK d \in Decisions :
          /\ decision[d].st = "absent" /\ \A b \in Decisions : decision[b].st = "absent" => d <= b
          /\ decision' = [decision EXCEPT ![d] = [st |-> "proposed", ask |-> aicall[c].brief,
                 signed |-> aicall[c].brief, version |-> 1, over |-> FALSE, revoked |-> FALSE]]
    BY <1>6 DEF RequestDecision
  <2> DEFINE new == [st |-> "proposed", ask |-> aicall[c].brief,
                     signed |-> aicall[c].brief, version |-> 1, over |-> FALSE, revoked |-> FALSE]
  <2>2. new \in DecisionRec
    BY <1>4 DEF AiCallRec, DecisionRec
  <2>3. new.st = "proposed" /\ new.version = 1 /\ ~new.revoked
    OBVIOUS
  <2>4. decision' = [decision EXCEPT ![d] = new]
    BY <2>1
  <2> HIDE DEF new
  <2>5. decision'[d] = new /\ \A b \in Decisions \ {d} : decision'[b] = decision[b]
    BY <1>4, <2>4
  <2>6. \A b \in Decisions : decision[b].st # "proposed"
    BY <1>6 DEF RequestDecision, NoneOpen, Proposed
  <2>7. AiTyped'
    BY <1>2, <1>3, <1>4, <2>2, <2>4, TypesFrom
  <2>8. \A b \in Decisions : Counted(b) /\ InOrder(b) /\ Recorded(b)
    BY DEF AiInv
  <2>9. \A b \in Decisions : decision[b].st # "absent" => b <= d
    BY <2>1, <2>8, AiConstants DEF InOrder
  <2>10. \A b \in Decisions : Counted(b)' /\ Recorded(b)'
    <3> SUFFICES ASSUME NEW b \in Decisions PROVE Counted(b)' /\ Recorded(b)'
      OBVIOUS
    <3>1. CASE b = d
      BY <2>3, <2>5, <3>1 DEF Counted, Recorded, AiDecided
    <3>2. CASE b # d
      BY <1>2, <2>5, <2>8, <3>2 DEF Counted, Recorded
    <3> QED BY <3>1, <3>2
  <2>11. \A b \in Decisions : InOrder(b)'
    BY <2>1, <2>3, <2>5, <2>6, <2>8, <2>9, AiConstants DEF InOrder
  <2>12. \A e \in AiCalls : CallRight(e)'
    <3>1. \A b \in Decisions : decision[b].st # "absent" => decision'[b] = decision[b]
      BY <2>1, <2>5
    <3> QED BY <1>3, <1>4, <3>1, CallsKept DEF AiInv
  <2>13. OutcomesRight'
    BY <1>2, <2>1, <2>5 DEF AiInv, OutcomesRight, AiDecided
  <2> QED BY <2>7, <2>10, <2>11, <2>12, <2>13 DEF AiInv
<1> QED BY <1>5, <1>6

(* A decision changes, in a step that keeps its place.                     *)
LEMMA OrderKept ==
  ASSUME \A b \in Decisions : InOrder(b),
         \A b \in Decisions : /\ decision'[b].st = "absent" <=> decision[b].st = "absent"
                              /\ decision'[b].st = "proposed" => decision[b].st = "proposed"
  PROVE  \A b \in Decisions : InOrder(b)'
BY DEF InOrder

LEMMA DecideInv ==
  ASSUME AiInv, NEW c \in AiCalls, DecideOrWithdraw(c)
  PROVE  AiInv'
<1> DEFINE d == aicall[c].id
           op == aicall[c].op
           o == [id |-> d, out |-> op]
<1>1. AiTyped /\ AiTypes
  BY DEF AiInv, AiTyped
<1>2. FinishCall(c) /\ UNCHANGED <<use, changes>> /\ outcomes' = Append(outcomes, o)
  BY DEF DecideOrWithdraw
<1>3. aicall' \in [AiCalls -> AiCallRec] /\ \E e \in AiCalls : aicall' = [aicall EXCEPT ![e] = IdleCall]
  BY <1>1, <1>2, CallFinished
<1>4. /\ decision \in [Decisions -> DecisionRec] /\ aicall \in [AiCalls -> AiCallRec]
      /\ use \in [fact : Facts, tier : Tiers, version : 1 .. MaxVersion, live : BOOLEAN] /\ changes \subseteq Facts
      /\ outcomes \in Seq(OutcomeRec)
  BY <1>1, RecordsAre DEF AiTyped, AiTypes
<1>5. op \in AiDecided /\ d \in Decisions /\ decision[d].st = "proposed" /\ (op = "approved" => aicall[c].brief = decision[d].ask)
  <2>1. op \in AiDecided /\ decision[d].st = "proposed"
    BY DEF DecideOrWithdraw, StillProposed, AiDecided
  <2> QED BY <2>1 DEF AiInv, CallRight, AiDecided
<1>6. decision' = [decision EXCEPT ![d].st = op, ![d].version = @ + 1,
                      ![d].signed = IF op = "withdrawn" THEN @ ELSE aicall[c].brief]
  BY DEF DecideOrWithdraw
<1>7. \A b \in Decisions : Counted(b) /\ InOrder(b) /\ Recorded(b)
  BY DEF AiInv
<1>8. aicall[c].brief \in Briefs
  BY <1>4 DEF AiCallRec
<1> HIDE DEF d, op
<1>9. /\ decision'[d].st = op /\ decision'[d].version = 2 /\ decision'[d].revoked = FALSE
      /\ decision'[d].ask = decision[d].ask /\ decision'[d].signed \in Briefs
      /\ op = "approved" => decision'[d].signed = aicall[c].brief
  BY <1>4, <1>5, <1>6, <1>7, <1>8 DEF Counted, DecisionRec
<1>10. decision' \in [Decisions -> DecisionRec] /\ \A b \in Decisions \ {d} : decision'[b] = decision[b]
  BY <1>4, <1>5, <1>6, <1>7, <1>8 DEF Counted, DecisionRec, AiDecided
<1>11. o \in OutcomeRec /\ o.id = d /\ o.out = op
  BY <1>5 DEF OutcomeRec
<1> HIDE DEF o
<1>12. /\ outcomes' \in Seq(OutcomeRec) /\ Len(outcomes) \in Nat /\ Len(outcomes') = Len(outcomes) + 1
       /\ outcomes'[Len(outcomes) + 1] = o
       /\ \A n \in 1 .. Len(outcomes) : outcomes'[n] = outcomes[n]
  BY <1>2, <1>4, <1>11
<1>13. AiTyped'
  BY <1>2, <1>3, <1>4, <1>10, <1>12, TypesFrom
<1>14. \A b \in Decisions : Counted(b)'
  BY <1>5, <1>7, <1>9, <1>10 DEF Counted, AiDecided
<1>15. \A b \in Decisions : InOrder(b)'
  BY <1>5, <1>7, <1>9, <1>10, OrderKept DEF AiDecided
<1>16. \A b \in Decisions : Recorded(b)'
  <2> SUFFICES ASSUME NEW b \in Decisions, decision'[b].st \in AiDecided PROVE \E n \in 1 .. Len(outcomes') : outcomes'[n].id = b
    BY DEF Recorded
  <2>1. CASE b = d
    <3>1. Len(outcomes) + 1 \in 1 .. Len(outcomes')
      BY <1>12
    <3> QED BY <1>11, <1>12, <2>1, <3>1
  <2>2. CASE b # d
    <3>1. PICK n \in 1 .. Len(outcomes) : outcomes[n].id = b
      BY <1>7, <1>10, <2>2 DEF Recorded
    <3>2. n \in 1 .. Len(outcomes') /\ outcomes'[n] = outcomes[n]
      BY <1>12
    <3> QED BY <3>1, <3>2
  <2> QED BY <2>1, <2>2
<1>17. \A e \in AiCalls : CallRight(e)'
  <2>1. \A b \in Decisions : decision[b].st # "absent" =>
            /\ decision'[b].st # "absent" /\ decision'[b].ask = decision[b].ask
            /\ decision[b].st = "approved" => decision'[b].st = "approved"
    BY <1>5, <1>9, <1>10 DEF AiDecided
  <2> QED BY <1>3, <1>4, <2>1, CallsKept DEF AiInv
<1>18. OutcomesRight'
  <2>1. \A n \in 1 .. Len(outcomes) :
          /\ outcomes[n].id \in Decisions /\ outcomes[n].out \in AiDecided
          /\ decision[outcomes[n].id].st = outcomes[n].out
          /\ \A k \in 1 .. Len(outcomes) : n < k => outcomes[n].id < outcomes[k].id
    BY DEF AiInv, OutcomesRight
  <2>2. \A n \in 1 .. Len(outcomes) : outcomes[n].id < d
    <3> SUFFICES ASSUME NEW n \in 1 .. Len(outcomes) PROVE outcomes[n].id < d
      OBVIOUS
    <3>1. outcomes[n].id \in Decisions /\ decision[outcomes[n].id].st \in AiDecided
      BY <2>1
    <3>2. outcomes[n].id # d /\ outcomes[n].id <= d
      BY <1>5, <1>7, <3>1 DEF InOrder, AiDecided
    <3> QED BY <1>5, <3>1, <3>2, AiConstants
  <2> SUFFICES ASSUME NEW n \in 1 .. Len(outcomes')
               PROVE  /\ outcomes'[n].id \in Decisions /\ outcomes'[n].out \in AiDecided
                      /\ decision'[outcomes'[n].id].st = outcomes'[n].out
                      /\ \A k \in 1 .. Len(outcomes') : n < k => outcomes'[n].id < outcomes'[k].id
    BY DEF OutcomesRight
  <2>3. CASE n = Len(outcomes) + 1
    BY <1>5, <1>9, <1>11, <1>12, <2>3
  <2>4. CASE n # Len(outcomes) + 1
    <3>1. n \in 1 .. Len(outcomes) /\ outcomes'[n] = outcomes[n]
      BY <1>12, <2>4
    <3>2. decision'[outcomes[n].id] = decision[outcomes[n].id]
      BY <1>5, <1>10, <2>1, <3>1 DEF AiDecided
    <3>3. ASSUME NEW k \in 1 .. Len(outcomes'), n < k PROVE outcomes'[n].id < outcomes'[k].id
      <4>1. CASE k = Len(outcomes) + 1
        BY <1>11, <1>12, <2>2, <3>1, <4>1
      <4>2. CASE k # Len(outcomes) + 1
        <5>1. k \in 1 .. Len(outcomes) /\ outcomes'[k] = outcomes[k]
          BY <1>12, <4>2
        <5> QED BY <2>1, <3>1, <3>3, <5>1
      <4> QED BY <4>1, <4>2
    <3> QED BY <2>1, <3>1, <3>2, <3>3
  <2> QED BY <2>3, <2>4
<1> QED BY <1>13, <1>14, <1>15, <1>16, <1>17, <1>18 DEF AiInv

(* A revocation, or a date that passes, marks an approval.                 *)
LEMMA MarkInv ==
  ASSUME AiInv, NEW d \in Decisions, decision[d].st = "approved", UNCHANGED <<use, changes, outcomes>>,
         decision' \in [Decisions -> DecisionRec], aicall' \in [AiCalls -> AiCallRec],
         aicall' = aicall \/ \E e \in AiCalls : aicall' = [aicall EXCEPT ![e] = IdleCall],
         \A b \in Decisions \ {d} : decision'[b] = decision[b],
         decision'[d].st = "approved", decision'[d].ask = decision[d].ask, decision'[d].signed = decision[d].signed,
         \/ decision'[d].revoked = decision[d].revoked /\ decision'[d].version = decision[d].version
         \/ decision'[d].revoked = TRUE /\ decision'[d].version = 3
  PROVE  AiInv'
<1>1. AiTyped /\ AiTypes
  BY DEF AiInv, AiTyped
<1>2. /\ decision \in [Decisions -> DecisionRec] /\ aicall \in [AiCalls -> AiCallRec]
      /\ use \in [fact : Facts, tier : Tiers, version : 1 .. MaxVersion, live : BOOLEAN] /\ changes \subseteq Facts
      /\ outcomes \in Seq(OutcomeRec)
  BY <1>1, RecordsAre DEF AiTyped, AiTypes
<1>3. AiTyped'
  BY <1>2, TypesFrom
<1>4. \A b \in Decisions : Counted(b)' /\ Recorded(b)'
  BY DEF AiInv, Counted, Recorded, AiDecided
<1>5. \A b \in Decisions : InOrder(b)'
  BY OrderKept DEF AiInv
<1>6. \A e \in AiCalls : CallRight(e)'
  BY <1>2, CallsKept DEF AiInv
<1>7. OutcomesRight'
  BY DEF AiInv, OutcomesRight
<1> QED BY <1>3, <1>4, <1>5, <1>6, <1>7 DEF AiInv

LEMMA AiInvStep ==
  ASSUME AiInv, [AiNext]_aiVars PROVE AiInv'
<1>1. AiTyped /\ AiTypes
  BY DEF AiInv, AiTyped
<1>2. /\ decision \in [Decisions -> DecisionRec] /\ aicall \in [AiCalls -> AiCallRec]
      /\ use \in [fact : Facts, tier : Tiers, version : 1 .. MaxVersion, live : BOOLEAN] /\ changes \subseteq Facts
  BY <1>1, RecordsAre DEF AiTypes
<1>3. \A d \in Decisions : Counted(d) /\ decision[d].version \in 0 .. 3
  BY <1>2 DEF AiInv, DecisionRec
<1>4. ASSUME NEW c \in AiCalls, ReadForRequest(c) PROVE AiInv'
  BY <1>4, BeginIs DEF ReadForRequest
<1>5. ASSUME NEW c \in AiCalls, RequestDecision(c) PROVE AiInv'
  BY <1>5, RequestInv
<1>6. ASSUME NEW c \in AiCalls, DecideOrWithdraw(c) PROVE AiInv'
  BY <1>6, DecideInv
<1>7. ASSUME NEW c \in AiCalls, Revoked(c) PROVE AiInv'
  <2> DEFINE d == aicall[c].id
  <2>1. /\ d \in Decisions /\ decision[d].st = "approved" /\ decision[d].revoked = FALSE
        /\ decision' = [decision EXCEPT ![d].revoked = TRUE, ![d].version = @ + 1]
        /\ FinishCall(c) /\ UNCHANGED <<use, changes, outcomes>>
    <3>1. aicall[c].op = "revoke" /\ ~decision[d].revoked
      BY <1>7 DEF Revoked
    <3>2. d \in Decisions /\ decision[d].st = "approved"
      BY <3>1 DEF AiInv, CallRight
    <3> QED BY <1>2, <1>7, <3>1, <3>2 DEF Revoked, DecisionRec
  <2> HIDE DEF d
  <2>2. decision[d].version = 2
    BY <1>3, <2>1 DEF Counted, AiDecided
  <2>3. /\ decision'[d].st = "approved" /\ decision'[d].ask = decision[d].ask /\ decision'[d].signed = decision[d].signed
        /\ decision'[d].revoked = TRUE /\ decision'[d].version = 3
        /\ \A b \in Decisions \ {d} : decision'[b] = decision[b]
    BY <1>2, <2>1, <2>2 DEF DecisionRec
  <2>4. decision' \in [Decisions -> DecisionRec]
    BY <1>2, <2>1, <2>2 DEF DecisionRec
  <2>5. aicall' \in [AiCalls -> AiCallRec] /\ \E e \in AiCalls : aicall' = [aicall EXCEPT ![e] = IdleCall]
    BY <1>1, <2>1, CallFinished
  <2> QED BY <2>1, <2>3, <2>4, <2>5, MarkInv
<1>8. ASSUME NEW c \in AiCalls, RollCallBack(c) PROVE AiInv'
  <2>1. \E e \in AiCalls : aicall' = [aicall EXCEPT ![e] = IdleCall]
    BY <1>1, <1>8, CallFinished DEF RollCallBack
  <2> QED BY <1>2, <1>8, <2>1, BesideDecisions DEF RollCallBack
<1>9. ASSUME NEW c \in AiCalls, NEW d \in Decisions, ReadForRevocation(c, d) PROVE AiInv'
  BY <1>3, <1>9, BeginIs DEF ReadForRevocation
<1>10. ASSUME NEW c \in AiCalls, NEW d \in Decisions, NEW out \in AiDecided, ReadForDecision(c, d, out) PROVE AiInv'
  BY <1>3, <1>10, BeginIs DEF ReadForDecision, AsAsked, AiDecided
<1>11. ASSUME NEW f \in Facts, UpdateProfile(f) PROVE AiInv'
  <2>1. use' \in [fact : Facts, tier : Tiers, version : 1 .. MaxVersion, live : BOOLEAN]
    BY <1>2, <1>11, AiConstants DEF UpdateProfile
  <2>2. changes' \subseteq Facts /\ UNCHANGED <<decision, aicall, outcomes>>
    BY <1>2, <1>11 DEF UpdateProfile
  <2> QED BY <2>1, <2>2, BesideDecisions
<1>12. ASSUME NEW t \in Tiers, AdoptTier(t) PROVE AiInv'
  <2>1. use' \in [fact : Facts, tier : Tiers, version : 1 .. MaxVersion, live : BOOLEAN]
    BY <1>2, <1>12, AiConstants DEF AdoptTier
  <2> QED BY <1>2, <1>12, <2>1, BesideDecisions DEF AdoptTier
<1>13. ASSUME RetireOrRestore PROVE AiInv'
  <2>1. use' \in [fact : Facts, tier : Tiers, version : 1 .. MaxVersion, live : BOOLEAN]
    BY <1>2, <1>13 DEF RetireOrRestore
  <2> QED BY <1>2, <1>13, <2>1, BesideDecisions DEF RetireOrRestore
<1>14. ASSUME NEW d \in Decisions, DatePasses(d) PROVE AiInv'
  <2>1. decision[d].st = "approved" /\ decision' = [decision EXCEPT ![d].over = TRUE] /\ UNCHANGED <<use, aicall, changes, outcomes>>
    BY <1>14 DEF DatePasses
  <2>2. /\ decision'[d].st = "approved" /\ decision'[d].ask = decision[d].ask /\ decision'[d].signed = decision[d].signed
        /\ decision'[d].revoked = decision[d].revoked /\ decision'[d].version = decision[d].version
        /\ \A b \in Decisions \ {d} : decision'[b] = decision[b]
    BY <1>2, <2>1 DEF DecisionRec
  <2>3. decision' \in [Decisions -> DecisionRec]
    BY <1>2, <2>1 DEF DecisionRec
  <2> QED BY <1>2, <2>1, <2>2, <2>3, MarkInv
<1>15. ASSUME UNCHANGED aiVars PROVE AiInv'
  BY <1>2, <1>15, BesideDecisions DEF aiVars
<1> QED BY <1>4, <1>5, <1>6, <1>7, <1>8, <1>9, <1>10, <1>11, <1>12, <1>13, <1>14, <1>15 DEF AiNext, AiDecided

(* The types of an AI use, the requests for a decision on it and the calls *)
(* of request_decision, decide, withdraw and revoke: a request's version   *)
(* never passes 3, since it is decided once and revoked once.              *)
THEOREM AiTypesTheorem == AiSpec => []AiTypes
<1>1. AiInv => AiTypes
  BY DEF AiInv, AiTyped
<1> QED BY <1>1, AiInitInv, AiInvStep, PTL DEF AiSpec

(* decide (decisions.py): an approval in force was given on exactly what   *)
(* was put forward, is the one outcome of its request, and no approval or  *)
(* rejection came after it, however requests, deciders and edits of the    *)
(* use overlap.                                                            *)
THEOREM AskedTheorem == AiSpec => []ApprovedAsAsked
<1>1. ASSUME AiInv PROVE ApprovedAsAsked
  <2> SUFFICES ASSUME NEW d \in InForce
               PROVE  /\ decision[d].signed = decision[d].ask
                      /\ \E n \in 1 .. Len(outcomes) :
                           /\ outcomes[n] = [id |-> d, out |-> "approved"]
                           /\ \A k \in 1 .. Len(outcomes) : k # n =>
                                outcomes[k].id # d /\ (k > n => outcomes[k].out \in {"returned", "withdrawn"})
    BY DEF ApprovedAsAsked
  <2>1. /\ d \in Decisions /\ decision[d].st = "approved"
        /\ \A b \in Decisions : decision[b].st \in {"approved", "rejected"} => b <= d
    BY DEF InForce, Standing
  <2>2. /\ outcomes \in Seq(OutcomeRec) /\ Len(outcomes) \in Nat
        /\ decision[d].signed = decision[d].ask
    BY <1>1, <2>1 DEF AiInv, AiTyped, Counted
  <2>3. PICK n \in 1 .. Len(outcomes) : outcomes[n].id = d
    BY <1>1, <2>1 DEF AiInv, Recorded, AiDecided
  <2>4. \A i \in 1 .. Len(outcomes) :
          /\ outcomes[i].id \in Decisions /\ outcomes[i].out \in AiDecided
          /\ decision[outcomes[i].id].st = outcomes[i].out
          /\ \A k \in 1 .. Len(outcomes) : i < k => outcomes[i].id < outcomes[k].id
    BY <1>1 DEF AiInv, OutcomesRight
  <2>5. outcomes[n] = [id |-> d, out |-> "approved"]
    <3>1. outcomes[n] \in OutcomeRec /\ outcomes[n].out = "approved"
      BY <2>1, <2>2, <2>3, <2>4
    <3> QED BY <2>3, <3>1 DEF OutcomeRec
  <2>6. ASSUME NEW k \in 1 .. Len(outcomes), k # n
        PROVE  outcomes[k].id # d /\ (k > n => outcomes[k].out \in {"returned", "withdrawn"})
    <3>1. k \in Int /\ n \in Int /\ outcomes[k].id \in Nat /\ d \in Nat
      BY <2>1, <2>2, <2>4, AiConstants
    <3>2. k < n \/ n < k
      BY <2>6, <3>1
    <3>3. outcomes[k].id # d
      BY <2>3, <2>4, <3>1, <3>2
    <3>4. ASSUME k > n PROVE outcomes[k].out \in {"returned", "withdrawn"}
      <4>1. outcomes[k].id > d
        BY <2>3, <2>4, <3>1, <3>4
      <4>2. outcomes[k].out \notin {"approved", "rejected"}
        BY <2>1, <2>4, <3>1, <4>1
      <4> QED BY <2>4, <4>2 DEF AiDecided
    <3> QED BY <3>3, <3>4
  <2> QED BY <2>2, <2>3, <2>5, <2>6
<1> QED BY <1>1, AiInitInv, AiInvStep, PTL DEF AiSpec

-----------------------------------------------------------------------------
(***************************************************************************)
(* The steps of a workflow.                                                *)
(***************************************************************************)

ActionStates == {"absent", "pending", "approved", "rejected", "returned", "cancelled"}
ActionRow == [st : ActionStates, step : 0 .. MAX_STEPS - 1]

(* A call in progress decides on an action.                                *)
HoldsAction == \A c \in WCalls : wcall[c] # FreeCall => wcall[c].id \in WActions
EngineTyped == EngineTypes /\ HoldsAction

(* With decisions one at a time, what the one in progress read is still so.*)
AloneInv ==
  /\ \A c, e \in WCalls : wcall[c] # FreeCall /\ wcall[e] # FreeCall => c = e
  /\ \A c \in WCalls : wcall[c] # FreeCall => act[wcall[c].id].st = "pending"

(* And with a definition that is kept, the instance is at one of its steps.*)
FlowInv ==
  /\ steps \in Lengths
  /\ flow.st = "active" => flow.step < steps
  /\ \A c \in WCalls : wcall[c] # FreeCall => wcall[c].len = steps

LEMMA FreeCallIs == FreeCall.id = NoAction /\ FreeCall \in [id : WActions \cup {NoAction}, len : 0 .. MAX_STEPS]
BY EngineAssumption DEF FreeCall, NoAction

LEMMA LengthsAre == Lengths \subseteq 0 .. MAX_STEPS /\ (StepsKept => Lengths \subseteq 1 .. MAX_STEPS)
BY EngineAssumption DEF Lengths

(* The rows of a new step.                                                 *)
LEMMA WithStepIs ==
  ASSUME NEW rows \in [WActions -> ActionRow], NEW S \in Holders, NEW k \in 0 .. MAX_STEPS - 1
  PROVE  /\ WithStep(rows, S, k) \in [WActions -> ActionRow]
         /\ S # {} /\ S \subseteq WActions /\ \A a \in S : act[a].st = "absent"
         /\ \A a \in S : WithStep(rows, S, k)[a].st = "pending" /\ WithStep(rows, S, k)[a].step = k
         /\ \A a \in WActions \ S : WithStep(rows, S, k)[a] = rows[a]
<1>1. S # {} /\ S \subseteq WActions /\ \A a \in S : act[a].st = "absent"
  BY DEF Holders, Unused
<1>2. [st |-> "pending", step |-> k] \in ActionRow
  BY DEF ActionRow, ActionStates
<1>3. WithStep(rows, S, k) \in [WActions -> ActionRow]
  BY <1>2 DEF WithStep
<1>4. \A a \in S : WithStep(rows, S, k)[a].st = "pending" /\ WithStep(rows, S, k)[a].step = k
  BY <1>1 DEF WithStep
<1>5. \A a \in WActions \ S : WithStep(rows, S, k)[a] = rows[a]
  BY DEF WithStep
<1> QED BY <1>1, <1>3, <1>4, <1>5

(* The rows after a decision: of the step's actions none waits, and the    *)
(* others are as they were.                                                *)
LEMMA DecidedIs ==
  ASSUME EngineTypes, NEW a \in WActions, NEW as \in ActionStates
  PROVE  /\ Decided(a, as) \in [WActions -> ActionRow]
         /\ Decided(a, as)[a].st = as
         /\ \A b \in WActions : b # a => Decided(a, as)[b] = act[b] \/ Decided(a, as)[b].st = "cancelled"
         /\ \A b \in WActions :
              b # a /\ act[b].st = "pending" /\ act[b].step = act[a].step => Decided(a, as)[b].st = "cancelled"
<1>1. \A b \in WActions : act[b] \in ActionRow
  BY DEF EngineTypes, ActionRow, ActionStates
<1>2. \A b \in WActions, s \in ActionStates :
        [act[b] EXCEPT !.st = s] \in ActionRow /\ [act[b] EXCEPT !.st = s].st = s
  BY <1>1 DEF ActionRow
<1>3. "cancelled" \in ActionStates
  BY DEF ActionStates
<1>4. \A b \in WActions : b # a => Decided(a, as)[b] = act[b] \/ Decided(a, as)[b].st = "cancelled"
  BY <1>2, <1>3 DEF Decided
<1>5. \A b \in WActions :
        b # a /\ act[b].st = "pending" /\ act[b].step = act[a].step => Decided(a, as)[b].st = "cancelled"
  BY <1>2, <1>3 DEF Decided, Siblings
<1> QED BY <1>1, <1>2, <1>3, <1>4, <1>5 DEF Decided

(* What a decision leaves: either the next step's actions, or none.        *)
LEMMA DecisionIs ==
  ASSUME EngineTyped, NEW c \in WCalls, ApproveStep(c) \/ RejectStep(c) \/ ReturnStep(c)
  PROVE  \E as \in {"approved", "rejected", "returned"} :
           LET a == wcall[c].id IN
           /\ a \in WActions /\ wcall[c] # FreeCall
           /\ wcall' = [wcall EXCEPT ![c] = FreeCall] /\ steps' = steps
           /\ \/ /\ act' = Decided(a, as)
                 /\ \/ flow' = [flow EXCEPT !.st = "completed"] \/ flow' = [flow EXCEPT !.st = "rejected"]
                    \/ \E k \in 0 .. act[a].step : k >= wcall[c].len /\ flow' = [st |-> "active", step |-> k]
              \/ \E k \in 0 .. MAX_STEPS - 1 :
                   /\ k < wcall[c].len
                   /\ flow' = [flow EXCEPT !.step = k] \/ flow' = [st |-> "active", step |-> k]
                   /\ \E S \in Holders : act' = WithStep(Decided(a, as), S, k)
<1> DEFINE a == wcall[c].id
<1>1. wcall[c] # FreeCall /\ a \in WActions
  BY DEF ApproveStep, RejectStep, ReturnStep, EngineTyped, HoldsAction
<1>2. /\ act[a].step \in 0 .. MAX_STEPS - 1 /\ wcall[c].len \in 0 .. MAX_STEPS
      /\ MAX_STEPS \in Nat
  BY <1>1, EngineAssumption DEF EngineTyped, EngineTypes
<1>3. CASE ApproveStep(c)
  <2>1. CASE act[a].step + 1 < wcall[c].len
    <3>1. act[a].step + 1 \in 0 .. MAX_STEPS - 1
      BY <1>2, <2>1
    <3> QED BY <1>1, <1>2, <1>3, <2>1, <3>1 DEF ApproveStep
  <2>2. CASE ~(act[a].step + 1 < wcall[c].len)
    BY <1>1, <1>2, <1>3, <2>2 DEF ApproveStep
  <2> QED BY <2>1, <2>2
<1>4. CASE RejectStep(c)
  BY <1>1, <1>4 DEF RejectStep
<1>5. CASE ReturnStep(c)
  <2>1. PICK k \in 0 .. act[a].step :
          /\ flow' = [st |-> "active", step |-> k]
          /\ IF k < wcall[c].len
             THEN \E S \in Holders : act' = WithStep(Decided(a, "returned"), S, k)
             ELSE act' = Decided(a, "returned")
    BY <1>5 DEF ReturnStep
  <2>2. k \in 0 .. MAX_STEPS - 1 /\ (~(k < wcall[c].len) => k >= wcall[c].len)
    BY <1>2
  <2>3. wcall' = [wcall EXCEPT ![c] = FreeCall] /\ steps' = steps
    BY <1>5 DEF ReturnStep
  <2> QED BY <1>1, <2>1, <2>2, <2>3
<1> QED BY <1>3, <1>4, <1>5

LEMMA EngineStartIs ==
  ASSUME EngineTyped, StartFlow
  PROVE  /\ flow.st = "none" /\ flow' = [st |-> "active", step |-> 0] /\ UNCHANGED <<steps, wcall>>
         /\ (steps = 0 /\ act' = act) \/ (steps # 0 /\ \E S \in Holders : act' = WithStep(act, S, 0))
BY DEF StartFlow

LEMMA ActIsRows ==
  ASSUME EngineTypes PROVE act \in [WActions -> ActionRow]
BY DEF EngineTypes, ActionRow, ActionStates

LEMMA EngineTypesInit == EngineInit => EngineTyped
<1> SUFFICES ASSUME EngineInit PROVE EngineTyped
  OBVIOUS
<1>1. steps \in 0 .. MAX_STEPS
  BY LengthsAre DEF EngineInit
<1>2. flow \in [st : {"none", "active", "completed", "rejected"}, step : 0 .. MAX_STEPS - 1]
  BY EngineAssumption DEF EngineInit
<1>3. act \in [WActions -> [st : ActionStates, step : 0 .. MAX_STEPS - 1]]
  BY EngineAssumption DEF EngineInit, ActionStates
<1>4. wcall \in [WCalls -> [id : WActions \cup {NoAction}, len : 0 .. MAX_STEPS]] /\ HoldsAction
  BY FreeCallIs DEF EngineInit, HoldsAction
<1> QED BY <1>1, <1>2, <1>3, <1>4 DEF EngineTyped, EngineTypes, ActionStates

LEMMA EngineTypesStep ==
  ASSUME EngineTyped, [EngineNext]_engineVars
  PROVE  EngineTyped'
<1> USE DEF EngineTyped
<1> DEFINE CallRecs == [id : WActions \cup {NoAction}, len : 0 .. MAX_STEPS]
<1>1. steps' \in 0 .. MAX_STEPS
  BY LengthsAre DEF EngineTypes, EngineNext, StartFlow, ReadAction, ApproveStep, RejectStep, ReturnStep,
         DropDecision, EditDefinition, engineVars
<1>2. flow' \in [st : {"none", "active", "completed", "rejected"}, step : 0 .. MAX_STEPS - 1]
  <2>1. flow \in [st : {"none", "active", "completed", "rejected"}, step : 0 .. MAX_STEPS - 1] /\ MAX_STEPS \in Nat \ {0}
    BY EngineAssumption DEF EngineTypes
  <2>2. CASE StartFlow
    BY <2>1, <2>2, EngineStartIs
  <2>3. ASSUME NEW c \in WCalls, ApproveStep(c) \/ RejectStep(c) \/ ReturnStep(c) PROVE flow' \in [st : {"none", "active", "completed", "rejected"}, step : 0 .. MAX_STEPS - 1]
    <3>1. wcall[c].id \in WActions
      BY <2>3, DecisionIs
    <3>2. act[wcall[c].id].step \in 0 .. MAX_STEPS - 1
      BY <3>1 DEF EngineTypes
    <3> QED BY <2>1, <2>3, <3>2, DecisionIs
  <2>4. CASE flow' = flow
    BY <2>1, <2>4
  <2> QED BY <2>2, <2>3, <2>4 DEF EngineNext, ReadAction, DropDecision, EditDefinition, engineVars
<1>3. act' \in [WActions -> ActionRow]
  <2>1. CASE StartFlow
    <3>1. 0 \in 0 .. MAX_STEPS - 1
      BY EngineAssumption
    <3> QED BY <2>1, <3>1, EngineStartIs, ActIsRows, WithStepIs
  <2>2. ASSUME NEW c \in WCalls, ApproveStep(c) \/ RejectStep(c) \/ ReturnStep(c) PROVE act' \in [WActions -> ActionRow]
    <3>1. wcall[c].id \in WActions /\ EngineTypes
      BY <2>2, DecisionIs
    <3>2. \A as \in {"approved", "rejected", "returned"} : Decided(wcall[c].id, as) \in [WActions -> ActionRow]
      BY <3>1, DecidedIs DEF ActionStates
    <3> QED BY <2>2, <3>2, DecisionIs, WithStepIs
  <2>3. CASE act' = act
    BY <2>3, ActIsRows
  <2> QED BY <2>1, <2>2, <2>3 DEF EngineNext, ReadAction, DropDecision, EditDefinition, engineVars
<1>4. wcall' \in [WCalls -> CallRecs] /\ HoldsAction'
  <2>1. wcall \in [WCalls -> CallRecs] /\ FreeCall \in CallRecs
    BY FreeCallIs DEF EngineTypes
  <2>2. ASSUME NEW c \in WCalls, NEW a \in WActions, ReadAction(c, a) PROVE wcall' \in [WCalls -> CallRecs] /\ HoldsAction'
    <3>1. [id |-> a, len |-> steps] \in CallRecs
      BY DEF EngineTypes
    <3> QED BY <2>1, <2>2, <3>1 DEF ReadAction, HoldsAction
  <2>3. ASSUME NEW c \in WCalls, wcall' = [wcall EXCEPT ![c] = FreeCall] PROVE wcall' \in [WCalls -> CallRecs] /\ HoldsAction'
    BY <2>1, <2>3 DEF HoldsAction
  <2>4. CASE wcall' = wcall
    BY <2>1, <2>4 DEF HoldsAction
  <2> QED BY <2>2, <2>3, <2>4 DEF EngineNext, StartFlow, ApproveStep, RejectStep, ReturnStep,
                                  DropDecision, EditDefinition, engineVars
<1> QED BY <1>1, <1>2, <1>3, <1>4 DEF EngineTypes, ActionRow, ActionStates

(* With one decision at a time, its action waits until it is decided.      *)
LEMMA AloneStep ==
  ASSUME OneAtATime, EngineTyped, AloneInv, [EngineNext]_engineVars
  PROVE  AloneInv'
<1>1. wcall \in [WCalls -> [id : WActions \cup {NoAction}, len : 0 .. MAX_STEPS]]
  BY DEF EngineTyped, EngineTypes
<1>2. CASE StartFlow
  <2>1. \A a \in WActions : act[a].st = "pending" => act'[a].st = "pending"
    <3>1. 0 \in 0 .. MAX_STEPS - 1
      BY EngineAssumption
    <3> QED BY <1>2, <3>1, EngineStartIs, ActIsRows, WithStepIs DEF EngineTyped
  <2> QED BY <1>2, <2>1, EngineStartIs DEF AloneInv, EngineTyped, HoldsAction
<1>3. ASSUME NEW c \in WCalls, NEW a \in WActions, ReadAction(c, a) PROVE AloneInv'
  <2>1. \A e \in WCalls \ {c} : wcall'[e] = FreeCall
    BY <1>1, <1>3 DEF ReadAction, Busy
  <2>2. wcall'[c].id = a /\ act'[a].st = "pending"
    BY <1>1, <1>3 DEF ReadAction
  <2> QED BY <2>1, <2>2 DEF AloneInv
<1>4. ASSUME NEW c \in WCalls, wcall[c] # FreeCall, wcall' = [wcall EXCEPT ![c] = FreeCall] PROVE AloneInv'
  <2>1. \A e \in WCalls : wcall'[e] = FreeCall
    BY <1>1, <1>4 DEF AloneInv
  <2> QED BY <2>1 DEF AloneInv
<1>5. CASE EditDefinition \/ UNCHANGED engineVars
  BY <1>5 DEF EditDefinition, engineVars, AloneInv
<1> QED BY <1>2, <1>3, <1>4, <1>5 DEF EngineNext, ApproveStep, RejectStep, ReturnStep, DropDecision

(* An instance at a step, after its actions have been created.             *)
LEMMA FreshActionStep ==
  ASSUME NEW rows \in [WActions -> ActionRow], NEW S \in Holders, NEW k \in 0 .. MAX_STEPS - 1,
         \A a \in WActions : rows[a].st # "pending",
         act' = WithStep(rows, S, k), flow'.st = "active", flow'.step = k
  PROVE  OneStepWaits'
<1>1. \A a \in WActions : act'[a].st = "pending" => a \in S
  BY WithStepIs
<1>2. \E a \in S : a \in WActions
  BY WithStepIs
<1> QED BY <1>1, <1>2, WithStepIs DEF OneStepWaits

LEMMA WaitsStep ==
  ASSUME OneAtATime, StepsKept, EngineTyped, AloneInv, FlowInv, OneStepWaits, [EngineNext]_engineVars
  PROVE  FlowInv' /\ OneStepWaits'
<1>1. /\ wcall \in [WCalls -> [id : WActions \cup {NoAction}, len : 0 .. MAX_STEPS]]
      /\ flow \in [st : {"none", "active", "completed", "rejected"}, step : 0 .. MAX_STEPS - 1]
      /\ steps \in 1 .. MAX_STEPS /\ MAX_STEPS \in Nat \ {0}
  BY LengthsAre, EngineAssumption DEF EngineTyped, EngineTypes, FlowInv
<1>2. CASE StartFlow
  <2>1. PICK S \in Holders : act' = WithStep(act, S, 0)
    BY <1>1, <1>2, EngineStartIs
  <2>2. \A a \in WActions : act[a].st # "pending"
    BY <1>2, EngineStartIs DEF OneStepWaits
  <2>3. flow' = [st |-> "active", step |-> 0] /\ UNCHANGED <<steps, wcall>>
    BY <1>2, EngineStartIs
  <2>4. OneStepWaits'
    <3>1. 0 \in 0 .. MAX_STEPS - 1 /\ flow'.st = "active" /\ flow'.step = 0
      BY <1>1, <2>3
    <3> QED BY <2>1, <2>2, <3>1, ActIsRows, FreshActionStep DEF EngineTyped
  <2> QED BY <1>1, <2>3, <2>4 DEF FlowInv
<1>3. ASSUME NEW c \in WCalls, ApproveStep(c) \/ RejectStep(c) \/ ReturnStep(c)
      PROVE FlowInv' /\ OneStepWaits'
  <2> DEFINE a == wcall[c].id
  <2>1. PICK as \in {"approved", "rejected", "returned"} :
           /\ a \in WActions /\ wcall[c] # FreeCall
           /\ wcall' = [wcall EXCEPT ![c] = FreeCall] /\ steps' = steps
           /\ \/ /\ act' = Decided(a, as)
                 /\ \/ flow' = [flow EXCEPT !.st = "completed"] \/ flow' = [flow EXCEPT !.st = "rejected"]
                    \/ \E k \in 0 .. act[a].step : k >= wcall[c].len /\ flow' = [st |-> "active", step |-> k]
              \/ \E k \in 0 .. MAX_STEPS - 1 :
                   /\ k < wcall[c].len
                   /\ flow' = [flow EXCEPT !.step = k] \/ flow' = [st |-> "active", step |-> k]
                   /\ \E S \in Holders : act' = WithStep(Decided(a, as), S, k)
    BY <1>3, DecisionIs
  <2>2. /\ act[a].st = "pending" /\ flow.st = "active" /\ act[a].step = flow.step
        /\ flow.step < steps /\ wcall[c].len = steps
    BY <2>1 DEF AloneInv, OneStepWaits, FlowInv
  <2>3. Decided(a, as) \in [WActions -> ActionRow] /\ \A b \in WActions : Decided(a, as)[b].st # "pending"
    <3>1. as \in ActionStates /\ as # "pending"
      BY DEF ActionStates
    <3>2. \A b \in WActions : act[b].st = "pending" => act[b].step = act[a].step
      BY <2>2 DEF OneStepWaits
    <3>3. a \in WActions /\ EngineTypes
      BY <2>1 DEF EngineTyped
    <3> HIDE DEF a
    <3> QED BY <3>1, <3>2, <3>3, DecidedIs
  <2>4. \A e \in WCalls : wcall'[e] = FreeCall
    BY <1>1, <2>1 DEF AloneInv
  <2>5. CASE /\ act' = Decided(a, as)
             /\ flow' = [flow EXCEPT !.st = "completed"] \/ flow' = [flow EXCEPT !.st = "rejected"]
    <3>1. flow'.st # "active"
      BY <1>1, <2>5
    <3> QED BY <2>1, <2>3, <2>4, <2>5, <3>1 DEF FlowInv, OneStepWaits
  <2>6. ASSUME NEW k \in 0 .. act[a].step, k >= wcall[c].len PROVE FALSE
    BY <1>1, <2>2, <2>6
  <2>7. ASSUME NEW k \in 0 .. MAX_STEPS - 1, k < wcall[c].len,
               flow' = [flow EXCEPT !.step = k] \/ flow' = [st |-> "active", step |-> k],
               NEW S \in Holders, act' = WithStep(Decided(a, as), S, k)
        PROVE FlowInv' /\ OneStepWaits'
    <3>1. flow'.st = "active" /\ flow'.step = k
      BY <1>1, <2>2, <2>7
    <3>2. OneStepWaits'
      BY <2>3, <2>7, <3>1, FreshActionStep
    <3> QED BY <2>1, <2>2, <2>4, <2>7, <3>1, <3>2 DEF FlowInv
  <2> QED BY <2>1, <2>5, <2>6, <2>7
<1>4. ASSUME NEW c \in WCalls, NEW a \in WActions, ReadAction(c, a) PROVE FlowInv' /\ OneStepWaits'
  <2>1. \A e \in WCalls \ {c} : wcall'[e] = wcall[e]
    BY <1>1, <1>4 DEF ReadAction
  <2>2. wcall'[c].len = steps
    BY <1>1, <1>4 DEF ReadAction
  <2> QED BY <1>4, <2>1, <2>2 DEF ReadAction, FlowInv, OneStepWaits
<1>5. ASSUME NEW c \in WCalls, DropDecision(c) PROVE FlowInv' /\ OneStepWaits'
  BY <1>1, <1>5 DEF DropDecision, FlowInv, OneStepWaits
<1>6. CASE EditDefinition
  <2>1. \A c \in WCalls : wcall[c] = FreeCall
    BY <1>6 DEF EditDefinition, AloneInv, OneStepWaits, EngineTyped, HoldsAction
  <2> QED BY <1>6, <2>1 DEF EditDefinition, FlowInv, OneStepWaits
<1>7. CASE UNCHANGED engineVars
  BY <1>7 DEF engineVars, FlowInv, OneStepWaits
<1> QED BY <1>2, <1>3, <1>4, <1>5, <1>6, <1>7 DEF EngineNext

(* The types of an instance, its actions and the decisions on them,        *)
(* however they overlap and whatever is edited.                            *)
THEOREM EngineTypesTheorem == EngineSpec => []EngineTypes
<1>1. EngineInit => EngineTyped
  BY EngineTypesInit
<1>2. EngineTyped /\ [EngineNext]_engineVars => EngineTyped'
  BY EngineTypesStep
<1>3. EngineTyped => EngineTypes
  BY DEF EngineTyped
<1> QED BY <1>1, <1>2, <1>3, PTL DEF EngineSpec

(* api_workflow_action_decide on a server of one process, which it is not  *)
(* as deployed: decisions do not overlap there, and an action that was     *)
(* cancelled stays so.  The run workflow_first is the two-process case.    *)
LEMMA FirstResponderAlone ==
  ASSUME OneAtATime
  PROVE  EngineSpec => FirstResponderWins
<1> DEFINE I == EngineTyped /\ AloneInv
           A == \A a \in WActions : act[a].st = "cancelled" => act'[a].st = "cancelled"
<1>1. EngineInit => I
  BY EngineTypesInit DEF EngineInit, AloneInv
<1>2. I /\ [EngineNext]_engineVars => I'
  BY EngineTypesStep, AloneStep
<1>3. I /\ [EngineNext]_engineVars => [A]_engineVars
  <2> SUFFICES ASSUME I, EngineNext, NEW b \in WActions, act[b].st = "cancelled"
               PROVE  act'[b].st = "cancelled"
    OBVIOUS
  <2>1. ASSUME NEW rows \in [WActions -> ActionRow], NEW S \in Holders, NEW k \in 0 .. MAX_STEPS - 1,
               act' = WithStep(rows, S, k), rows[b].st = "cancelled"
        PROVE  act'[b].st = "cancelled"
    <3>1. b \notin S
      BY WithStepIs
    <3> QED BY <2>1, <3>1, WithStepIs
  <2>2. CASE StartFlow
    <3>1. 0 \in 0 .. MAX_STEPS - 1
      BY EngineAssumption
    <3> QED BY <2>1, <2>2, <3>1, EngineStartIs, ActIsRows DEF EngineTyped
  <2>3. ASSUME NEW c \in WCalls, ApproveStep(c) \/ RejectStep(c) \/ ReturnStep(c) PROVE act'[b].st = "cancelled"
    <3>1. b # wcall[c].id /\ EngineTypes
      BY <2>3, DecisionIs DEF AloneInv, EngineTyped
    <3>2. \A a \in WActions, as \in ActionStates :
            b # a => Decided(a, as) \in [WActions -> ActionRow] /\ Decided(a, as)[b].st = "cancelled"
      BY <3>1, DecidedIs
    <3>3. {"approved", "rejected", "returned"} \subseteq ActionStates
      BY DEF ActionStates
    <3>4. PICK as \in {"approved", "rejected", "returned"} :
             \/ act' = Decided(wcall[c].id, as)
             \/ \E k \in 0 .. MAX_STEPS - 1, S \in Holders : act' = WithStep(Decided(wcall[c].id, as), S, k)
      BY <2>3, DecisionIs
    <3>5. wcall[c].id \in WActions
      BY <2>3, DecisionIs
    <3>6. Decided(wcall[c].id, as) \in [WActions -> ActionRow] /\ Decided(wcall[c].id, as)[b].st = "cancelled"
      BY <3>1, <3>2, <3>3, <3>5
    <3> QED BY <2>1, <3>4, <3>6
  <2>4. CASE act' = act
    BY <2>4
  <2> QED BY <2>2, <2>3, <2>4 DEF EngineNext, ReadAction, DropDecision, EditDefinition
<1> QED BY <1>1, <1>2, <1>3, PTL DEF EngineSpec, FirstResponderWins

(* On a server of one process and with the definition kept, what waits is  *)
(* the current step of an instance that runs, and an instance that runs    *)
(* waits for somebody.  With two processes it fails as FirstResponderWins  *)
(* does.                                                                   *)
LEMMA OneStepAlone ==
  ASSUME OneAtATime, StepsKept
  PROVE  EngineSpec => []OneStepWaits
<1> DEFINE I == EngineTyped /\ AloneInv /\ FlowInv /\ OneStepWaits
<1>1. EngineInit => I
  BY EngineTypesInit DEF EngineInit, AloneInv, FlowInv, OneStepWaits
<1>2. I /\ [EngineNext]_engineVars => I'
  BY EngineTypesStep, AloneStep, WaitsStep
<1>3. I => OneStepWaits
  OBVIOUS
<1> QED BY <1>1, <1>2, <1>3, PTL DEF EngineSpec
=============================================================================
