---------------------------- MODULE AiDecisions ----------------------------
(***************************************************************************)
(* Decisions on one AI use (ai_governance/decisions.py): somebody asks for *)
(* one on the use as it is, somebody else decides on what they were shown, *)
(* and the state of the use is derived from the latest outcome and from    *)
(* what the use is now.  Nothing locks the use: its profile is edited      *)
(* (service.py) between the statements of a call.                          *)
(*                                                                         *)
(* Data abstracted: a brief is the covered facts, the tier and the version *)
(* of the profile; approvals with and without conditions are one; dates of *)
(* an approval and of the proof it rests on are to come or passed; who may *)
(* do what, evaluations and regulatory changes are left out.               *)
(***************************************************************************)
EXTENDS Integers, Sequences, FiniteSets

CONSTANTS
  Decisions,   \* ids of ai_use_decisions
  Facts,       \* fingerprints of the facts a decision covers
  Tiers,
  AiCalls,     \* calls of request_decision, decide, withdraw and revoke at one time
  MaxVersion   \* bound on the version of the profile

(* Assumed of the constants. *)
ASSUME DecisionAssumption == Decisions \subseteq Nat /\ MaxVersion \in Nat \ {0}

VARIABLES
  use,       \* ai_use_profiles and applications: [fact, tier, version, live]
  decision,  \* ai_use_decisions
  aicall,    \* a call: what it does, the decision and the brief it has read
  changes,   \* events: the dedup keys of ai_use.material_change
  outcomes   \* history: what was decided or withdrawn, in order

aiVars == <<use, decision, aicall, changes, outcomes>>

NoDecision == -1
Brief == [fact |-> use.fact, tier |-> use.tier, version |-> use.version]
NoBrief == [fact |-> CHOOSE f \in Facts : TRUE, tier |-> CHOOSE t \in Tiers : TRUE, version |-> 1]
NoRequest == [st |-> "absent", ask |-> NoBrief, signed |-> NoBrief, version |-> 0,
              over |-> FALSE, revoked |-> FALSE]
IdleCall == [op |-> "none", id |-> NoDecision, version |-> 0, brief |-> NoBrief]

AiInit ==
  /\ \E f \in Facts, t \in Tiers : use = [fact |-> f, tier |-> t, version |-> 1, live |-> TRUE]
  /\ decision = [d \in Decisions |-> NoRequest]
  /\ aicall = [c \in AiCalls |-> IdleCall]
  /\ changes = {} /\ outcomes = <<>>

Proposed == {d \in Decisions : decision[d].st = "proposed"}

-----------------------------------------------------------------------------
(* A call reads, checks, and writes in a later statement.                  *)

BeginCall(c, op, d, version) ==
  /\ aicall[c].op = "none"
  /\ aicall' = [aicall EXCEPT ![c] = [op |-> op, id |-> d, version |-> version, brief |-> Brief]]
  /\ UNCHANGED <<use, decision, changes, outcomes>>

FinishCall(c) == aicall' = [aicall EXCEPT ![c] = IdleCall]

ReadForRequest(c) == use.live /\ BeginCall(c, "ask", NoDecision, 0)

(* uq_ai_decision_open: one open request.                                  *)
NoneOpen == Proposed = {}

RequestDecision(c) ==
  /\ aicall[c].op = "ask"
  /\ IF ~NoneOpen THEN decision' = decision
     ELSE \E d \in Decisions :
       /\ decision[d].st = "absent" /\ \A b \in Decisions : decision[b].st = "absent" => d <= b
       /\ decision' = [decision EXCEPT ![d] = [st |-> "proposed", ask |-> aicall[c].brief,
              signed |-> aicall[c].brief, version |-> 1, over |-> FALSE, revoked |-> FALSE]]
  /\ FinishCall(c)
  /\ UNCHANGED <<use, changes, outcomes>>

(* Approving asks that the decider saw the use as it is, and that it is as *)
(* it was put forward.                                                     *)
AsAsked(d) == decision[d].ask = Brief

ReadForDecision(c, d, out) ==
  /\ decision[d].st = "proposed"
  /\ out = "approved" => AsAsked(d)
  /\ BeginCall(c, out, d, decision[d].version)

(* The compare-and-set of decide and withdraw.  (Slip: by id alone.)       *)
Slip_StillProposed(c) == TRUE
StillProposed(c) ==
  decision[aicall[c].id].st = "proposed" /\ decision[aicall[c].id].version = aicall[c].version

DecideOrWithdraw(c) ==
  LET d == aicall[c].id IN
  /\ aicall[c].op \in {"approved", "rejected", "returned", "withdrawn"} /\ StillProposed(c)
  /\ decision' = [decision EXCEPT ![d].st = aicall[c].op, ![d].version = @ + 1,
         ![d].signed = IF aicall[c].op = "withdrawn" THEN @ ELSE aicall[c].brief]
  /\ outcomes' = Append(outcomes, [id |-> d, out |-> aicall[c].op])
  /\ FinishCall(c)
  /\ UNCHANGED <<use, changes>>

ReadForRevocation(c, d) ==
  /\ decision[d].st = "approved" /\ ~decision[d].revoked
  /\ BeginCall(c, "revoke", d, decision[d].version)

Revoked(c) ==
  LET d == aicall[c].id IN
  /\ aicall[c].op = "revoke" /\ ~decision[d].revoked /\ decision[d].version = aicall[c].version
  /\ decision' = [decision EXCEPT ![d].revoked = TRUE, ![d].version = @ + 1]
  /\ FinishCall(c)
  /\ UNCHANGED <<use, changes, outcomes>>

(* A refusal or an error rolls a call back.                                *)
RollCallBack(c) ==
  /\ aicall[c].op # "none" /\ FinishCall(c)
  /\ UNCHANGED <<use, decision, changes, outcomes>>

-----------------------------------------------------------------------------
(* The use.                                                                *)

(* update_profile: a changed fingerprint stores an event, unless there is  *)
(* one with its dedup key, which names the use and the fingerprint.        *)
UpdateProfile(f) ==
  /\ use.version < MaxVersion
  /\ use' = [fact |-> f, tier |-> use.tier, version |-> use.version + 1, live |-> use.live]
  /\ changes' = IF f = use.fact THEN changes ELSE changes \cup {f}
  /\ UNCHANGED <<decision, aicall, outcomes>>

(* adopt_tier, and with the tier it has, mark_reviewed.                    *)
AdoptTier(t) ==
  /\ use.version < MaxVersion
  /\ use' = [fact |-> use.fact, tier |-> t, version |-> use.version + 1, live |-> use.live]
  /\ UNCHANGED <<decision, aicall, changes, outcomes>>

RetireOrRestore ==
  /\ use' = [use EXCEPT !.live = ~@]
  /\ UNCHANGED <<decision, aicall, changes, outcomes>>

DatePasses(d) ==
  /\ decision[d].st = "approved" /\ ~decision[d].over
  /\ decision' = [decision EXCEPT ![d].over = TRUE]
  /\ UNCHANGED <<use, aicall, changes, outcomes>>

AiNext ==
  \/ \E c \in AiCalls :
       \/ ReadForRequest(c) \/ RequestDecision(c) \/ DecideOrWithdraw(c) \/ Revoked(c) \/ RollCallBack(c)
       \/ \E d \in Decisions :
            \/ ReadForRevocation(c, d)
            \/ \E out \in {"approved", "rejected", "returned", "withdrawn"} : ReadForDecision(c, d, out)
  \/ \E f \in Facts : UpdateProfile(f)
  \/ \E t \in Tiers : AdoptTier(t)
  \/ RetireOrRestore
  \/ \E d \in Decisions : DatePasses(d)

AiSpec == AiInit /\ [][AiNext]_aiVars

-----------------------------------------------------------------------------
(* derive_state, for the latest outcome that stands.                       *)

Standing == {d \in Decisions : /\ decision[d].st \in {"approved", "rejected"}
                               /\ \A b \in Decisions : decision[b].st \in {"approved", "rejected"} => b <= d}

Covers(d) == decision[d].signed.fact = use.fact /\ decision[d].signed.tier = use.tier

(* The approval that is in force, if there is one.                         *)
InForce ==
  {d \in Standing : decision[d].st = "approved" /\ ~decision[d].revoked /\ ~decision[d].over /\ Covers(d)}

-----------------------------------------------------------------------------
(* Properties.                                                             *)

Briefs == [fact : Facts, tier : Tiers, version : 1 .. MaxVersion]

AiTypes ==
  /\ use \in [fact : Facts, tier : Tiers, version : 1 .. MaxVersion, live : BOOLEAN]
  /\ decision \in [Decisions -> [st : {"absent", "proposed", "approved", "rejected", "returned", "withdrawn"},
        ask : Briefs, signed : Briefs, version : 0 .. 3, over : BOOLEAN, revoked : BOOLEAN]]
  /\ aicall \in [AiCalls -> [op : {"none", "ask", "approved", "rejected", "returned", "withdrawn", "revoke"},
        id : Decisions \cup {NoDecision}, version : 0 .. 3, brief : Briefs]]
  /\ changes \subseteq Facts

(* "What was decided on is frozen with the decision, as the decider saw it"*)
(* (decisions.py L5-7): an approval in force was given on exactly what was *)
(* put forward, nobody else has decided or withdrawn that request, and no  *)
(* other outcome came after it, although edits, deciders and requests      *)
(* overlap.                                                                *)
ApprovedAsAsked ==
  \A d \in InForce :
    /\ decision[d].signed = decision[d].ask
    /\ \E n \in 1 .. Len(outcomes) :
         /\ outcomes[n] = [id |-> d, out |-> "approved"]
         /\ \A k \in 1 .. Len(outcomes) : k # n =>
              outcomes[k].id # d /\ (k > n => outcomes[k].out \in {"returned", "withdrawn"})

(* tell_about_re_review: "A fact an approval covered changed: the owner and*)
(* the deciders hear that it needs a new decision", by an event that the   *)
(* change stores.                                                          *)
MaterialChangeIsTold ==
  [][InForce # {} /\ use'.fact # use.fact => changes' # changes]_aiVars
=============================================================================
