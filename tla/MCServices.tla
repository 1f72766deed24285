----------------------------- MODULE MCServices -----------------------------
(* Publication and the services beside the event bus and the outbox, on     *)
(* small instances, laid side by side without interaction: a behaviour picks*)
(* one of Parts and runs it alone, and the others stay as they began.  The  *)
(* states of the parts add up, they do not multiply.  (In the code the rows *)
(* of report_runs serve two of the parts, register runs and saved reports,  *)
(* one after the other; and the publication jobs that PolicyWorkflow inserts*)
(* are those PolicyPublication works on.)                                   *)
EXTENDS PolicyPublication, ScanJobs, ReportRuns, SavedReports, IncidentClock, RiskAcceptance,
        EvidenceFiling, PolicyWorkflow, EvidenceCampaigns, MailBudget, WorkflowEngine,
        AiDecisions, TLC

CONSTANT Parts
VARIABLE part

MCBackoff  == [n \in 1 .. MAX_ATTEMPTS |-> 1]
MCSymmetry == Permutations(Workers) \cup Permutations(Calls)

(* Calls of two colleagues, and one from another organization.              *)
MCPerson == <<1, 2, 3>>
MCOrgOf  == <<1, 1, 2>>
MCWindow == [critical |-> 1, medium |-> 2, low |-> 0]

servicesVars == <<part, vars, scanVars, reportVars, savedVars, clockVars, riskVars, filingVars,
                  policyVars, campaignVars, budgetVars, engineVars, aiVars>>

ServicesInit ==
  /\ part \in Parts
  /\ Init /\ ScanInit /\ ReportInit /\ SavedInit /\ ClockInit /\ RiskInit /\ FilingInit
  /\ PolicyInit /\ CampaignInit /\ BudgetInit /\ EngineInit /\ AiInit
  /\ part # "clock" => inc.sev = "low" /\ inc.cmd = NoOne /\ ~inc.ack
  /\ part # "budget" => \A t \in Tenants : mail[t] = 0
  /\ part # "workflow" => steps = 1
  /\ use.fact = NoBrief.fact /\ use.tier = NoBrief.tier

(* One part moves.                                                          *)
ServicesNext ==
  \/ /\ part = "publication" /\ Next
     /\ UNCHANGED <<part, scanVars, reportVars, savedVars, clockVars, riskVars,
                    filingVars, policyVars, campaignVars, budgetVars, engineVars,
                    aiVars>>
  \/ /\ part = "scan" /\ ScanNext
     /\ UNCHANGED <<part, vars, reportVars, savedVars, clockVars, riskVars,
                    filingVars, policyVars, campaignVars, budgetVars, engineVars,
                    aiVars>>
  \/ /\ part = "report" /\ ReportNext
     /\ UNCHANGED <<part, vars, scanVars, savedVars, clockVars, riskVars, filingVars,
                    policyVars, campaignVars, budgetVars, engineVars, aiVars>>
  \/ /\ part = "saved" /\ SavedNext
     /\ UNCHANGED <<part, vars, scanVars, reportVars, clockVars, riskVars, filingVars,
                    policyVars, campaignVars, budgetVars, engineVars, aiVars>>
  \/ /\ part = "clock" /\ ClockNext
     /\ UNCHANGED <<part, vars, scanVars, reportVars, savedVars, riskVars, filingVars,
                    policyVars, campaignVars, budgetVars, engineVars, aiVars>>
  \/ /\ part = "risk" /\ RiskNext
     /\ UNCHANGED <<part, vars, scanVars, reportVars, savedVars, clockVars,
                    filingVars, policyVars, campaignVars, budgetVars, engineVars,
                    aiVars>>
  \/ /\ part = "filing" /\ FilingNext
     /\ UNCHANGED <<part, vars, scanVars, reportVars, savedVars, clockVars, riskVars,
                    policyVars, campaignVars, budgetVars, engineVars, aiVars>>
  \/ /\ part = "policy" /\ PolicyNext
     /\ UNCHANGED <<part, vars, scanVars, reportVars, savedVars, clockVars, riskVars,
                    filingVars, campaignVars, budgetVars, engineVars, aiVars>>
  \/ /\ part = "campaign" /\ CampaignNext
     /\ UNCHANGED <<part, vars, scanVars, reportVars, savedVars, clockVars, riskVars,
                    filingVars, policyVars, budgetVars, engineVars, aiVars>>
  \/ /\ part = "budget" /\ BudgetNext
     /\ UNCHANGED <<part, vars, scanVars, reportVars, savedVars, clockVars, riskVars,
                    filingVars, policyVars, campaignVars, engineVars, aiVars>>
  \/ /\ part = "workflow" /\ EngineNext
     /\ UNCHANGED <<part, vars, scanVars, reportVars, savedVars, clockVars, riskVars,
                    filingVars, policyVars, campaignVars, budgetVars, aiVars>>
  \/ /\ part = "decision" /\ AiNext
     /\ UNCHANGED <<part, vars, scanVars, reportVars, savedVars, clockVars, riskVars,
                    filingVars, policyVars, campaignVars, budgetVars, engineVars>>

ServicesSpec == ServicesInit /\ [][ServicesNext]_servicesVars

(* Every part keeps the types of its module.                                *)
ServiceTypes ==
  /\ ScanTypes /\ ReportTypes /\ SavedTypes /\ ClockTypes /\ RiskTypes
  /\ FilingTypes /\ PolicyTypes /\ CampaignTypes /\ BudgetTypes /\ EngineTypes /\ AiTypes
=============================================================================
