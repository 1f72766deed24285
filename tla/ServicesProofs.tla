-------------------------- MODULE ServicesProofs --------------------------
(* The services as MCServices lays them side by side: the parts have       *)
(* variables of their own, so a behaviour of ServicesSpec is one of each   *)
(* part.  That says nothing of the tables two parts share in the code,     *)
(* report_runs and the publication jobs; it carries the type theorems over *)
(* to the invariant that the run services checks.                          *)
EXTENDS MCServices, PolicyProofs, SchedulerProofs, ReportProofs, EvidenceProofs, DecisionProofs

LEMMA PartsBegin ==
  ASSUME ServicesInit
  PROVE  /\ Init /\ ScanInit /\ ReportInit /\ SavedInit /\ ClockInit /\ RiskInit /\ FilingInit
         /\ PolicyInit /\ CampaignInit /\ BudgetInit /\ EngineInit /\ AiInit
BY DEF ServicesInit

(* A step of the services is a step of one part, and the others stand.     *)
LEMMA PartsMove ==
  ASSUME [ServicesNext]_servicesVars
  PROVE  /\ [ScanNext]_scanVars /\ [ReportNext]_reportVars /\ [SavedNext]_savedVars
         /\ [ClockNext]_clockVars /\ [RiskNext]_riskVars /\ [FilingNext]_filingVars
         /\ [PolicyNext]_policyVars /\ [CampaignNext]_campaignVars /\ [BudgetNext]_budgetVars
         /\ [EngineNext]_engineVars /\ [AiNext]_aiVars /\ [Next]_vars
BY Zenon DEF ServicesNext, servicesVars

(* A behaviour of the composition is a behaviour of each part: their       *)
(* variables are disjoint.                                                 *)
LEMMA PartsAlone ==
  ServicesSpec => /\ Spec /\ ScanSpec /\ ReportSpec /\ SavedSpec /\ ClockSpec /\ RiskSpec
                  /\ FilingSpec /\ PolicySpec /\ CampaignSpec /\ BudgetSpec /\ EngineSpec /\ AiSpec
<1>1. ServicesSpec => Spec /\ ScanSpec /\ ReportSpec /\ SavedSpec
  BY PartsBegin, PartsMove, PTL DEF ServicesSpec, Spec, ScanSpec, ReportSpec, SavedSpec
<1>2. ServicesSpec => ClockSpec /\ RiskSpec /\ FilingSpec /\ PolicySpec
  BY PartsBegin, PartsMove, PTL DEF ServicesSpec, ClockSpec, RiskSpec, FilingSpec, PolicySpec
<1>3. ServicesSpec => CampaignSpec /\ BudgetSpec /\ EngineSpec /\ AiSpec
  BY PartsBegin, PartsMove, PTL DEF ServicesSpec, CampaignSpec, BudgetSpec, EngineSpec, AiSpec
<1> QED BY <1>1, <1>2, <1>3

(* The types of all services in their composition, from the type theorem   *)
(* of each: what its handlers store is what its rows may hold.             *)
THEOREM ServiceTypesTheorem == ServicesSpec => []ServiceTypes
<1>1. ScanTypes /\ ReportTypes /\ SavedTypes /\ ClockTypes /\ RiskTypes /\ FilingTypes
        /\ PolicyTypes /\ CampaignTypes /\ BudgetTypes /\ EngineTypes /\ AiTypes => ServiceTypes
  BY DEF ServiceTypes
<1> QED
  BY <1>1, PartsAlone, ScanTypesTheorem, ReportTypesTheorem, SavedTypesTheorem, ClockTypesTheorem,
     RiskTypesTheorem, FilingTypesTheorem, PolicyTypesTheorem, CampaignTypesTheorem, BudgetTypesTheorem,
     EngineTypesTheorem, AiTypesTheorem, PTL
=============================================================================
