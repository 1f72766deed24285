------------------------------- MODULE MCLive -------------------------------
(* What must end: the events of the bus, publication jobs, scans, report     *)
(* runs and the windows of incidents, each on a small instance, side by side *)
(* without interaction: a behaviour picks one of Parts and runs it alone,    *)
(* fairly, and the others stay as they began.  The bus is the one of MCEventBus: the     *)
(* shortest backoff and two attempts, so that a handler can fail, be retried *)
(* and use its attempts up.                                                  *)
EXTENDS EventBus

CONSTANTS
  Parts, Workers,
  Jobs, Prompt, MaxClaims,
  Scans, Requests, SCAN_ATTEMPTS, ReadsInLease,
  Runs, Orgs, Askers, PER_PERSON, PER_ORG, LISTED, MAX_JOBS,
  Commanders, Editors, Undisturbed, MaxTime

MCBackoff  == [n \in 1 .. MAX_ATTEMPTS |-> 1]
Scanners   == Workers
Generators == Workers
Passes     == Workers

(* A call for each person, of two organizations.                             *)
Person == [a \in Askers |-> a]
OrgOf  == [p \in Askers |-> p]
WINDOW == [critical |-> 1, medium |-> 2, low |-> 0]

(* One worker publishes; what several of them do to each other is for        *)
(* MCServices.                                                               *)
Publishers == {CHOOSE w \in Workers : TRUE}

VARIABLES
  part,
  state, attempts, wait, lease, token, copied, retried, st, handled, at, job, mine, tries, found,
  scan, ask, scanner,
  report, asker, gen,
  now, inc, before, listed, told

Publication == INSTANCE PolicyPublication WITH
  Workers <- Publishers, LEASE <- 1, BACKOFF <- MCBackoff, pc <- at, verdict <- found
Scan   == INSTANCE ScanJobs
Report == INSTANCE ReportRuns
Clock  == INSTANCE IncidentClock

publicationVars == <<state, attempts, wait, lease, token, copied, retried, st, handled,
                     at, job, mine, tries, found>>
scanVars   == <<scan, ask, scanner>>
reportVars == <<report, asker, gen>>
clockVars  == <<now, inc, before, listed, told>>
liveVars   == <<part, vars, publicationVars, scanVars, reportVars, clockVars>>

LiveInit ==
  /\ part \in Parts
  /\ Init /\ Publication!Init /\ Scan!ScanInit /\ Report!ReportInit /\ Clock!ClockInit
  /\ part # "clock" => inc.sev = "low" /\ inc.cmd = Clock!NoOne /\ ~inc.ack

OnlyBus    == part = "bus" /\ UNCHANGED <<part, publicationVars, scanVars, reportVars, clockVars>>
OnlyPublication ==
  part = "publication" /\ UNCHANGED <<part, vars, scanVars, reportVars, clockVars>>
OnlyScan   == part = "scan" /\ UNCHANGED <<part, vars, publicationVars, reportVars, clockVars>>
OnlyReport == part = "report" /\ UNCHANGED <<part, vars, publicationVars, scanVars, clockVars>>
OnlyClock  == part = "clock" /\ UNCHANGED <<part, vars, publicationVars, scanVars, reportVars>>

LiveNext ==
  \/ OnlyBus /\ Next
  \/ OnlyPublication /\ Publication!Next
  \/ OnlyScan /\ Scan!ScanNext
  \/ OnlyReport /\ Report!ReportNext
  \/ OnlyClock /\ Clock!ClockNext

(* The fairness of the modules, for the part that runs.                      *)
LiveFairness ==
  /\ \A p \in Procs : WF_liveVars(OnlyBus /\ Step(p))
  /\ \A s \in Sweepers :
       /\ WF_liveVars(OnlyBus /\ Sweep(s))
       /\ \A e \in Events : WF_liveVars(OnlyBus /\ Claim(s, e))
  /\ WF_liveVars(OnlyBus /\ Tick)
  /\ \A w \in Publishers :
       /\ WF_liveVars(OnlyPublication /\ Publication!Claim(w))
       /\ WF_liveVars(OnlyPublication /\ Publication!Step(w))
  /\ WF_liveVars(OnlyPublication /\ Publication!Tick)
  /\ \A s \in Scanners :
       WF_liveVars(OnlyScan /\ Scan!Poll(s)) /\ WF_liveVars(OnlyScan /\ Scan!Work(s))
  /\ \A j \in Scans : WF_liveVars(OnlyScan /\ Scan!LeaseEnds(j))
  /\ \A g \in Generators :
       WF_liveVars(OnlyReport /\ Report!StartPass(g)) /\ WF_liveVars(OnlyReport /\ Report!Visit(g))
  /\ \A r \in Runs : WF_liveVars(OnlyReport /\ Report!GrowOld(r))
  /\ \A p \in Passes :
       WF_liveVars(OnlyClock /\ Clock!Select(p)) /\ WF_liveVars(OnlyClock /\ Clock!Escalate(p))

LiveSpec == LiveInit /\ [][LiveNext]_liveVars /\ LiveFairness

-----------------------------------------------------------------------------
(* The properties of the parts; what each says is written in its module.     *)

(* See PolicyPublication.                                                    *)
EveryJobEnds == Publication!EveryJobEnds

(* See ScanJobs.                                                             *)
EveryScanEnds == Scan!EveryScanEnds

(* See ReportRuns.                                                           *)
EveryRunEnds == Report!EveryRunEnds

(* See IncidentClock.                                                        *)
OverdueIsEscalated == Clock!OverdueIsEscalated
=============================================================================
