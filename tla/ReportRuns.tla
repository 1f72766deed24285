----------------------------- MODULE ReportRuns -----------------------------
(***************************************************************************)
(* Register reports: a request queues a run (launcher/routes_reports.py,   *)
(* _queue_register), and the schedulers of several server processes claim, *)
(* generate and save it (launcher/report_job_sweeper.py).  A pass visits   *)
(* the organizations in one order and generates MAX_JOBS runs at most.     *)
(*                                                                         *)
(* Data abstracted: a report is whether its sources could be read within   *)
(* the requester's access; sixty minutes are over or not.                  *)
(***************************************************************************)
EXTENDS Integers, FiniteSets

CONSTANTS
  Runs,        \* ids of report_runs
  Orgs,        \* list_active_tenants, 1 .. n in its order
  Askers,      \* calls of _queue_register at one time
  Person,      \* the person of each call
  OrgOf,       \* a person's organization
  Generators,  \* one scheduler per server process
  PER_PERSON,  \* runs a person may have queued
  PER_ORG,     \* and an organization, of all its people
  LISTED,      \* pending runs a claim lists
  MAX_JOBS     \* runs generated in one pass

People == {Person[a] : a \in Askers}

(* Assumed of the constants. *)
ASSUME ReportAssumption ==
  /\ Person \in [Askers -> People] /\ OrgOf \in [People -> Orgs]
  /\ Runs \subseteq Nat /\ Orgs \subseteq Nat \ {0}
  /\ PER_PERSON \in Nat \ {0} /\ PER_ORG \in Nat \ {0}
  /\ LISTED \in Nat \ {0} /\ MAX_JOBS \in Nat \ {0}

VARIABLES
  report,    \* the rows of report_runs: status, person, and sixty minutes gone
  asker,     \* a call: whether it has counted and goes on to insert
  gen        \* a scheduler's pass: where it is, organization, rows left, its run, runs done

reportVars == <<report, asker, gen>>

NoRun  == -1
NoPerson == -1
Resting == [at |-> "idle", org |-> 0, rows |-> {}, run |-> NoRun, done |-> 0]

ReportInit ==
  /\ report = [r \in Runs |-> [st |-> "absent", by |-> NoPerson, old |-> FALSE]]
  /\ asker  = [a \in Askers |-> FALSE]
  /\ gen    = [g \in Generators |-> Resting]

-----------------------------------------------------------------------------
(* _queue_register counts what the person and the organization have queued,*)
(* then inserts.                                                           *)

Queued(p) == {r \in Runs : report[r].by = p /\ report[r].st \in {"pending", "running"}}
Of(r, o) == report[r].by # NoPerson /\ OrgOf[report[r].by] = o
QueuedIn(o) == {r \in Runs : Of(r, o) /\ report[r].st \in {"pending", "running"}}

HasRoom(p) ==
  /\ Cardinality(Queued(p)) < PER_PERSON
  /\ Cardinality(QueuedIn(OrgOf[p])) < PER_ORG

CountQueued(a) ==
  /\ ~asker[a] /\ HasRoom(Person[a])
  /\ asker' = [asker EXCEPT ![a] = TRUE]
  /\ UNCHANGED <<report, gen>>

InsertRun(a) ==
  /\ asker[a]
  /\ \E r \in Runs :
       /\ report[r].st = "absent" /\ \A q \in Runs : report[q].st = "absent" => r <= q
       /\ report' = [report EXCEPT ![r] = [st |-> "pending", by |-> Person[a], old |-> FALSE]]
  /\ asker' = [asker EXCEPT ![a] = FALSE]
  /\ UNCHANGED gen

-----------------------------------------------------------------------------
(* run_once.                                                               *)

StartPass(g) ==
  /\ gen[g].at = "idle"
  /\ gen' = [gen EXCEPT ![g] = [Resting EXCEPT !.at = "visit", !.org = 1]]
  /\ UNCHANGED <<report, asker>>

EndedRun == {"completed", "failed"}

(* Slip: runs of a dead scheduler are left alone.                          *)
Slip_TimedOut(r, o) == FALSE
TimedOut(r, o) == report[r].st = "running" /\ report[r].old /\ Of(r, o)

(* The first LISTED of the organization's pending runs.                    *)
PendingIn(o) == {r \in Runs : report[r].st = "pending" /\ Of(r, o)}
FirstPending(o) == {r \in PendingIn(o) : Cardinality({q \in PendingIn(o) : q < r}) < LISTED}

(* _claim: what ran for an hour is failed, and pending runs are listed.    *)
(* (The timeouts commit with the claim; the locks they hold until then are *)
(* as good as a commit.)                                                   *)
List(g) ==
  /\ gen[g].at = "visit" /\ gen[g].org \in Orgs /\ gen[g].done < MAX_JOBS
  /\ LET o == gen[g].org IN
     /\ report' = [r \in Runs |-> IF TimedOut(r, o) THEN [report[r] EXCEPT !.st = "failed"]
                                  ELSE report[r]]
     /\ gen' = [gen EXCEPT ![g].at = "claim",
                           ![g].rows = FirstPending(o)]
  /\ UNCHANGED asker

(* Each listed run is taken only if it is pending still.  (Slip: not asked)*)
Slip_MayTake(r) == TRUE
MayTake(r) == report[r].st = "pending"

TakeRun(g) ==
  /\ gen[g].at = "claim"
  /\ \E r \in gen[g].rows :
       /\ \A q \in gen[g].rows : r <= q
       /\ IF MayTake(r)
          THEN /\ report' = [report EXCEPT ![r].st = "running", ![r].old = FALSE]
               /\ gen' = [gen EXCEPT ![g].at = "generate", ![g].rows = {}, ![g].run = r]
          ELSE /\ gen' = [gen EXCEPT ![g].rows = @ \ {r}]
               /\ UNCHANGED report
  /\ UNCHANGED asker

NextOrg(g) ==
  /\ gen[g].at = "claim" /\ gen[g].rows = {}
  /\ gen' = [gen EXCEPT ![g].at = "visit", ![g].org = @ + 1]
  /\ UNCHANGED <<report, asker>>

EndPass(g) ==
  /\ gen[g].at = "visit" /\ (gen[g].org \notin Orgs \/ gen[g].done >= MAX_JOBS)
  /\ gen' = [gen EXCEPT ![g] = Resting]
  /\ UNCHANGED <<report, asker>>

(* A result and a failure are written only to a running run.  (Slip: any.) *)
Slip_StillRunning(r) == TRUE
StillRunning(r) == report[r].st = "running"

Finish(g, st) ==
  /\ report' = IF StillRunning(gen[g].run) THEN [report EXCEPT ![gen[g].run].st = st]
               ELSE report
  /\ gen' = [gen EXCEPT ![g] = [Resting EXCEPT !.at = "visit", !.org = gen[g].org + 1,
                                            !.done = gen[g].done + 1]]
  /\ UNCHANGED asker

(* _generate: the sources are read within the person's access and saved,   *)
(* or access changed, a source is gone, an error came up.                  *)
SaveRun(g) == gen[g].at = "generate" /\ Finish(g, "completed")
FailRun(g) == gen[g].at = "generate" /\ Finish(g, "failed")

GeneratorDies(g) ==
  /\ gen[g].at # "idle"
  /\ gen' = [gen EXCEPT ![g] = Resting]
  /\ UNCHANGED <<report, asker>>

GrowOld(r) ==
  /\ report[r].st = "running" /\ ~report[r].old
  /\ report' = [report EXCEPT ![r].old = TRUE]
  /\ UNCHANGED <<asker, gen>>

Visit(g) == List(g) \/ TakeRun(g) \/ NextOrg(g) \/ EndPass(g) \/ FailRun(g) \/ SaveRun(g)

ReportNext ==
  \/ \E a \in Askers : CountQueued(a) \/ InsertRun(a)
  \/ \E g \in Generators : StartPass(g) \/ Visit(g) \/ GeneratorDies(g)
  \/ \E r \in Runs : GrowOld(r)

ReportSpec == ReportInit /\ [][ReportNext]_reportVars

(* Passes start and go on, and time passes.                                *)
ReportFairness ==
  /\ \A g \in Generators : WF_reportVars(StartPass(g)) /\ WF_reportVars(Visit(g))
  /\ \A r \in Runs : WF_reportVars(GrowOld(r))
ReportFairSpec == ReportSpec /\ ReportFairness

-----------------------------------------------------------------------------
(* Properties.                                                             *)

ReportTypes ==
  /\ report \in [Runs -> [st : {"absent", "pending", "running"} \cup EndedRun,
                          by : People \cup {NoPerson}, old : BOOLEAN]]
  /\ asker \in [Askers -> BOOLEAN]
  /\ gen \in [Generators -> [at : {"idle", "visit", "claim", "generate"}, org : Nat,
                             rows : SUBSET Runs, run : Runs \cup {NoRun}, done : 0 .. MAX_JOBS]]

(* _claim L39-45: schedulers that listed the same runs never generate one  *)
(* twice.                                                                  *)
EachRunGeneratedOnce ==
  \A g, h \in Generators : gen[g].run # NoRun /\ gen[g].run = gen[h].run => g = h

(* A run declared failed after an hour is not completed by its late        *)
(* scheduler, and nothing else reopens it.                                 *)
EndedRunStays == [][\A r \in Runs : report[r].st \in EndedRun => report'[r] = report[r]]_reportVars

(* Every queued run ends, whichever schedulers died, once they stop dying. *)
(* (The end of a pass looks like a crash, and is none.)                    *)
GeneratorsLive == <>[][~ \E g \in Generators : GeneratorDies(g) /\ ~EndPass(g)]_reportVars
EveryRunEnds ==
  GeneratorsLive => \A r \in Runs : report[r].st = "pending" ~> report[r].st \in EndedRun
=============================================================================
