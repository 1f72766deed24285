------------------------------ MODULE ScanJobs ------------------------------
(***************************************************************************)
(* Emerging-risk scans of one organization (erm/scan_jobs.py): requests    *)
(* store a job, unless one is active, and schedulers of several server     *)
(* processes claim and run it under a lease and a token.                   *)
(*                                                                         *)
(* Data abstracted: the token of a claim is the number of the claim, as a  *)
(* fresh uuid never occurs again; a scan is its outcome; what it found and *)
(* the code of its error are left out.  A lease is held or over.           *)
(***************************************************************************)
EXTENDS Integers, FiniteSets

CONSTANTS
  Scans,           \* ids of job rows
  Requests,        \* calls of enqueue_scan
  Scanners,        \* one scheduler per server process
  SCAN_ATTEMPTS,   \* MAX_ATTEMPTS
  ReadsInLease     \* TRUE: a scheduler reads the job it claimed back within the lease

(* Assumed of the constants. *)
ASSUME ScanAssumption ==
  /\ Scans \subseteq Nat /\ SCAN_ATTEMPTS \in Nat \ {0} /\ ReadsInLease \in BOOLEAN

VARIABLES
  scan,      \* the rows of erm_emerging_scan_jobs
  ask,       \* a request: where it is, and what it answers
  scanner    \* a scheduler: where it is, the job and the token it read

scanVars == <<scan, ask, scanner>>

NoScan  == -1
Unclaimed == 0
Row(st, slot, token, lease, tries) ==
  [st |-> st, slot |-> slot, token |-> token, lease |-> lease, tries |-> tries]
Idle == [at |-> "idle", job |-> NoScan, token |-> Unclaimed]

ScanInit ==
  /\ scan    = [j \in Scans |-> Row("absent", FALSE, Unclaimed, FALSE, 0)]
  /\ ask     = [r \in Requests |-> "new"]
  /\ scanner = [s \in Scanners |-> Idle]

Absent == {j \in Scans : scan[j].st = "absent"}
Active == {j \in Scans : scan[j].slot}

-----------------------------------------------------------------------------
(* enqueue_scan: look for an active job, then insert one.                  *)

Look(r) ==
  /\ ask[r] = "new"
  /\ ask' = [ask EXCEPT ![r] = IF Active = {} THEN "insert" ELSE "answered"]
  /\ UNCHANGED <<scan, scanner>>

(* The unique index on (org_id, active_slot).  (Slip: only the look counts)*)
Slip_SlotFree == TRUE
SlotFree == Active = {}

InsertScan(r) ==
  /\ ask[r] = "insert" /\ SlotFree
  /\ \E j \in Absent :
       /\ \A k \in Absent : j <= k
       /\ scan' = [scan EXCEPT ![j] = Row("pending", TRUE, Unclaimed, FALSE, 0)]
  /\ ask' = [ask EXCEPT ![r] = "answered"]
  /\ UNCHANGED scanner

(* The index refuses: the row that won is looked for once more.            *)
IndexRefuses(r) ==
  /\ ask[r] = "insert" /\ ~SlotFree
  /\ ask' = [ask EXCEPT ![r] = "refused"]
  /\ UNCHANGED <<scan, scanner>>

LookAgain(r) ==
  /\ ask[r] = "refused"
  /\ ask' = [ask EXCEPT ![r] = IF Active = {} THEN "error" ELSE "answered"]
  /\ UNCHANGED <<scan, scanner>>

-----------------------------------------------------------------------------
(* claim_next_job and process_next_job.                                    *)

(* A running job whose lease is over ...                                   *)
Abandoned(j) == scan[j].slot /\ scan[j].st = "running" /\ ~scan[j].lease

(* ... ends when its attempts are used up.  (Slip: it never does.)         *)
Slip_ScanUsedUp(j) == FALSE
ScanUsedUp(j) == Abandoned(j) /\ scan[j].tries >= SCAN_ATTEMPTS

(* ... and is claimed again otherwise.                                     *)
MayClaimScan(j) ==
  /\ scan[j].slot /\ scan[j].tries < SCAN_ATTEMPTS
  /\ scan[j].st = "pending" \/ Abandoned(j)

EndedRow(j, st) == Row(st, FALSE, Unclaimed, FALSE, scan[j].tries)
Swept == [j \in Scans |-> IF ScanUsedUp(j) THEN EndedRow(j, "failed") ELSE scan[j]]

(* One transaction: used-up jobs are failed, the first claimable is leased.*)
ClaimScan(s) ==
  /\ scanner[s].at = "idle"
  /\ \E j \in Scans :
       /\ MayClaimScan(j) /\ \A k \in Scans : MayClaimScan(k) => j <= k
       /\ scan' = [Swept EXCEPT ![j] =
                     Row("running", TRUE, scan[j].tries + 1, TRUE, scan[j].tries + 1)]
       /\ scanner' = [scanner EXCEPT ![s] = [at |-> "claimed", job |-> j, token |-> Unclaimed]]
  /\ UNCHANGED ask

ClaimNothing(s) ==
  /\ scanner[s].at = "idle" /\ ~ \E j \in Scans : MayClaimScan(j)
  /\ scan' = Swept
  /\ UNCHANGED <<ask, scanner>>

(* A second read, by id, once the claim is committed.                      *)
ReadScan(s) ==
  /\ scanner[s].at = "claimed"
  /\ scanner' = [scanner EXCEPT ![s].at = "scanning", ![s].token = scan[scanner[s].job].token]
  /\ UNCHANGED <<scan, ask>>

(* A result or a failure is written by the token.  (Slip: by the id.)      *)
Slip_HoldsScan(s) == TRUE
HoldsScan(s) ==
  LET j == scanner[s].job IN
  scan[j].st = "running" /\ scanner[s].token # Unclaimed /\ scan[j].token = scanner[s].token

EndScan(s, st) ==
  /\ scanner[s].at = "scanning"
  /\ scan' = IF HoldsScan(s) THEN [scan EXCEPT ![scanner[s].job] = EndedRow(scanner[s].job, st)]
             ELSE scan
  /\ scanner' = [scanner EXCEPT ![s] = Idle]
  /\ UNCHANGED ask
CompleteScan(s) == EndScan(s, "completed")
FailScan(s)     == EndScan(s, "failed")

ScannerDies(s) ==
  /\ scanner[s].at # "idle"
  /\ scanner' = [scanner EXCEPT ![s] = Idle]
  /\ UNCHANGED <<scan, ask>>

LeaseEnds(j) ==
  /\ scan[j].lease
  /\ ReadsInLease => \A s \in Scanners : scanner[s].at = "claimed" => scanner[s].job # j
  /\ scan' = [scan EXCEPT ![j].lease = FALSE]
  /\ UNCHANGED <<ask, scanner>>

Poll(s) == ClaimScan(s) \/ ClaimNothing(s)
Work(s) == ReadScan(s) \/ CompleteScan(s) \/ FailScan(s)

ScanNext ==
  \/ \E r \in Requests : Look(r) \/ InsertScan(r) \/ IndexRefuses(r) \/ LookAgain(r)
  \/ \E s \in Scanners : Poll(s) \/ Work(s) \/ ScannerDies(s)
  \/ \E j \in Scans : LeaseEnds(j)

ScanSpec == ScanInit /\ [][ScanNext]_scanVars

(* The scheduler polls every two seconds and goes on with a scan it has,   *)
(* and time passes.  This is for one organization: a poll visits them in   *)
(* their order and ends after the first that had a scan, so that one that  *)
(* always has a scan would keep the later ones waiting.                    *)
ScanFairness ==
  /\ \A s \in Scanners : WF_scanVars(Poll(s)) /\ WF_scanVars(Work(s))
  /\ \A j \in Scans : WF_scanVars(LeaseEnds(j))
ScanFairSpec == ScanSpec /\ ScanFairness

-----------------------------------------------------------------------------
(* Properties.                                                             *)

ScanTypes ==
  /\ scan \in [Scans -> [st : {"absent", "pending", "running", "completed", "failed"},
                         slot : BOOLEAN, token : Nat, lease : BOOLEAN, tries : Nat]]
  /\ ask \in [Requests -> {"new", "insert", "refused", "answered", "error"}]
  /\ scanner \in [Scanners -> [at : {"idle", "claimed", "scanning"},
                               job : Scans \cup {NoScan}, token : Nat]]
  /\ \A s \in Scanners : scanner[s].at # "idle" => scanner[s].job \in Scans

(* enqueue_scan: an organization has one active scan at a time, whoever    *)
(* asks at once; only a scan that has not ended keeps others out; and one  *)
(* scheduler at a time can write its result, whoever lost a lease.         *)
Owns(s) == scanner[s].at = "scanning" /\ HoldsScan(s)
OneActiveScan ==
  /\ \A j, k \in Active : j = k
  /\ \A j \in Scans : scan[j].slot <=> scan[j].st \in {"pending", "running"}
  /\ \A s, t \in Scanners : Owns(s) /\ Owns(t) => s = t

(* process_next_job: a result that comes after the scan was given up, or   *)
(* given to another scheduler that ended it, changes nothing.              *)
EndedScanStays ==
  [][\A j \in Scans : scan[j].st \in {"completed", "failed"} => scan'[j] = scan[j]]_scanVars

(* claim_next_job L153: a scan does not keep the slot forever, whatever    *)
(* schedulers die.                                                         *)
EveryScanEnds ==
  \A j \in Scans : scan[j].st = "pending" ~> scan[j].st \in {"completed", "failed"}
=============================================================================
