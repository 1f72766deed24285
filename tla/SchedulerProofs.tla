-------------------------- MODULE SchedulerProofs ---------------------------
(* Invariance proofs for what the scheduled passes do: the scan jobs of an *)
(* organization, the clock of an incident, and how the mail of a minute is *)
(* shared, for any number of jobs, processes and organizations.            *)
EXTENDS ScanJobs, IncidentClock, MailBudget, TLAPS

(***************************************************************************)
(* Scan jobs.                                                              *)
(***************************************************************************)

ScanRow == [st : {"absent", "pending", "running", "completed", "failed"},
            slot : BOOLEAN, token : Nat, lease : BOOLEAN, tries : Nat]
Scanner == [at : {"idle", "claimed", "scanning"}, job : Scans \cup {NoScan}, token : Nat]

RowsOK == scan \in [Scans -> ScanRow]
AskOK  == ask \in [Requests -> {"new", "insert", "refused", "answered", "error"}]
ScannersOK ==
  /\ scanner \in [Scanners -> Scanner]
  /\ \A s \in Scanners : scanner[s].at # "idle" => scanner[s].job \in Scans

(* A token is the number of the claim; only what runs has a token or lease.*)
RowBooks(j) ==
  /\ scan[j].slot <=> scan[j].st \in {"pending", "running"}
  /\ IF scan[j].st = "running" THEN scan[j].token = scan[j].tries /\ scan[j].tries > 0
     ELSE scan[j].token = Unclaimed /\ ~scan[j].lease
  /\ scan[j].st = "absent" => scan[j].tries = 0
BooksAgree == \A j \in Scans : RowBooks(j)

OneActive == \A j, k \in Scans : scan[j].slot /\ scan[k].slot => j = k

(* What a scheduler has read is of a claim that was made.                  *)
Dated == \A s \in Scanners : scanner[s].at = "scanning" => scanner[s].token <= scan[scanner[s].job].tries

(* Until a scheduler reads its job back, the job is its own ...            *)
FreshScans(s) == scanner[s].at = "claimed" => /\ scan[scanner[s].job].st = "running"
                                         /\ scan[scanner[s].job].lease
(* ... and of two that work at one job, one read an older token.           *)
ScansApart(s, t) ==
  scanner[s].job = scanner[t].job =>
    /\ ~(scanner[s].at = "claimed" /\ scanner[t].at = "claimed")
    /\ scanner[s].at = "claimed" /\ scanner[t].at = "scanning" =>
         scanner[t].token # scan[scanner[s].job].token
    /\ scanner[s].at = "scanning" /\ scanner[t].at = "scanning" =>
         scanner[s].token # scanner[t].token
Owners == /\ \A s \in Scanners : FreshScans(s)
          /\ \A s, t \in Scanners : s # t => ScansApart(s, t)

ScanTyped == RowsOK /\ AskOK /\ ScannersOK

LEMMA RowTypes ==
  ASSUME NEW st \in {"absent", "pending", "running", "completed", "failed"}, NEW slot \in BOOLEAN,
         NEW token \in Nat, NEW lease \in BOOLEAN, NEW tries \in Nat
  PROVE  /\ Row(st, slot, token, lease, tries) \in ScanRow
         /\ Row(st, slot, token, lease, tries).st = st /\ Row(st, slot, token, lease, tries).slot = slot
         /\ Row(st, slot, token, lease, tries).token = token /\ Row(st, slot, token, lease, tries).lease = lease
         /\ Row(st, slot, token, lease, tries).tries = tries
BY DEF Row, ScanRow

LEMMA EndedRowIs ==
  ASSUME RowsOK, NEW j \in Scans, NEW st \in {"completed", "failed"}
  PROVE  /\ EndedRow(j, st) \in ScanRow /\ EndedRow(j, st).st = st /\ ~EndedRow(j, st).slot
         /\ EndedRow(j, st).token = Unclaimed /\ ~EndedRow(j, st).lease
         /\ EndedRow(j, st).tries = scan[j].tries
BY DEF Row, EndedRow, RowsOK, ScanRow, Unclaimed

(* A sweep ends some jobs whose lease is over and leaves the others.       *)
LEMMA SweptIs ==
  ASSUME RowsOK
  PROVE  /\ Swept \in [Scans -> ScanRow]
         /\ \A j \in Scans : \/ Swept[j] = scan[j]
                             \/ Abandoned(j) /\ Swept[j] = EndedRow(j, "failed")
BY EndedRowIs DEF Swept, ScanUsedUp, RowsOK

(* What a claim does.                                                      *)
LEMMA ClaimIs ==
  ASSUME ScanTyped, NEW s \in Scanners, ClaimScan(s)
  PROVE  \E j \in Scans :
           /\ MayClaimScan(j) /\ scan' \in [Scans -> ScanRow]
           /\ scan'[j].st = "running" /\ scan'[j].slot /\ scan'[j].lease
           /\ scan'[j].token = scan[j].tries + 1 /\ scan'[j].tries = scan[j].tries + 1
           /\ \A k \in Scans \ {j} : \/ scan'[k] = scan[k]
                                     \/ Abandoned(k) /\ scan'[k] = EndedRow(k, "failed")
           /\ scanner'[s].at = "claimed" /\ scanner'[s].job = j /\ scanner'[s] \in Scanner
           /\ scanner' = [scanner EXCEPT ![s] = scanner'[s]]
<1>1. PICK j \in Scans :
        /\ MayClaimScan(j)
        /\ scan' = [Swept EXCEPT ![j] = Row("running", TRUE, scan[j].tries + 1, TRUE, scan[j].tries + 1)]
        /\ scanner' = [scanner EXCEPT ![s] = [at |-> "claimed", job |-> j, token |-> Unclaimed]]
  BY DEF ClaimScan
<1>2. scan[j].tries + 1 \in Nat
  BY DEF ScanTyped, RowsOK, ScanRow
<1>3. /\ scan'[j].st = "running" /\ scan'[j].slot /\ scan'[j].lease /\ scan' \in [Scans -> ScanRow]
      /\ scan'[j].token = scan[j].tries + 1 /\ scan'[j].tries = scan[j].tries + 1
      /\ \A k \in Scans \ {j} : scan'[k] = Swept[k]
  BY <1>1, <1>2, SweptIs DEF ScanTyped, Row, ScanRow
<1>4. scanner'[s] = [at |-> "claimed", job |-> j, token |-> Unclaimed]
  BY <1>1 DEF ScanTyped, ScannersOK
<1>5. scanner'[s].at = "claimed" /\ scanner'[s].job = j /\ scanner'[s] \in Scanner
  BY <1>4 DEF Scanner, Unclaimed
<1> QED BY <1>1, <1>3, <1>4, <1>5, SweptIs DEF ScanTyped

(* What the end of a scan does.                                            *)
LEMMA EndIs ==
  ASSUME ScanTyped, NEW s \in Scanners, CompleteScan(s) \/ FailScan(s)
  PROVE  /\ scanner[s].at = "scanning" /\ scanner[s].job \in Scans
         /\ scanner' = [scanner EXCEPT ![s] = Idle] /\ ask' = ask
         /\ \/ scan' = scan
            \/ /\ HoldsScan(s)
               /\ \E st \in {"completed", "failed"} :
                    scan' = [scan EXCEPT ![scanner[s].job] = EndedRow(scanner[s].job, st)]
<1>1. PICK st \in {"completed", "failed"} : EndScan(s, st)
  BY DEF CompleteScan, FailScan
<1> QED BY <1>1 DEF EndScan, ScanTyped, ScannersOK

LEMMA ScanTypedStep ==
  ASSUME ScanTyped, [ScanNext]_scanVars
  PROVE  ScanTyped'
<1> USE DEF ScanTyped
<1>1. CASE UNCHANGED scanVars
  BY <1>1 DEF scanVars, RowsOK, AskOK, ScannersOK
<1>2. ASSUME NEW r \in Requests, Look(r) \/ IndexRefuses(r) \/ LookAgain(r) PROVE ScanTyped'
  BY <1>2 DEF Look, IndexRefuses, LookAgain, RowsOK, AskOK, ScannersOK
<1>3. ASSUME NEW r \in Requests, InsertScan(r) PROVE ScanTyped'
  <2>1. Row("pending", TRUE, Unclaimed, FALSE, 0) \in ScanRow
    BY RowTypes DEF Unclaimed
  <2> QED BY <1>3, <2>1 DEF InsertScan, Absent, RowsOK, AskOK, ScannersOK
<1>4. ASSUME NEW s \in Scanners, ClaimScan(s) PROVE ScanTyped'
  <2>1. RowsOK' /\ AskOK'
    BY <1>4, ClaimIs DEF RowsOK, AskOK, ClaimScan
  <2>2. ScannersOK'
    BY <1>4, ClaimIs DEF ScannersOK
  <2> QED BY <2>1, <2>2
<1>5. ASSUME NEW s \in Scanners, ClaimNothing(s) PROVE ScanTyped'
  BY <1>5, SweptIs DEF ClaimNothing, RowsOK, AskOK, ScannersOK
<1>6. ASSUME NEW s \in Scanners, ReadScan(s) PROVE ScanTyped'
  <2>1. scanner[s].job \in Scans /\ scan[scanner[s].job].token \in Nat
    BY <1>6 DEF ReadScan, ScannersOK, RowsOK, ScanRow
  <2> QED BY <1>6, <2>1 DEF ReadScan, RowsOK, AskOK, ScannersOK, Scanner
<1>7. ASSUME NEW s \in Scanners, CompleteScan(s) \/ FailScan(s) \/ ScannerDies(s) PROVE ScanTyped'
  <2>1. Idle \in Scanner /\ Idle.at = "idle"
    BY DEF Idle, Scanner, Unclaimed
  <2>2. CASE ScannerDies(s)
    BY <2>1, <2>2 DEF ScannerDies, RowsOK, AskOK, ScannersOK
  <2>3. CASE CompleteScan(s) \/ FailScan(s)
    <3>1. RowsOK'
      BY <2>3, EndIs, EndedRowIs DEF RowsOK
    <3> QED BY <2>1, <2>3, <3>1, EndIs DEF AskOK, ScannersOK
  <2> QED BY <1>7, <2>2, <2>3
<1>8. ASSUME NEW j \in Scans, LeaseEnds(j) PROVE ScanTyped'
  BY <1>8 DEF LeaseEnds, RowsOK, AskOK, ScannersOK, ScanRow
<1> QED BY <1>1, <1>2, <1>3, <1>4, <1>5, <1>6, <1>7, <1>8 DEF ScanNext, Poll, Work

(* The rows.                                                               *)
LEMMA RowsStep ==
  ASSUME ScanTyped, BooksAgree, OneActive, [ScanNext]_scanVars
  PROVE  BooksAgree' /\ OneActive'
<1> USE DEF ScanTyped
<1>1. ASSUME scan' = scan PROVE BooksAgree' /\ OneActive'
  BY <1>1 DEF BooksAgree, RowBooks, OneActive
<1>2. ASSUME NEW r \in Requests, InsertScan(r) PROVE BooksAgree' /\ OneActive'
  <2>1. PICK j \in Scans : scan' = [scan EXCEPT ![j] = Row("pending", TRUE, Unclaimed, FALSE, 0)]
    BY <1>2 DEF InsertScan, Absent
  <2>2. /\ scan'[j].st = "pending" /\ scan'[j].slot /\ scan'[j].token = Unclaimed /\ ~scan'[j].lease
        /\ \A k \in Scans \ {j} : scan'[k] = scan[k]
    BY <2>1 DEF Row, RowsOK, Unclaimed
  <2>3. \A k \in Scans : ~scan[k].slot
    BY <1>2 DEF InsertScan, SlotFree, Active
  <2> QED BY <2>2, <2>3 DEF BooksAgree, RowBooks, OneActive
<1>3. ASSUME NEW s \in Scanners, ClaimScan(s) PROVE BooksAgree' /\ OneActive'
  <2>1. PICK j \in Scans :
           /\ MayClaimScan(j)
           /\ scan'[j].st = "running" /\ scan'[j].slot /\ scan'[j].lease
           /\ scan'[j].token = scan[j].tries + 1 /\ scan'[j].tries = scan[j].tries + 1
           /\ \A k \in Scans \ {j} : scan'[k] = scan[k] \/ scan'[k] = EndedRow(k, "failed")
    BY <1>3, ClaimIs
  <2>2. scan[j].slot /\ scan[j].tries + 1 > 0
    BY <2>1 DEF MayClaimScan, RowsOK, ScanRow
  <2>3. \A k \in Scans \ {j} : RowBooks(k)' /\ ~scan'[k].slot
    BY <2>1, <2>2, EndedRowIs DEF BooksAgree, RowBooks, OneActive
  <2>4. RowBooks(j)'
    BY <2>1, <2>2 DEF RowBooks
  <2> QED BY <2>3, <2>4 DEF BooksAgree, OneActive
<1>4. ASSUME \A k \in Scans : \/ scan'[k] = scan[k]
                              \/ \E st \in {"completed", "failed"} : scan'[k] = EndedRow(k, st)
      PROVE  BooksAgree' /\ OneActive'
  <2>1. \A k \in Scans : RowBooks(k)' /\ (scan'[k].slot => scan[k].slot)
    BY <1>4, EndedRowIs DEF BooksAgree, RowBooks
  <2> QED BY <2>1 DEF BooksAgree, OneActive
<1>5. ASSUME NEW s \in Scanners, ClaimNothing(s) PROVE BooksAgree' /\ OneActive'
  BY <1>4, <1>5, SweptIs DEF ClaimNothing
<1>6. ASSUME NEW s \in Scanners, CompleteScan(s) \/ FailScan(s) PROVE BooksAgree' /\ OneActive'
  <2>1. CASE scan' = scan
    BY <1>1, <2>1
  <2>2. CASE \E st \in {"completed", "failed"} :
               scan' = [scan EXCEPT ![scanner[s].job] = EndedRow(scanner[s].job, st)]
    BY <1>4, <2>2 DEF RowsOK
  <2> QED BY <1>6, <2>1, <2>2, EndIs
<1>7. ASSUME NEW j \in Scans, LeaseEnds(j) PROVE BooksAgree' /\ OneActive'
  <2>1. \A k \in Scans : /\ scan'[k].st = scan[k].st /\ scan'[k].slot = scan[k].slot
                         /\ scan'[k].token = scan[k].token /\ scan'[k].tries = scan[k].tries
                         /\ scan'[k].lease => scan[k].lease
    BY <1>7 DEF LeaseEnds, RowsOK, ScanRow
  <2> QED BY <2>1 DEF BooksAgree, RowBooks, OneActive
<1> QED
  BY <1>1, <1>2, <1>3, <1>5, <1>6, <1>7
  DEF ScanNext, Poll, Work, Look, IndexRefuses, LookAgain, ReadScan, ScannerDies, scanVars

-----------------------------------------------------------------------------
(* The owners.                                                             *)

(* A step of nobody: attempts stay, and a row keeps its status and token   *)
(* as long as it runs and somebody has not read it back.                   *)
LEMMA OwnersKept ==
  ASSUME ScanTyped, Owners, Dated, scanner' = scanner,
         \A j \in Scans : scan'[j].tries = scan[j].tries,
         \A s \in Scanners : scanner[s].at = "claimed" => scan'[scanner[s].job] = scan[scanner[s].job]
  PROVE  Owners' /\ Dated'
BY DEF ScanTyped, ScannersOK, Owners, FreshScans, ScansApart, Dated

(* A scheduler that stops frees nothing and holds nothing.                 *)
LEMMA OwnersLeft ==
  ASSUME ScanTyped, Owners, Dated, NEW s \in Scanners, scanner' = [scanner EXCEPT ![s] = Idle],
         \A j \in Scans : scan'[j].tries = scan[j].tries,
         \A t \in Scanners \ {s} : scanner[t].at = "claimed" => scan'[scanner[t].job] = scan[scanner[t].job]
  PROVE  Owners' /\ Dated'
<1>1. scanner'[s].at = "idle" /\ \A t \in Scanners \ {s} : scanner'[t] = scanner[t]
  BY DEF ScanTyped, ScannersOK, Idle
<1>2. \A t \in Scanners : FreshScans(t)'
  BY <1>1 DEF Owners, FreshScans
<1>3. \A t, u \in Scanners : t # u => ScansApart(t, u)'
  BY <1>1 DEF Owners, ScansApart
<1>4. Dated'
  BY <1>1 DEF ScanTyped, ScannersOK, Dated
<1> QED BY <1>2, <1>3, <1>4 DEF Owners

LEMMA OwnersStep ==
  ASSUME ScanTyped, BooksAgree, OneActive, Owners, Dated, ReadsInLease, [ScanNext]_scanVars
  PROVE  Owners' /\ Dated'
<1> USE DEF ScanTyped
<1>1. CASE UNCHANGED <<scan, scanner>>
  BY <1>1, OwnersKept
<1>2. ASSUME NEW r \in Requests, InsertScan(r) PROVE Owners' /\ Dated'
  <2>1. PICK j \in Scans : /\ scan[j].st = "absent"
                           /\ scan' = [scan EXCEPT ![j] = Row("pending", TRUE, Unclaimed, FALSE, 0)]
    BY <1>2 DEF InsertScan, Absent
  <2>2. \A k \in Scans \ {j} : scan'[k] = scan[k]
    BY <2>1 DEF RowsOK
  <2>3. scan'[j].tries = scan[j].tries
    BY <2>1 DEF RowsOK, Row, BooksAgree, RowBooks
  <2>4. \A s \in Scanners : scanner[s].at = "claimed" => scanner[s].job \in Scans \ {j}
    BY <2>1 DEF ScannersOK, Owners, FreshScans
  <2> QED BY <1>2, <2>2, <2>3, <2>4, OwnersKept DEF InsertScan
<1>3. ASSUME NEW s \in Scanners, ClaimScan(s) PROVE Owners' /\ Dated'
  <2>1. PICK j \in Scans :
           /\ MayClaimScan(j) /\ scan'[j].st = "running" /\ scan'[j].lease
           /\ scan'[j].token = scan[j].tries + 1 /\ scan'[j].tries = scan[j].tries + 1
           /\ \A k \in Scans \ {j} : \/ scan'[k] = scan[k]
                                     \/ Abandoned(k) /\ scan'[k] = EndedRow(k, "failed")
           /\ scanner'[s].at = "claimed" /\ scanner'[s].job = j
           /\ scanner' = [scanner EXCEPT ![s] = scanner'[s]]
    BY <1>3, ClaimIs
  <2>2. \A t \in Scanners \ {s} : scanner'[t] = scanner[t]
    BY <2>1 DEF ScannersOK
  <2>3. \A t \in Scanners : scanner[t].at = "claimed" =>
          /\ scanner[t].job \in Scans \ {j} /\ scan'[scanner[t].job] = scan[scanner[t].job]
    <3> TAKE t \in Scanners
    <3> HAVE scanner[t].at = "claimed"
    <3>1. scan[scanner[t].job].st = "running" /\ scan[scanner[t].job].lease /\ scanner[t].job \in Scans
      BY DEF Owners, FreshScans, ScannersOK
    <3> QED BY <2>1, <3>1 DEF MayClaimScan, Abandoned
  <2>4. \A k \in Scans : scan[k].tries \in Nat /\ scan'[k].tries \in Nat /\ scan[k].tries <= scan'[k].tries
    <3>1. \A k \in Scans : scan[k].tries \in Nat
      BY DEF RowsOK, ScanRow
    <3>2. \A k \in Scans \ {j} : scan'[k].tries = scan[k].tries
      BY <2>1, EndedRowIs
    <3> QED BY <2>1, <3>1, <3>2
  <2>5. Dated'
    <3> SUFFICES ASSUME NEW t \in Scanners, scanner'[t].at = "scanning"
                 PROVE  scanner'[t].token <= scan'[scanner'[t].job].tries
      BY DEF Dated
    <3>1. t # s /\ scanner'[t] = scanner[t] /\ scanner[t].job \in Scans /\ scanner[t].token \in Nat
      BY <2>1, <2>2 DEF ScannersOK, Scanner
    <3>2. scanner[t].token <= scan[scanner[t].job].tries
      BY <3>1 DEF Dated
    <3> QED BY <2>4, <3>1, <3>2
  <2>6. \A t \in Scanners : FreshScans(t)'
    BY <2>1, <2>2, <2>3 DEF Owners, FreshScans
  <2>7. \A t \in Scanners : scanner[t].at = "scanning" /\ scanner[t].job = j => scanner[t].token # scan'[j].token
    <3> TAKE t \in Scanners
    <3> HAVE scanner[t].at = "scanning" /\ scanner[t].job = j
    <3>1. scanner[t].token \in Nat /\ scan[j].tries \in Nat /\ scanner[t].token <= scan[j].tries
      BY <2>4 DEF Dated, ScannersOK, Scanner
    <3> QED BY <2>1, <3>1
  <2>8. \A t, u \in Scanners : t # u => ScansApart(t, u)'
    <3> SUFFICES ASSUME NEW t \in Scanners, NEW u \in Scanners, t # u PROVE ScansApart(t, u)'
      OBVIOUS
    <3>1. CASE t = s
      BY <2>1, <2>2, <2>3, <2>7, <3>1 DEF ScansApart
    <3>2. CASE u = s
      BY <2>1, <2>2, <2>3, <3>2 DEF ScansApart
    <3>3. CASE t # s /\ u # s
      BY <2>2, <2>3, <3>3 DEF ScansApart, Owners
    <3> QED BY <3>1, <3>2, <3>3
  <2> QED BY <2>5, <2>6, <2>8 DEF Owners
<1>4. ASSUME NEW s \in Scanners, ClaimNothing(s) PROVE Owners' /\ Dated'
  <2>1. \A k \in Scans : \/ scan'[k] = scan[k]
                         \/ Abandoned(k) /\ scan'[k] = EndedRow(k, "failed")
    BY <1>4, SweptIs DEF ClaimNothing
  <2>2. \A k \in Scans : scan'[k].tries = scan[k].tries
    BY <2>1, EndedRowIs
  <2>3. \A t \in Scanners : scanner[t].at = "claimed" => scan'[scanner[t].job] = scan[scanner[t].job]
    BY <2>1 DEF Owners, FreshScans, Abandoned, ScannersOK
  <2> QED BY <1>4, <2>2, <2>3, OwnersKept DEF ClaimNothing
<1>5. ASSUME NEW s \in Scanners, ReadScan(s) PROVE Owners' /\ Dated'
  <2>1. /\ scanner[s].at = "claimed" /\ scanner'[s].at = "scanning" /\ scanner'[s].job = scanner[s].job
        /\ scanner'[s].token = scan[scanner[s].job].token
        /\ scanner[s].job \in Scans /\ scan' = scan
        /\ \A t \in Scanners \ {s} : scanner'[t] = scanner[t]
    BY <1>5 DEF ReadScan, ScannersOK, Scanner
  <2>2. \A t \in Scanners : FreshScans(t)'
    BY <2>1 DEF Owners, FreshScans
  <2>3. Dated'
    <3>1. scanner'[s].token <= scan[scanner[s].job].tries
      <4>1. scan[scanner[s].job].token = scan[scanner[s].job].tries /\ scan[scanner[s].job].tries \in Nat
        BY <2>1 DEF Owners, FreshScans, BooksAgree, RowBooks, RowsOK, ScanRow
      <4> QED BY <2>1, <4>1
    <3> QED BY <2>1, <3>1 DEF Dated
  <2>4. \A t, u \in Scanners : t # u => ScansApart(t, u)'
    <3> SUFFICES ASSUME NEW t \in Scanners, NEW u \in Scanners, t # u PROVE ScansApart(t, u)'
      OBVIOUS
    <3>1. ScansApart(t, u) /\ ScansApart(u, t)
      BY DEF Owners
    <3> QED BY <2>1, <3>1 DEF ScansApart
  <2> QED BY <2>2, <2>3, <2>4 DEF Owners
<1>6. ASSUME NEW s \in Scanners, CompleteScan(s) \/ FailScan(s) PROVE Owners' /\ Dated'
  <2>1. CASE scan' = scan
    BY <1>6, <2>1, EndIs, OwnersLeft
  <2>2. ASSUME HoldsScan(s), NEW st \in {"completed", "failed"},
               scan' = [scan EXCEPT ![scanner[s].job] = EndedRow(scanner[s].job, st)]
        PROVE  Owners' /\ Dated'
    <3>1. scanner[s].at = "scanning" /\ scanner[s].job \in Scans /\ scanner' = [scanner EXCEPT ![s] = Idle]
      BY <1>6, EndIs
    <3>2. \A k \in Scans : scan'[k].tries = scan[k].tries
      BY <2>2, EndedRowIs DEF RowsOK
    <3>3. \A t \in Scanners \ {s} : scanner[t].at = "claimed" => scanner[t].job # scanner[s].job
      BY <2>2, <3>1 DEF Owners, ScansApart, HoldsScan
    <3>4. \A t \in Scanners \ {s} : scanner[t].at = "claimed" => scan'[scanner[t].job] = scan[scanner[t].job]
      BY <2>2, <3>3 DEF RowsOK, ScannersOK
    <3> QED BY <3>1, <3>2, <3>4, OwnersLeft
  <2> QED BY <1>6, <2>1, <2>2, EndIs
<1>7. ASSUME NEW s \in Scanners, ScannerDies(s) PROVE Owners' /\ Dated'
  BY <1>7, OwnersLeft DEF ScannerDies
<1>8. ASSUME NEW j \in Scans, LeaseEnds(j) PROVE Owners' /\ Dated'
  <2>1. \A s \in Scanners : scanner[s].at = "claimed" => scanner[s].job \in Scans \ {j}
    BY <1>8 DEF LeaseEnds, ScannersOK
  <2>2. (\A k \in Scans \ {j} : scan'[k] = scan[k]) /\ scan'[j].tries = scan[j].tries
    BY <1>8 DEF LeaseEnds, RowsOK, ScanRow
  <2> QED BY <1>8, <2>1, <2>2, OwnersKept DEF LeaseEnds
<1> QED
  BY <1>1, <1>2, <1>3, <1>4, <1>5, <1>6, <1>7, <1>8
  DEF ScanNext, Poll, Work, Look, IndexRefuses, LookAgain, scanVars

-----------------------------------------------------------------------------
(* Everything that is kept.                                                *)
ScanBooks == ScanTyped /\ BooksAgree /\ OneActive
ScanInv == ScanBooks /\ (ReadsInLease => Owners /\ Dated)

LEMMA ScanStart == ScanInit => ScanInv
<1> SUFFICES ASSUME ScanInit PROVE ScanInv
  OBVIOUS
<1>1. /\ Row("absent", FALSE, Unclaimed, FALSE, 0) \in ScanRow
      /\ \A j \in Scans : /\ scan[j].st = "absent" /\ ~scan[j].slot
                          /\ scan[j].token = Unclaimed /\ ~scan[j].lease /\ scan[j].tries = 0
  BY DEF Row, ScanRow, ScanInit, Unclaimed
<1>2. Idle \in Scanner /\ \A s \in Scanners : scanner[s].at = "idle"
  BY DEF ScanInit, Idle, Scanner, Unclaimed
<1>3. ScanTyped
  BY <1>1, <1>2 DEF ScanInit, ScanTyped, RowsOK, AskOK, ScannersOK
<1>4. BooksAgree /\ OneActive
  BY <1>1 DEF BooksAgree, RowBooks, OneActive
<1>5. Owners /\ Dated
  BY <1>2 DEF Owners, FreshScans, ScansApart, Dated
<1> QED BY <1>3, <1>4, <1>5 DEF ScanInv, ScanBooks

LEMMA ScanKept == ScanInv /\ [ScanNext]_scanVars => ScanInv'
BY ScanTypedStep, RowsStep, OwnersStep DEF ScanInv, ScanBooks

(* Type correctness of the jobs, the requests and the schedulers.          *)
THEOREM ScanTypesTheorem == ScanSpec => []ScanTypes
<1>1. ScanInv => ScanTypes
  BY DEF ScanInv, ScanBooks, ScanTyped, RowsOK, AskOK, ScannersOK, ScanRow, Scanner, ScanTypes
<1> QED BY <1>1, ScanStart, ScanKept, PTL DEF ScanSpec

(* One active scan, whose row says so, and one scheduler that may end it:  *)
(* for any number of requests, schedulers and attempts, when a claim is    *)
(* read back within its lease.                                             *)
THEOREM OneActiveTheorem == ASSUME ReadsInLease PROVE ScanSpec => []OneActiveScan
<1>1. ScanInv => OneActiveScan
  <2> SUFFICES ASSUME ScanInv PROVE OneActiveScan
    OBVIOUS
  <2>1. ASSUME NEW s \in Scanners, NEW t \in Scanners, Owns(s), Owns(t), s # t PROVE FALSE
    <3>1. scanner[s].job \in Scans /\ scanner[t].job \in Scans
      BY <2>1 DEF ScanInv, ScanBooks, ScanTyped, ScannersOK, Owns
    <3>2. scanner[s].job = scanner[t].job
      BY <2>1, <3>1 DEF ScanInv, ScanBooks, BooksAgree, RowBooks, OneActive, Owns, HoldsScan
    <3>3. ScansApart(s, t)
      BY <2>1 DEF ScanInv, Owners
    <3> QED BY <2>1, <3>2, <3>3 DEF ScansApart, Owns, HoldsScan
  <2> QED BY <2>1 DEF ScanInv, ScanBooks, BooksAgree, RowBooks, OneActive, OneActiveScan, Active
<1> QED BY <1>1, ScanStart, ScanKept, PTL DEF ScanSpec

(* A scan that has ended stays as it ended, whatever comes late.           *)
THEOREM EndedScanTheorem == ScanSpec => EndedScanStays
<1> DEFINE Stays == \A j \in Scans : scan[j].st \in {"completed", "failed"} => scan'[j] = scan[j]
<1>1. ScanInv /\ [ScanNext]_scanVars => [Stays]_scanVars
  <2> SUFFICES ASSUME ScanInv, ScanNext PROVE Stays
    OBVIOUS
  <2> USE DEF ScanInv, ScanBooks, ScanTyped
  <2>1. ASSUME NEW r \in Requests, InsertScan(r) PROVE Stays
    BY <2>1 DEF InsertScan, Absent, RowsOK
  <2>2. ASSUME NEW s \in Scanners, ClaimScan(s) PROVE Stays
    <3>1. PICK j \in Scans : /\ MayClaimScan(j)
                             /\ \A k \in Scans \ {j} : scan'[k] = scan[k] \/ Abandoned(k)
      BY <2>2, ClaimIs
    <3> QED BY <3>1 DEF MayClaimScan, Abandoned, BooksAgree, RowBooks
  <2>3. ASSUME NEW s \in Scanners, ClaimNothing(s) PROVE Stays
    BY <2>3, SweptIs DEF ClaimNothing, Abandoned
  <2>4. ASSUME NEW s \in Scanners, CompleteScan(s) \/ FailScan(s) PROVE Stays
    BY <2>4, EndIs DEF HoldsScan, RowsOK
  <2>5. ASSUME NEW j \in Scans, LeaseEnds(j) PROVE Stays
    BY <2>5 DEF LeaseEnds, BooksAgree, RowBooks, RowsOK
  <2> HIDE DEF Stays
  <2>6. scan' = scan => Stays
    BY DEF Stays
  <2> QED BY <2>1, <2>2, <2>3, <2>4, <2>5, <2>6
          DEF ScanNext, Poll, Work, Look, IndexRefuses, LookAgain, ReadScan, ScannerDies
<1> QED BY <1>1, ScanStart, ScanKept, PTL DEF ScanSpec, EndedScanStays

-----------------------------------------------------------------------------
(***************************************************************************)
(* The clock of an incident.                                               *)
(***************************************************************************)
RowFields(row) == row.live \in BOOLEAN /\ row.sev \in Severities /\ row.cmd \in Commanders \cup {NoOne}

LEMMA DueFromIs ==
  ASSUME now \in Nat, NEW sev \in Severities
  PROVE  DueFrom(sev) \in Nat \cup {NoDue}
<1>1. WINDOW[sev] \in Nat
  BY ClockAssumption
<1>2. CASE WINDOW[sev] = 0
  BY <1>2 DEF DueFrom
<1>3. CASE WINDOW[sev] # 0
  BY <1>1, <1>3 DEF DueFrom
<1> QED BY <1>2, <1>3

LEMMA NewClockIs ==
  ASSUME now \in Nat, NEW row, RowFields(row), NEW actor
  PROVE  NewClock(row, actor) \in Rows /\ NewClock(row, actor).esc = FALSE
<1> DEFINE d == IF row.live THEN DueFrom(row.sev) ELSE NoDue
           a == d # NoDue /\ row.cmd = actor
<1>1. d \in Nat \cup {NoDue}
  <2>1. CASE row.live
    BY <2>1, DueFromIs DEF RowFields
  <2>2. CASE ~row.live
    BY <2>2
  <2> QED BY <2>1, <2>2
<1>2. a \in BOOLEAN
  OBVIOUS
<1>3. NewClock(row, actor) = [live |-> row.live, sev |-> row.sev, cmd |-> row.cmd, due |-> d, ack |-> a, esc |-> FALSE]
  BY Zenon DEF NewClock
<1> HIDE DEF d, a
<1> QED BY <1>1, <1>2, <1>3 DEF RowFields, Rows

(* What update_incident stores is a row; its mark of an escalation goes    *)
(* only with a clock that starts again.                                    *)
LEMMA AfterUpdateIs ==
  ASSUME now \in Nat, inc \in Rows, NEW b \in Rows, NEW row, RowFields(row), NEW actor
  PROVE  /\ AfterUpdate(b, row, actor) \in Rows
         /\ ~Restarts(b, row) => AfterUpdate(b, row, actor).esc = inc.esc
<1> DEFINE edited == [live |-> row.live, sev |-> row.sev, cmd |-> row.cmd,
                      due |-> inc.due, ack |-> inc.ack, esc |-> inc.esc]
           shortened == [edited EXCEPT !.due = DueFrom(row.sev)]
<1>1. edited \in Rows /\ edited.esc = inc.esc /\ RowFields(edited)
  BY DEF RowFields, Rows
<1>2. AfterUpdate(b, row, actor) = IF Restarts(b, row) THEN NewClock(edited, actor)
                                   ELSE IF Shortens(b, row) THEN shortened ELSE edited
  BY Zenon DEF AfterUpdate
<1>3. shortened \in Rows /\ shortened.esc = inc.esc
  <2>1. DueFrom(row.sev) \in Nat \cup {NoDue}
    BY DueFromIs DEF RowFields
  <2> QED BY <1>1, <2>1 DEF Rows
<1>4. NewClock(edited, actor) \in Rows
  BY <1>1, NewClockIs
<1> HIDE DEF edited, shortened
<1> QED BY <1>1, <1>2, <1>3, <1>4

LEMMA ClockNowIs ==
  ASSUME ClockTypes PROVE now \in Nat /\ MaxTime \in Nat
BY ClockAssumption DEF ClockTypes

(* One edit: the row it stores and the history.                            *)
LEMMA UpdateIs ==
  ASSUME ClockTypes, NEW e \in Editors, Update(e)
  PROVE  /\ inc' \in Rows
         /\ told' = 0 \/ (told' = told /\ inc'.esc = inc.esc)
         /\ before' = [before EXCEPT ![e] = NoRow] /\ now' = now /\ listed' = listed
         /\ Undisturbed => \A p \in Passes : listed[p] = NoRow
<1>1. before[e] \in Rows
  BY DEF Update, ClockTypes
<1>2. PICK live \in BOOLEAN, sev \in Severities, cmd \in Commanders \cup {NoOne}, actor \in Commanders :
        /\ inc' = AfterUpdate(before[e], [live |-> live, sev |-> sev, cmd |-> cmd], actor)
        /\ told' = IF Restarts(before[e], [live |-> live, sev |-> sev, cmd |-> cmd]) THEN 0 ELSE told
  BY Zenon DEF Update
<1> DEFINE row == [live |-> live, sev |-> sev, cmd |-> cmd]
<1>3. RowFields(row)
  BY DEF RowFields
<1>4. inc' = AfterUpdate(before[e], row, actor) /\ told' = IF Restarts(before[e], row) THEN 0 ELSE told
  BY <1>2
<1>5. now \in Nat /\ inc \in Rows
  BY ClockNowIs DEF ClockTypes
<1> HIDE DEF row
<1>6. /\ AfterUpdate(before[e], row, actor) \in Rows
      /\ ~Restarts(before[e], row) => AfterUpdate(before[e], row, actor).esc = inc.esc
  BY <1>1, <1>3, <1>5, AfterUpdateIs
<1>7. told' = 0 \/ (told' = told /\ inc'.esc = inc.esc)
  BY <1>4, <1>6
<1>8. before' = [before EXCEPT ![e] = NoRow] /\ now' = now /\ listed' = listed
  BY DEF Update
<1>9. Undisturbed => \A p \in Passes : listed[p] = NoRow
  BY DEF Update, Alone
<1> QED BY <1>4, <1>6, <1>7, <1>8, <1>9

(* The rest leaves the clock alone, but for a mark.                        *)
LEMMA MarkIs ==
  ASSUME inc \in Rows
  PROVE  /\ [inc EXCEPT !.ack = TRUE] \in Rows /\ [inc EXCEPT !.esc = TRUE] \in Rows
BY DEF Rows

LEMMA ClockTypesStep ==
  ASSUME ClockTypes, [ClockNext]_clockVars PROVE ClockTypes'
<1> USE DEF ClockTypes
<1>1. ASSUME NEW e \in Editors, ReadRow(e) PROVE ClockTypes'
  BY <1>1 DEF ReadRow
<1>2. ASSUME NEW e \in Editors, Update(e) PROVE ClockTypes'
  <2>1. told' \in Nat
    BY <1>2, UpdateIs
  <2> QED BY <1>2, <2>1, UpdateIs
<1>3. ASSUME NEW e \in Editors, DropEdit(e) PROVE ClockTypes'
  BY <1>3 DEF DropEdit
<1>4. ASSUME Acknowledge PROVE ClockTypes'
  BY <1>4, MarkIs DEF Acknowledge
<1>5. ASSUME NEW p \in Passes, Select(p) \/ PassFails(p) PROVE ClockTypes'
  BY <1>5 DEF Select, PassFails
<1>6. ASSUME NEW p \in Passes, Escalate(p) PROVE ClockTypes'
  <2>1. inc' \in Rows /\ told' \in Nat
    <3>1. \/ UNCHANGED <<inc, told>>
          \/ inc' = [inc EXCEPT !.esc = TRUE] /\ told' = told + 1
      BY <1>6 DEF Escalate
    <3>2. inc \in Rows /\ told \in Nat /\ told + 1 \in Nat
      OBVIOUS
    <3> QED BY ONLY <3>1, <3>2, MarkIs
  <2> QED BY <1>6, <2>1 DEF Escalate
<1>7. ASSUME ClockTick PROVE ClockTypes'
  BY <1>7, ClockAssumption DEF ClockTick
<1>8. CASE UNCHANGED clockVars
  BY <1>8 DEF clockVars
<1> QED BY <1>1, <1>2, <1>3, <1>4, <1>5, <1>6, <1>7, <1>8 DEF ClockNext

LEMMA ClockTypesInit ==
  ASSUME ClockInit PROVE ClockTypes
<1>1. PICK sev \in Severities, cmd \in Commanders \cup {NoOne}, actor \in Commanders :
        inc = NewClock([live |-> TRUE, sev |-> sev, cmd |-> cmd, due |-> NoDue, ack |-> FALSE, esc |-> FALSE], actor)
  BY Zenon DEF ClockInit
<1> DEFINE row == [live |-> TRUE, sev |-> sev, cmd |-> cmd, due |-> NoDue, ack |-> FALSE, esc |-> FALSE]
<1>2. RowFields(row) /\ inc = NewClock(row, actor)
  BY <1>1 DEF RowFields
<1>3. now \in Nat
  BY DEF ClockInit
<1> HIDE DEF row
<1>4. inc \in Rows
  BY <1>2, <1>3, NewClockIs
<1> QED BY <1>4, ClockAssumption DEF ClockInit, ClockTypes

(* The types of an incident's clock, of the rows that update_incident has  *)
(* read and of what escalate_due has listed, however edits and passes      *)
(* overlap.                                                                *)
THEOREM ClockTypesTheorem == ClockSpec => []ClockTypes
BY ClockTypesInit, ClockTypesStep, PTL DEF ClockSpec

(* Where nobody edits behind a pass, what a pass has listed is still due   *)
(* when it claims it, but for an acknowledgement and the other passes; and *)
(* nobody is told of a clock that bears no mark of it.                     *)
ClockInv ==
  /\ ClockTypes
  /\ \A p \in Passes : listed[p] # NoRow => inc.live /\ inc.due # NoDue /\ inc.due <= now
  /\ ~inc.esc => told = 0

LEMMA ClockInvStep ==
  ASSUME Undisturbed, ClockInv, [ClockNext]_clockVars PROVE ClockInv'
<1>1. ClockTypes'
  BY ClockTypesStep DEF ClockInv
<1> DEFINE StillDue == \A p \in Passes : listed[p] # NoRow => inc.live /\ inc.due # NoDue /\ inc.due <= now
           Untold == ~inc.esc => told = 0
<1>2. StillDue /\ Untold /\ ClockTypes
  BY DEF ClockInv
<1>3. ASSUME NEW e \in Editors, ReadRow(e) \/ DropEdit(e) PROVE StillDue' /\ Untold'
  BY <1>2, <1>3 DEF ReadRow, DropEdit
<1>4. ASSUME NEW e \in Editors, Update(e) PROVE StillDue' /\ Untold'
  <2>1. Untold'
    BY <1>2, <1>4, UpdateIs
  <2>2. \A p \in Passes : listed'[p] = NoRow
    BY <1>2, <1>4, UpdateIs
  <2> QED BY <2>1, <2>2
<1>5. ASSUME Acknowledge PROVE StillDue' /\ Untold'
  BY <1>2, <1>5 DEF Acknowledge, ClockTypes, Rows
<1>6. ASSUME NEW p \in Passes, Select(p) PROVE StillDue' /\ Untold'
  BY <1>2, <1>6 DEF Select, IsOverdue
<1>7. ASSUME NEW p \in Passes, PassFails(p) PROVE StillDue' /\ Untold'
  BY <1>2, <1>7 DEF PassFails, ClockTypes
<1>8. ASSUME NEW p \in Passes, Escalate(p) PROVE StillDue' /\ Untold'
  <2>1. \/ UNCHANGED <<inc, told>>
        \/ inc' = [inc EXCEPT !.esc = TRUE]
    BY <1>8 DEF Escalate
  <2>2. inc'.live = inc.live /\ inc'.due = inc.due
    BY <1>2, <2>1 DEF ClockTypes, Rows
  <2>3. Untold'
    BY <1>2, <2>1 DEF ClockTypes, Rows
  <2> QED BY <1>2, <1>8, <2>2, <2>3 DEF Escalate, ClockTypes
<1>9. ASSUME ClockTick PROVE StillDue' /\ Untold'
  <2>1. now' = now + 1 /\ UNCHANGED <<inc, listed, told>> /\ now \in Int
    BY <1>2, <1>9, ClockNowIs DEF ClockTick
  <2>2. inc.due \in Int
    BY <1>2 DEF ClockTypes, Rows, NoDue
  <2> QED BY <1>2, <2>1, <2>2
<1>10. ASSUME UNCHANGED clockVars PROVE StillDue' /\ Untold'
  BY <1>2, <1>10 DEF clockVars
<1>11. StillDue' /\ Untold'
  BY <1>3, <1>4, <1>5, <1>6, <1>7, <1>8, <1>9, <1>10 DEF ClockNext
<1> QED BY <1>1, <1>11 DEF ClockInv

(* escalate_due: the alternates are told once for a clock, of a live       *)
(* incident whose window has ended without an acknowledgement, however     *)
(* many processes have it in their lists, where nobody edits between what  *)
(* another call or a pass reads and what it writes.                        *)
THEOREM EscalatedTheorem ==
  ASSUME Undisturbed PROVE ClockSpec => EscalatedOnceWhenDue
<1>1. ClockInit => ClockInv
  BY ClockTypesInit DEF ClockInit, ClockInv
<1>2. ClockInv /\ [ClockNext]_clockVars => ClockInv'
  BY ClockInvStep
<1>3. ClockInv /\ [ClockNext]_clockVars =>
        [told' > told => /\ told = 0
                         /\ inc.live /\ inc.due # NoDue /\ inc.due <= now /\ ~inc.ack]_clockVars
  <2> SUFFICES ASSUME ClockInv, ClockNext, told' > told
               PROVE  told = 0 /\ inc.live /\ inc.due # NoDue /\ inc.due <= now /\ ~inc.ack
    OBVIOUS
  <2>1. told \in Nat /\ ClockTypes
    BY DEF ClockInv, ClockTypes
  <2>2. \A e \in Editors : ~Update(e)
    BY <2>1, UpdateIs
  <2>3. PICK p \in Passes : Escalate(p) /\ told' # told
    BY <2>1, <2>2 DEF ClockNext, ReadRow, DropEdit, Acknowledge, Select, PassFails, ClockTick
  <2>4. listed[p] # NoRow /\ ~inc.esc /\ ~inc.ack
    BY <2>3 DEF Escalate, MayEscalate
  <2> QED BY <2>4 DEF ClockInv
<1> QED BY <1>1, <1>2, <1>3, PTL DEF ClockSpec, EscalatedOnceWhenDue

-----------------------------------------------------------------------------
(***************************************************************************)
(* The mail of a minute: first, arithmetic.                                *)
(***************************************************************************)
LEMMA Times ==
  ASSUME NEW a \in Int, NEW b \in Int, NEW c \in Int
  PROVE  /\ a * b \in Int /\ a * (b + c) = a * b + a * c /\ (b + c) * a = b * a + c * a
         /\ a * b = b * a /\ a * 0 = 0 /\ a * 1 = a
OBVIOUS

LEMMA TimesMore ==
  ASSUME NEW n \in Nat, NEW a \in Int, NEW b \in Int, a <= b
  PROVE  n * a <= n * b
<1>1. b - a \in Nat /\ b = a + (b - a)
  OBVIOUS
<1>2. n * (b - a) \in Nat
  BY <1>1
<1>3. n * b = n * a + n * (b - a)
  BY <1>1, Times
<1> QED BY <1>2, <1>3

LEMMA DivMod ==
  ASSUME NEW a \in Nat, NEW n \in Nat \ {0}
  PROVE  /\ a \div n \in Nat /\ a % n \in 0 .. n - 1
         /\ a = n * (a \div n) + (a % n)
OBVIOUS

LEMMA ModIs ==
  ASSUME NEW n \in Nat \ {0}, NEW q \in Nat, NEW r \in 0 .. n - 1
  PROVE  (n * q + r) % n = r
<1> DEFINE a == n * q + r
           p == a \div n
           s == a % n
<1>0. a \in Nat
  OBVIOUS
<1>1. p \in Nat /\ s \in 0 .. n - 1 /\ a = n * p + s
  BY <1>0, DivMod
<1>2. a = n * q + r
  OBVIOUS
<1> HIDE DEF a, p, s
<1>3. ASSUME p + 1 <= q PROVE FALSE
  <2>1. n * (p + 1) <= n * q /\ n * (p + 1) = n * p + n
    BY <1>1, <1>3, TimesMore
  <2> QED BY <1>1, <1>2, <2>1
<1>4. ASSUME q + 1 <= p PROVE FALSE
  <2>1. n * (q + 1) <= n * p /\ n * (q + 1) = n * q + n
    BY <1>1, <1>4, TimesMore
  <2> QED BY <1>1, <1>2, <2>1
<1>5. ASSUME p = q PROVE s = r
  BY <1>1, <1>2, <1>5
<1>6. s = r
  BY <1>1, <1>3, <1>4, <1>5
<1> QED BY <1>6 DEF s, a

LEMMA AddMod ==
  ASSUME NEW n \in Nat \ {0}, NEW a \in Nat, NEW i \in 0 .. n - 1
  PROVE  (a + i) % n = IF (a % n) + i < n THEN (a % n) + i ELSE (a % n) + i - n
<1> DEFINE q == a \div n
           s == a % n
<1>1. q \in Nat /\ s \in 0 .. n - 1 /\ a = n * q + s
  BY DivMod
<1> HIDE DEF q, s
<1>2. ASSUME s + i < n PROVE (a + i) % n = s + i
  <2>1. s + i \in 0 .. n - 1 /\ a + i = n * q + (s + i)
    BY <1>1, <1>2
  <2> QED BY <1>1, <2>1, ModIs
<1>3. ASSUME ~(s + i < n) PROVE (a + i) % n = s + i - n
  <2>1. s + i - n \in 0 .. n - 1 /\ q + 1 \in Nat
    BY <1>1, <1>3
  <2>2. n * (q + 1) = n * q + n /\ n * q \in Int
    BY <1>1, Times
  <2>3. a + i = n * (q + 1) + (s + i - n)
    BY <1>1, <2>2
  <2> QED BY <2>1, <2>3, ModIs
<1>4. (a + i) % n = IF s + i < n THEN s + i ELSE s + i - n
  BY <1>2, <1>3
<1> QED BY <1>4 DEF s

LEMMA UpToDiv ==
  ASSUME NEW n \in Nat \ {0}, NEW b \in Nat, NEW l \in Nat, l * n <= b
  PROVE  l <= b \div n
<1> DEFINE q == b \div n
           s == b % n
<1>1. q \in Nat /\ s \in 0 .. n - 1 /\ b = n * q + s
  BY DivMod
<1> HIDE DEF q, s
<1>2. ASSUME q + 1 <= l PROVE FALSE
  <2>1. n * (q + 1) <= n * l
    BY <1>1, <1>2, TimesMore
  <2>2. n * (q + 1) = n * q + n /\ n * l = l * n /\ n * q \in Int /\ n * l \in Int
    BY <1>1, Times
  <2> QED BY <1>1, <2>1, <2>2
<1>3. l <= q
  BY <1>1, <1>2
<1> QED BY <1>3 DEF q

(***************************************************************************)
(* What is left for the organizations that are still to come.              *)
(***************************************************************************)
Share == ALLOWANCE \div N
More == ALLOWANCE % N
Rest(i) == (N - i) * Share + (IF i < More THEN More - i ELSE 0)

LEMMA BudgetConstants ==
  /\ N \in Nat \ {0} /\ ALLOWANCE \in Nat /\ MaxDue \in Nat /\ Strides \subseteq Nat
  /\ Share \in Nat /\ More \in 0 .. N - 1 /\ ALLOWANCE = N * Share + More
BY BudgetAssumption, DivMod DEF Share, More

LEMMA ShareIs ==
  ASSUME NEW i \in Nat
  PROVE  /\ ShareOf(i) = Share + (IF i < More THEN 1 ELSE 0)
         /\ ShareOf(i) \in Nat
<1>1. ShareOf(i) = Share + (IF i < More THEN 1 ELSE 0)
  BY DEF ShareOf, Share, More
<1> QED BY <1>1, BudgetConstants

LEMMA RestIs ==
  ASSUME NEW i \in 0 .. N - 1
  PROVE  /\ Rest(i) \in Nat /\ Rest(i + 1) \in Nat
         /\ Rest(i) = ShareOf(i) + Rest(i + 1)
<1>1. i \in Nat /\ N - i \in Nat /\ N - (i + 1) \in Nat /\ N - i = (N - (i + 1)) + 1
  BY BudgetConstants
<1> DEFINE x == (N - (i + 1)) * Share
<1>2. x \in Nat
  BY <1>1, BudgetConstants
<1>3. (N - i) * Share = x + Share
  BY <1>1, BudgetConstants, Times
<1>4. ShareOf(i) = Share + (IF i < More THEN 1 ELSE 0)
  BY <1>1, ShareIs
<1>5. Rest(i + 1) = x + (IF i + 1 < More THEN More - (i + 1) ELSE 0)
  BY DEF Rest
<1>6. Rest(i) = x + Share + (IF i < More THEN More - i ELSE 0)
  BY <1>3 DEF Rest
<1> HIDE DEF x
<1> QED BY <1>1, <1>2, <1>4, <1>5, <1>6, BudgetConstants

LEMMA RestAtStart == Rest(0) = ALLOWANCE
<1>1. (N - 0) * Share = N * Share
  BY BudgetConstants
<1>2. (IF 0 < More THEN More - 0 ELSE 0) = More
  BY BudgetConstants
<1> QED BY <1>1, <1>2, BudgetConstants DEF Rest

Steps == [at : {"wait", "first", "spare"}, index : Tenants]

LEMMA BudgetTypesAre ==
  ASSUME BudgetTypes
  PROVE  /\ N \in Nat \ {0} /\ minute \in Nat /\ minute < N /\ budget \in Nat /\ budget <= ALLOWANCE
         /\ step \in Steps /\ step.at \in {"wait", "first", "spare"}
         /\ step.index \in Nat /\ step.index < N /\ step.index \in Tenants
         /\ mail \in [Tenants -> 0 .. MaxDue] /\ late \in [Tenants -> Nat]
BY BudgetConstants DEF BudgetTypes, Tenants, Steps

LEMMA BetweenIs ==
  Between \in Steps /\ [at |-> "first", index |-> 0] \in Steps /\ [at |-> "spare", index |-> 0] \in Steps
BY BudgetConstants DEF Between, Steps, Tenants

LEMMA OnFromIs ==
  ASSUME BudgetTypes, NEW left, OnFrom(left)
  PROVE  /\ step' \in Steps
         /\ step'.at = "first" => /\ step.at = "first" /\ step.index + 1 < N
                                  /\ step'.index = step.index + 1
         /\ step.index + 1 < N => step'.at = step.at /\ step'.index = step.index + 1
<1>1. step \in Steps /\ step.index \in Nat /\ N \in Nat
  BY BudgetTypesAre
<1>2. CASE step.index + 1 < N
  <2>1. step' = [step EXCEPT !.index = step.index + 1]
    BY <1>2 DEF OnFrom
  <2>2. step.index + 1 \in Tenants
    BY <1>1, <1>2 DEF Tenants
  <2> QED BY <1>1, <1>2, <2>1, <2>2 DEF Steps
<1>3. CASE ~(step.index + 1 < N)
  <2>1. step' = [at |-> "spare", index |-> 0] \/ step' = Between
    BY <1>3 DEF OnFrom
  <2> QED BY <1>3, <2>1, BetweenIs DEF Between
<1> QED BY <1>2, <1>3

LEMMA ServedIs ==
  ASSUME BudgetTypes, NEW i \in Tenants
  PROVE  Served(i) \in Tenants
<1>1. Stride \in Nat
  BY BudgetConstants DEF Stride
<1>2. minute \in Nat /\ i \in Nat
  BY BudgetTypesAre DEF Tenants
<1>3. minute * Stride + i \in Nat
  BY <1>1, <1>2
<1> QED BY <1>3, BudgetConstants, DivMod DEF Served, Tenants

(* What an organization's pass hands over is within its share and its mail.*)
LEMMA MailHandedOver ==
  ASSUME BudgetTypes, NEW t \in Tenants, NEW n \in 0 .. mail[t]
  PROVE  [mail EXCEPT ![t] = @ - n] \in [Tenants -> 0 .. MaxDue]
BY BudgetConstants DEF BudgetTypes

SharesLeft == step.at = "first" => budget >= Rest(step.index)

LEMMA BudgetInit1 ==
  ASSUME BudgetInit PROVE BudgetTypes /\ SharesLeft
BY BudgetConstants DEF BudgetInit, BudgetTypes, SharesLeft, Between, Tenants

LEMMA BudgetStep ==
  ASSUME BudgetTypes, SharesLeft, [BudgetNext]_budgetVars
  PROVE  BudgetTypes' /\ SharesLeft'
<1>1. /\ N \in Nat \ {0} /\ minute \in Nat /\ budget \in Nat /\ budget <= ALLOWANCE
      /\ step.index \in Nat /\ step.index < N /\ step.index \in Tenants /\ late \in [Tenants -> Nat]
      /\ mail \in [Tenants -> 0 .. MaxDue] /\ minute \in Tenants /\ step \in Steps
  BY BudgetTypesAre DEF BudgetTypes
<1>2. ASSUME minute' \in Tenants, step' \in Steps, budget' \in 0 .. ALLOWANCE,
             mail' \in [Tenants -> 0 .. MaxDue], late' \in [Tenants -> Nat]
      PROVE  BudgetTypes'
  BY <1>2 DEF BudgetTypes, Steps
<1>3. ASSUME NEW t \in Tenants, Ask(t) PROVE BudgetTypes' /\ SharesLeft'
  <2>1. mail[t] + 1 \in 0 .. MaxDue
    BY <1>1, <1>3, BudgetConstants DEF Ask
  <2>2. mail' \in [Tenants -> 0 .. MaxDue] /\ UNCHANGED <<minute, step, budget, late>>
    BY <1>1, <1>3, <2>1 DEF Ask
  <2> QED BY <1>1, <2>2 DEF BudgetTypes, SharesLeft
<1>4. ASSUME FirstPass PROVE BudgetTypes' /\ SharesLeft'
  <2> DEFINE t == Served(step.index)
  <2>0. t \in Tenants
    BY <1>1, ServedIs
  <2>1. PICK n \in 0 .. mail[t] :
          /\ n <= ShareOf(step.index) /\ mail' = [mail EXCEPT ![t] = @ - n]
          /\ budget' = budget - n /\ OnFrom(budget - n)
    BY <1>4 DEF FirstPass
  <2>2. /\ late' = [late EXCEPT ![t] = IF ShareOf(step.index) > 0 THEN 0 ELSE @ + 1]
        /\ minute' = minute /\ step.at = "first"
    BY <1>4 DEF FirstPass
  <2> HIDE DEF t
  <2>3. mail' \in [Tenants -> 0 .. MaxDue]
    BY <2>0, <2>1, MailHandedOver
  <2>4. late' \in [Tenants -> Nat]
    BY <1>1, <2>0, <2>2
  <2>5. n \in Nat /\ mail[t] \in Nat
    BY <1>1, <2>0, <2>1
  <2>6. /\ Rest(step.index) \in Nat /\ Rest(step.index + 1) \in Nat /\ ShareOf(step.index) \in Nat
        /\ Rest(step.index) = ShareOf(step.index) + Rest(step.index + 1)
    BY <1>1, RestIs, ShareIs DEF Tenants
  <2>7. budget' \in 0 .. ALLOWANCE /\ budget' >= Rest(step.index + 1)
    <3>1. budget >= Rest(step.index)
      BY <2>2 DEF SharesLeft
    <3> QED BY <1>1, <2>1, <2>5, <2>6, <3>1, BudgetConstants
  <2>8. step' \in Steps /\ (step'.at = "first" => step'.index = step.index + 1)
    BY <2>1, OnFromIs
  <2>9. SharesLeft'
    BY <2>7, <2>8 DEF SharesLeft, Rest, Share, More
  <2> QED BY <1>1, <1>2, <2>2, <2>3, <2>4, <2>7, <2>8, <2>9
<1>5. ASSUME SparePass PROVE BudgetTypes' /\ SharesLeft'
  <2> DEFINE t == Served(step.index)
  <2>0. t \in Tenants
    BY <1>1, ServedIs
  <2>1. PICK n \in 0 .. mail[t] :
          /\ n <= budget /\ mail' = [mail EXCEPT ![t] = @ - n]
          /\ budget' = budget - n /\ OnFrom(budget - n)
    BY <1>5 DEF SparePass, Spare
  <2>2. UNCHANGED <<minute, late>> /\ step.at = "spare"
    BY <1>5 DEF SparePass
  <2> HIDE DEF t
  <2>3. mail' \in [Tenants -> 0 .. MaxDue]
    BY <2>0, <2>1, MailHandedOver
  <2>4. n \in Nat /\ mail[t] \in Nat
    BY <1>1, <2>0, <2>1
  <2>5. budget' \in 0 .. ALLOWANCE
    BY <1>1, <2>1, <2>4, BudgetConstants
  <2>6. step' \in Steps /\ step'.at # "first"
    BY <2>1, <2>2, OnFromIs
  <2>7. SharesLeft'
    BY <2>6 DEF SharesLeft
  <2> QED BY <1>1, <1>2, <2>2, <2>3, <2>5, <2>6, <2>7
<1>6. ASSUME NextMinute PROVE BudgetTypes' /\ SharesLeft'
  <2>1. PICK k \in Strides : minute' = (minute + k) % N
    BY <1>6 DEF NextMinute
  <2>2. minute' \in Tenants
    <3>1. minute + k \in Nat
      BY <1>1, <2>1, BudgetConstants
    <3> QED BY <1>1, <2>1, <3>1, DivMod DEF Tenants
  <2>3. step' = [at |-> "first", index |-> 0] /\ budget' = ALLOWANCE /\ UNCHANGED <<mail, late>>
    BY <1>6 DEF NextMinute
  <2>4. SharesLeft'
    <3>1. step'.index = 0
      BY <2>3
    <3>2. budget' >= Rest(0)
      BY <2>3, RestAtStart, BudgetConstants
    <3> QED BY <3>1, <3>2 DEF SharesLeft, Rest, Share, More
  <2> QED BY <1>1, <1>2, <2>2, <2>3, <2>4, BetweenIs, BudgetConstants
<1>7. ASSUME UNCHANGED budgetVars PROVE BudgetTypes' /\ SharesLeft'
  BY <1>7 DEF budgetVars, BudgetTypes, SharesLeft
<1> QED BY <1>3, <1>4, <1>5, <1>6, <1>7 DEF BudgetNext

(* deliver_all_tenants: the types of one process's pass, and with them that*)
(* in one pass all organizations together never hand over more than the    *)
(* allowance of that process, in both rounds and however some fail.  What  *)
(* several processes hand over in a minute is not bounded by it.           *)
THEOREM BudgetTypesTheorem == BudgetSpec => []BudgetTypes
BY BudgetInit1, BudgetStep, PTL DEF BudgetSpec

(***************************************************************************)
(* The rotation: how far an organization is from the first one that is     *)
(* served, and the one the next minute begins with.                        *)
(***************************************************************************)
Few == ALLOWANCE \in 1 .. N - 1
Dist(t, s) == IF t >= s THEN t - s ELSE t - s + N
Start == (minute * Stride) % N
After(s) == IF s + ALLOWANCE < N THEN s + ALLOWANCE ELSE s + ALLOWANCE - N

LEMMA StartIs ==
  ASSUME BudgetTypes PROVE Start \in Tenants /\ minute * Stride \in Nat
<1>1. Stride \in Nat /\ minute \in Nat
  BY BudgetConstants, BudgetTypesAre DEF Stride
<1>2. minute * Stride \in Nat
  BY <1>1
<1> QED BY <1>2, BudgetConstants, DivMod DEF Start, Tenants

LEMMA ServedFromStart ==
  ASSUME BudgetTypes, NEW i \in Tenants
  PROVE  Dist(Served(i), Start) = i
<1>1. Served(i) = IF Start + i < N THEN Start + i ELSE Start + i - N
  BY StartIs, BudgetConstants, AddMod DEF Served, Start, Tenants
<1>2. Start \in 0 .. N - 1 /\ i \in 0 .. N - 1 /\ N \in Nat
  BY StartIs, BudgetConstants DEF Tenants
<1> HIDE DEF Start
<1> QED BY <1>1, <1>2 DEF Dist

LEMMA DistIs ==
  ASSUME NEW s \in Tenants, NEW t \in Tenants
  PROVE  /\ Dist(t, s) \in 0 .. N - 1
         /\ \A u \in Tenants : Dist(u, s) = Dist(t, s) => u = t
BY BudgetConstants DEF Dist, Tenants

LEMMA AfterIs ==
  ASSUME Few, NEW s \in Tenants, NEW t \in Tenants
  PROVE  /\ After(s) \in Tenants
         /\ Dist(t, s) >= ALLOWANCE => Dist(t, After(s)) = Dist(t, s) - ALLOWANCE
BY BudgetConstants DEF Few, Dist, After, Tenants

LEMMA ShareOfFew ==
  ASSUME Few, NEW i \in Nat
  PROVE  ShareOf(i) > 0 <=> i < ALLOWANCE
<1>1. ALLOWANCE = N * 0 + ALLOWANCE /\ ALLOWANCE \in 0 .. N - 1
  BY BudgetConstants DEF Few
<1>2. More = ALLOWANCE
  BY <1>1, BudgetConstants, ModIs DEF More
<1>3. N * Share = 0 /\ Share \in Nat
  BY <1>2, BudgetConstants
<1>4. Share = 0
  <2>1. ASSUME 1 <= Share PROVE FALSE
    <3>1. N * 1 <= N * Share
      BY <2>1, BudgetConstants, TimesMore
    <3> QED BY <1>3, <3>1, BudgetConstants
  <2> QED BY <1>3, <2>1
<1> QED BY <1>2, <1>4, ShareIs

LEMMA ShareOfMany ==
  ASSUME ALLOWANCE >= N, NEW i \in Nat
  PROVE  ShareOf(i) > 0
<1>1. ASSUME Share = 0 PROVE FALSE
  <2>1. N * Share = 0
    BY <1>1, BudgetConstants
  <2> QED BY <2>1, BudgetConstants
<1>2. Share > 0
  BY <1>1, BudgetConstants
<1> QED BY <1>2, ShareIs, BudgetConstants

(* The next minute begins where the shares of this one ended.              *)
LEMMA StartMoves ==
  ASSUME BudgetTypes, Few, minute' = (minute + 1) % N
  PROVE  Start' = After(Start)
<1>1. Stride = ALLOWANCE /\ ALLOWANCE \in 1 .. N - 1 /\ N \in Nat \ {0} /\ minute \in Nat /\ minute < N
  BY BudgetConstants, BudgetTypesAre DEF Few, Stride
<1>2. Start' = (minute' * ALLOWANCE) % N /\ Start = (minute * ALLOWANCE) % N
  BY <1>1 DEF Start, Stride
<1>3. minute * ALLOWANCE \in Nat
  BY <1>1
<1>4. CASE minute + 1 < N
  <2>1. minute + 1 = N * 0 + (minute + 1) /\ minute + 1 \in 0 .. N - 1
    BY <1>1, <1>4
  <2>2. minute' = minute + 1
    BY <1>1, <2>1, ModIs
  <2>3. minute' * ALLOWANCE = minute * ALLOWANCE + ALLOWANCE
    BY <1>1, <2>2, Times
  <2>4. ALLOWANCE \in 0 .. N - 1
    BY <1>1
  <2> QED BY <1>1, <1>2, <1>3, <2>3, <2>4, AddMod DEF After
<1>5. CASE minute + 1 = N
  <2>1. N = N * 1 + 0 /\ 0 \in 0 .. N - 1
    BY <1>1
  <2>2. minute' = 0
    BY <1>1, <1>5, <2>1, ModIs
  <2>3. minute' * ALLOWANCE = N * 0 + 0
    BY <1>1, <2>2
  <2>4. Start' = 0
    BY <1>1, <1>2, <2>1, <2>3, ModIs
  <2>5. ALLOWANCE - 1 \in Nat /\ N - ALLOWANCE \in 0 .. N - 1
    BY <1>1, <1>5
  <2>6. minute * ALLOWANCE = N * (ALLOWANCE - 1) + (N - ALLOWANCE)
    <3>1. minute = N + (0 - 1)
      BY <1>1, <1>5
    <3>2. minute * ALLOWANCE = N * ALLOWANCE + (0 - 1) * ALLOWANCE
      BY <1>1, <3>1, Times
    <3>3. N * (ALLOWANCE - 1) = N * ALLOWANCE + N * (0 - 1)
      BY <1>1, Times
    <3>4. (0 - 1) * ALLOWANCE = 0 - ALLOWANCE /\ N * (0 - 1) = 0 - N /\ N * ALLOWANCE \in Int
      BY <1>1
    <3> QED BY <1>1, <3>2, <3>3, <3>4
  <2>7. Start = N - ALLOWANCE
    BY <1>1, <1>2, <2>5, <2>6, ModIs
  <2> QED BY <1>1, <2>4, <2>7 DEF After
<1> QED BY <1>1, <1>4, <1>5

(* Who has not been served in this minute is still as far from a share of  *)
(* its own as when the minute began; the others count from the next one.   *)
Place(t) == IF step.at = "first" /\ Dist(t, Start) >= step.index THEN Start ELSE After(Start)
Turn(t) == late[t] * ALLOWANCE + Dist(t, Place(t)) <= N - 1

Rotation ==
  /\ BudgetTypes
  /\ ALLOWANCE >= N => \A t \in Tenants : late[t] = 0
  /\ Few => \A t \in Tenants : Turn(t)

LEMMA TurnKept ==
  ASSUME NEW t \in Tenants, Turn(t), late'[t] = late[t], Place(t)' = Place(t)
  PROVE  Turn(t)'
BY DEF Turn, Dist

LEMMA FirstTurn ==
  ASSUME Few, Rotation, FirstPass, NEW u \in Tenants
  PROVE  Turn(u)'
<1> DEFINE t == Served(step.index)
<1>1. BudgetTypes /\ Turn(u) /\ step.at = "first" /\ step.index \in Tenants /\ step.index \in Nat /\ step.index < N
      /\ late \in [Tenants -> Nat] /\ ALLOWANCE \in 1 .. N - 1 /\ N \in Nat
  BY BudgetTypesAre, BudgetConstants DEF Rotation, FirstPass, Few
<1>2. t \in Tenants /\ Dist(t, Start) = step.index
  BY <1>1, ServedIs, ServedFromStart
<1>3. PICK left : OnFrom(left)
  BY Zenon DEF FirstPass
<1>4. /\ late' = [late EXCEPT ![t] = IF ShareOf(step.index) > 0 THEN 0 ELSE @ + 1]
      /\ minute' = minute
  BY DEF FirstPass
<1> HIDE DEF t
<1>5. Start \in Tenants /\ After(Start) \in Tenants /\ Start' = Start
  <2>1. Start' = Start
    BY <1>4 DEF Start, Stride
  <2> QED BY <1>1, <2>1, StartIs, AfterIs
<1>6. /\ Dist(u, Start) \in 0 .. N - 1 /\ Dist(u, After(Start)) \in 0 .. N - 1
      /\ Dist(u, Start) >= ALLOWANCE => Dist(u, After(Start)) = Dist(u, Start) - ALLOWANCE
  BY <1>5, DistIs, AfterIs
<1>7. After(Start)' = After(Start)
  BY <1>5 DEF After
<1>8. Place(u)' = IF step'.at = "first" /\ Dist(u, Start) >= step'.index THEN Start ELSE After(Start)
  BY <1>5, <1>7 DEF Place, Dist
<1>9. /\ step'.at = "first" => step.index + 1 < N /\ step'.index = step.index + 1
      /\ step.index + 1 < N => step'.at = "first" /\ step'.index = step.index + 1
  BY <1>1, <1>3, OnFromIs
<1>10. CASE u # t
  <2>1. late'[u] = late[u]
    BY <1>1, <1>4, <1>10
  <2>2. Dist(u, Start) # step.index
    BY <1>2, <1>5, <1>10, DistIs
  <2>3. Place(u)' = Place(u)
    BY <1>1, <1>6, <1>8, <1>9, <2>2 DEF Place
  <2> QED BY <1>1, <2>1, <2>3, TurnKept
<1>11. CASE u = t
  <2>1. Place(u) = Start
    BY <1>1, <1>2, <1>11 DEF Place
  <2>2. Place(u)' = After(Start)
    BY <1>1, <1>2, <1>8, <1>9, <1>11
  <2>3. Turn(u)' <=> late'[u] * ALLOWANCE + Dist(u, After(Start)) <= N - 1
    BY <2>2 DEF Turn, Dist
  <2>4. late[u] * ALLOWANCE + step.index <= N - 1
    BY <1>1, <1>2, <1>11, <2>1 DEF Turn
  <2>5. CASE step.index < ALLOWANCE
    <3>1. late'[u] = 0
      BY <1>1, <1>2, <1>4, <1>11, <2>5, ShareOfFew
    <3>2. 0 * ALLOWANCE = 0
      BY <1>1
    <3> QED BY <1>1, <1>6, <2>3, <3>1, <3>2
  <2>6. CASE ~(step.index < ALLOWANCE)
    <3>1. late'[u] = late[u] + 1
      BY <1>1, <1>2, <1>4, <1>11, <2>6, ShareOfFew
    <3>2. late'[u] * ALLOWANCE = late[u] * ALLOWANCE + ALLOWANCE /\ late[u] * ALLOWANCE \in Int
      BY <1>1, <3>1, Times
    <3>3. Dist(u, After(Start)) = step.index - ALLOWANCE
      BY <1>1, <1>2, <1>6, <1>11, <2>6
    <3> QED BY <1>1, <2>3, <2>4, <3>2, <3>3
  <2> QED BY <2>5, <2>6
<1> QED BY <1>10, <1>11

LEMMA RotationStep ==
  ASSUME Strides = {1}, Rotation, BudgetTypes', [BudgetNext]_budgetVars
  PROVE  Rotation'
<1>1. /\ BudgetTypes /\ late \in [Tenants -> Nat] /\ step.index \in Nat
      /\ ALLOWANCE >= N => \A t \in Tenants : late[t] = 0
      /\ Few => \A t \in Tenants : Turn(t)
  BY BudgetTypesAre DEF Rotation
<1>2. SUFFICES (ALLOWANCE >= N => \A t \in Tenants : late'[t] = 0) /\ (Few => \A t \in Tenants : Turn(t)')
  BY DEF Rotation, Few, Tenants
<1>3. CASE FirstPass
  <2>1. ASSUME ALLOWANCE >= N PROVE \A t \in Tenants : late'[t] = 0
    <3>1. ShareOf(step.index) > 0
      BY <1>1, <2>1, ShareOfMany
    <3>2. late' = [late EXCEPT ![Served(step.index)] = 0]
      BY <1>3, <3>1 DEF FirstPass
    <3> QED BY <1>1, <2>1, <3>2
  <2> QED BY <1>3, <2>1, FirstTurn
<1>4. CASE late' = late /\ minute' = minute /\ step.at # "first" /\ step'.at # "first"
  <2>1. Start' = Start /\ After(Start)' = After(Start)
    BY <1>4 DEF Start, Stride, After
  <2>2. \A t \in Tenants : Place(t)' = Place(t)
    BY <1>4, <2>1 DEF Place
  <2> QED BY <1>1, <1>4, <2>2, TurnKept
<1>5. CASE late' = late /\ minute' = minute /\ step' = step
  <2>1. Start' = Start /\ After(Start)' = After(Start)
    BY <1>5 DEF Start, Stride, After
  <2>2. \A t \in Tenants : Place(t)' = Place(t)
    BY <1>5, <2>1 DEF Place, Dist
  <2> QED BY <1>1, <1>5, <2>2, TurnKept
<1>6. CASE NextMinute
  <2>1. minute' = (minute + 1) % N /\ late' = late /\ step = Between /\ step' = [at |-> "first", index |-> 0]
    BY <1>6 DEF NextMinute
  <2>2. ASSUME Few, NEW t \in Tenants PROVE Turn(t)'
    <3>1. Start' = After(Start) /\ Start' \in Tenants
      BY <1>1, <2>1, <2>2, StartMoves, StartIs, AfterIs
    <3>2. Dist(t, Start') \in 0 .. N - 1
      BY <3>1, DistIs
    <3>3. Place(t)' = Start'
      <4>1. step'.at = "first" /\ step'.index = 0 /\ Dist(t, Start') >= 0
        BY <2>1, <3>2, BudgetConstants
      <4> QED BY <4>1 DEF Place, Dist
    <3>4. Place(t) = After(Start)
      BY <2>1 DEF Place, Between
    <3> QED BY <1>1, <2>1, <2>2, <3>1, <3>3, <3>4, TurnKept
  <2> QED BY <1>1, <2>1, <2>2
<1>7. ASSUME SparePass PROVE late' = late /\ minute' = minute /\ step.at # "first" /\ step'.at # "first"
  <2>1. PICK left : OnFrom(left)
    BY <1>7, Zenon DEF SparePass
  <2> QED BY <1>1, <1>7, <2>1, OnFromIs DEF SparePass
<1>8. ASSUME NEW t \in Tenants, Ask(t) PROVE late' = late /\ minute' = minute /\ step' = step
  BY <1>8 DEF Ask
<1> QED BY <1>3, <1>4, <1>5, <1>6, <1>7, <1>8 DEF BudgetNext, budgetVars

(* The rotation of deliver_all_tenants, with a pass in every minute: an    *)
(* organization is without a share of its own for at most (N - 1) \div     *)
(* ALLOWANCE passes, whatever the number of organizations and the          *)
(* allowance.                                                              *)
THEOREM SharesTheorem ==
  ASSUME Strides = {1} PROVE BudgetSpec => []SharesGoRound
<1>1. ASSUME BudgetInit PROVE Rotation
  <2>1. BudgetTypes /\ (\A t \in Tenants : late[t] = 0) /\ step.at = "wait"
    BY <1>1, BudgetInit1 DEF BudgetInit, Between
  <2>2. ASSUME Few, NEW t \in Tenants PROVE Turn(t)
    <3>1. After(Start) \in Tenants
      BY <2>1, <2>2, StartIs, AfterIs
    <3>2. Dist(t, After(Start)) \in 0 .. N - 1
      BY <3>1, DistIs
    <3>3. Place(t) = After(Start) /\ late[t] * ALLOWANCE = 0
      BY <2>1, BudgetConstants DEF Place
    <3> QED BY <3>2, <3>3, BudgetConstants DEF Turn
  <2> QED BY <2>1, <2>2 DEF Rotation
<1>2. ASSUME Rotation PROVE SharesGoRound
  <2> SUFFICES ASSUME ALLOWANCE > 0, NEW t \in Tenants PROVE late[t] <= (N - 1) \div ALLOWANCE
    BY DEF SharesGoRound
  <2>1. N - 1 \in Nat /\ ALLOWANCE \in Nat \ {0} /\ late[t] \in Nat
    BY <1>2, BudgetConstants, BudgetTypesAre DEF Rotation
  <2>2. CASE ALLOWANCE >= N
    <3>1. late[t] = 0 /\ (N - 1) \div ALLOWANCE \in Nat
      BY <1>2, <2>1, <2>2, DivMod DEF Rotation
    <3> QED BY <3>1
  <2>3. CASE ~(ALLOWANCE >= N)
    <3>1. Few
      BY <2>1, <2>3, BudgetConstants DEF Few
    <3>2. Turn(t) /\ Start \in Tenants /\ After(Start) \in Tenants
      BY <1>2, <3>1, StartIs, AfterIs DEF Rotation
    <3>3. Place(t) \in Tenants
      BY <3>2 DEF Place
    <3>4. Dist(t, Place(t)) \in Nat
      BY <3>3, DistIs
    <3>5. late[t] * ALLOWANCE \in Int
      BY <2>1
    <3>6. late[t] * ALLOWANCE <= N - 1
      BY <2>1, <3>2, <3>4, <3>5 DEF Turn
    <3> QED BY <2>1, <3>6, UpToDiv
  <2> QED BY <2>2, <2>3
<1>3. BudgetTypes /\ SharesLeft /\ Rotation /\ [BudgetNext]_budgetVars => (BudgetTypes /\ SharesLeft /\ Rotation)'
  BY BudgetStep, RotationStep
<1> QED BY <1>1, <1>2, <1>3, BudgetInit1, PTL DEF BudgetSpec
=============================================================================
