---------------------------- MODULE ReportProofs ----------------------------
(* Invariance proofs for reports: their generation, for any number of runs,*)
(* people, organizations and schedulers, and the notes on a saved one, for *)
(* any number of readers and sweeps.                                       *)
EXTENDS ReportRuns, SavedReports, TLAPS

(***************************************************************************)
(* Runs.                                                                   *)
(***************************************************************************)

RunRow == [st : {"absent", "pending", "running"} \cup EndedRun, by : People \cup {NoPerson}, old : BOOLEAN]
Pass   == [at : {"idle", "visit", "claim", "generate"}, org : Nat,
           rows : SUBSET Runs, run : Runs \cup {NoRun}, done : 0 .. MAX_JOBS]

RunsOK   == report \in [Runs -> RunRow]
PassesOK == gen \in [Generators -> Pass]
ReportTyped    == RunsOK /\ asker \in [Askers -> BOOLEAN] /\ PassesOK

(* A pass that generates has a run, and can count it.                      *)
PassesBusy == \A g \in Generators :
          /\ gen[g].at = "generate" <=> gen[g].run # NoRun
          /\ gen[g].at \in {"claim", "generate"} => gen[g].done < MAX_JOBS

(* A run that was taken is not pending again.                              *)
Taken == \A g \in Generators :
           gen[g].run # NoRun => report[gen[g].run].st \in {"running"} \cup EndedRun

LEMMA RestingIs == Resting \in Pass /\ Resting.at = "idle" /\ Resting.run = NoRun /\ Resting.done = 0
BY ReportAssumption DEF Resting, Pass, NoRun

(* What the steps of a pass do to the pass and to the runs.                *)
LEMMA ListIs ==
  ASSUME ReportTyped, NEW g \in Generators, List(g)
  PROVE  /\ gen'[g] \in Pass /\ gen'[g].at = "claim" /\ gen'[g].run = gen[g].run
         /\ gen[g].at = "visit" /\ gen'[g].done = gen[g].done /\ gen[g].done < MAX_JOBS
         /\ gen' = [gen EXCEPT ![g] = gen'[g]]
         /\ report' \in [Runs -> RunRow]
         /\ \A r \in Runs : \/ report'[r] = report[r]
                            \/ report[r].st = "running" /\ report'[r].st = "failed"
<1> USE DEF ReportTyped, RunsOK, PassesOK
<1>0. FirstPending(gen[g].org) \subseteq Runs
  BY DEF FirstPending, PendingIn
<1>1. /\ gen'[g] \in Pass /\ gen'[g].at = "claim" /\ gen'[g].run = gen[g].run
      /\ gen[g].at = "visit" /\ gen'[g].done = gen[g].done /\ gen[g].done < MAX_JOBS
  BY <1>0 DEF List, Pass
<1>2. gen' = [gen EXCEPT ![g] = gen'[g]]
  BY DEF List
<1>3. \A r \in Runs : report'[r] = IF TimedOut(r, gen[g].org) THEN [report[r] EXCEPT !.st = "failed"]
                                   ELSE report[r]
  BY DEF List
<1>4. \A r \in Runs : /\ report'[r] \in RunRow
                      /\ \/ report'[r] = report[r]
                         \/ report[r].st = "running" /\ report'[r].st = "failed"
  BY <1>3 DEF TimedOut, RunRow, EndedRun
<1>5. report' \in [Runs -> RunRow]
  BY <1>4 DEF List
<1> QED BY <1>1, <1>2, <1>4, <1>5

LEMMA TakeRunIs ==
  ASSUME ReportTyped, NEW g \in Generators, TakeRun(g)
  PROVE  \E r \in Runs :
           /\ gen[g].at = "claim" /\ gen'[g] \in Pass /\ gen' = [gen EXCEPT ![g] = gen'[g]]
           /\ gen'[g].done = gen[g].done
           /\ \/ /\ report[r].st = "pending" /\ report'[r] \in RunRow /\ report'[r].st = "running"
                 /\ report' = [report EXCEPT ![r] = report'[r]]
                 /\ gen'[g].at = "generate" /\ gen'[g].run = r
              \/ /\ report' = report
                 /\ gen'[g].at = "claim" /\ gen'[g].run = gen[g].run
<1> USE DEF ReportTyped, RunsOK, PassesOK
<1>1. PICK r \in Runs :
        IF MayTake(r)
        THEN /\ report' = [report EXCEPT ![r].st = "running", ![r].old = FALSE]
             /\ gen' = [gen EXCEPT ![g].at = "generate", ![g].rows = {}, ![g].run = r]
        ELSE /\ gen' = [gen EXCEPT ![g].rows = @ \ {r}]
             /\ UNCHANGED report
  BY DEF TakeRun, Pass
<1>2. CASE MayTake(r)
  <2>1. report[r].st = "pending" /\ report'[r] \in RunRow /\ report'[r].st = "running"
    BY <1>1, <1>2 DEF MayTake, RunRow
  <2>2. report' = [report EXCEPT ![r] = report'[r]]
    BY <1>1, <1>2
  <2>3. /\ gen'[g] \in Pass /\ gen'[g].at = "generate" /\ gen'[g].run = r
        /\ gen'[g].done = gen[g].done
    BY <1>1, <1>2 DEF Pass
  <2>4. gen' = [gen EXCEPT ![g] = gen'[g]]
    BY <1>1, <1>2
  <2> QED BY <2>1, <2>2, <2>3, <2>4 DEF TakeRun
<1>3. CASE ~MayTake(r)
  <2>1. gen'[g] \in Pass /\ gen'[g].at = gen[g].at /\ gen'[g].run = gen[g].run /\ gen'[g].done = gen[g].done
    BY <1>1, <1>3 DEF Pass
  <2>2. gen' = [gen EXCEPT ![g] = gen'[g]] /\ report' = report
    BY <1>1, <1>3
  <2> QED BY <2>1, <2>2 DEF TakeRun
<1> QED BY <1>2, <1>3

LEMMA FinishIs ==
  ASSUME ReportTyped, PassesBusy, NEW g \in Generators, SaveRun(g) \/ FailRun(g)
  PROVE  /\ gen'[g] \in Pass /\ gen'[g].at = "visit" /\ gen'[g].run = NoRun
         /\ gen' = [gen EXCEPT ![g] = gen'[g]] /\ asker' = asker
         /\ gen[g].run \in Runs
         /\ \/ report' = report
            \/ /\ report[gen[g].run].st = "running"
               /\ report'[gen[g].run].st \in EndedRun /\ report'[gen[g].run] \in RunRow
               /\ report' = [report EXCEPT ![gen[g].run] = report'[gen[g].run]]
<1> USE DEF ReportTyped, RunsOK, PassesOK
<1>1. PICK st \in EndedRun : gen[g].at = "generate" /\ Finish(g, st)
  BY DEF SaveRun, FailRun, EndedRun
<1>2. gen[g].run \in Runs /\ gen[g].done \in 0 .. MAX_JOBS /\ gen[g].done < MAX_JOBS /\ gen[g].org \in Nat
  BY <1>1 DEF PassesBusy, Pass
<1>3. gen[g].done + 1 \in 0 .. MAX_JOBS /\ gen[g].org + 1 \in Nat
  BY <1>2, ReportAssumption
<1>4. gen'[g] = [Resting EXCEPT !.at = "visit", !.org = gen[g].org + 1, !.done = gen[g].done + 1]
      /\ gen' = [gen EXCEPT ![g] = gen'[g]]
  BY <1>1 DEF Finish
<1>5. gen'[g] = [at |-> "visit", org |-> gen[g].org + 1, rows |-> {}, run |-> NoRun, done |-> gen[g].done + 1]
  BY <1>4 DEF Resting
<1>6. gen'[g] \in Pass /\ gen'[g].at = "visit" /\ gen'[g].run = NoRun
  BY <1>3, <1>5 DEF Pass
<1>7. CASE StillRunning(gen[g].run)
  <2>1. report' = [report EXCEPT ![gen[g].run].st = st]
    BY <1>1, <1>7 DEF Finish
  <2>2. report'[gen[g].run].st = st /\ report'[gen[g].run] \in RunRow
    BY <1>2, <2>1 DEF RunRow
  <2>3. report' = [report EXCEPT ![gen[g].run] = report'[gen[g].run]]
    BY <1>2, <2>1
  <2> QED BY <1>1, <1>2, <1>4, <1>6, <1>7, <2>2, <2>3 DEF StillRunning, Finish
<1>8. CASE ~StillRunning(gen[g].run)
  BY <1>1, <1>2, <1>4, <1>6, <1>8 DEF Finish
<1> QED BY <1>7, <1>8

(* The other steps of a pass leave the runs alone.                         *)
LEMMA MoveIs ==
  ASSUME ReportTyped, NEW g \in Generators, StartPass(g) \/ NextOrg(g) \/ EndPass(g) \/ GeneratorDies(g)
  PROVE  /\ gen'[g] \in Pass /\ gen' = [gen EXCEPT ![g] = gen'[g]]
         /\ gen'[g].at \in {"idle", "visit"}
         /\ gen'[g].run = NoRun \/ (gen[g].at = "claim" /\ gen'[g].run = gen[g].run)
         /\ UNCHANGED <<report, asker>>
<1> USE DEF ReportTyped, PassesOK
<1>1. CASE StartPass(g)
  <2>1. gen'[g] = [at |-> "visit", org |-> 1, rows |-> {}, run |-> NoRun, done |-> 0]
    BY <1>1 DEF StartPass, Resting
  <2>2. gen' = [gen EXCEPT ![g] = gen'[g]] /\ UNCHANGED <<report, asker>>
    BY <1>1 DEF StartPass
  <2>3. gen'[g] \in Pass
    BY <2>1, ReportAssumption DEF Pass
  <2>4. gen'[g].at = "visit" /\ gen'[g].run = NoRun
    BY <2>1
  <2> QED BY <2>2, <2>3, <2>4
<1>2. CASE NextOrg(g)
  <2>1. /\ gen'[g] = [at |-> "visit", org |-> gen[g].org + 1, rows |-> gen[g].rows,
                      run |-> gen[g].run, done |-> gen[g].done]
        /\ gen' = [gen EXCEPT ![g] = gen'[g]]
    BY <1>2 DEF NextOrg, Pass
  <2>2. gen[g].org + 1 \in Nat
    BY DEF Pass
  <2>3. gen'[g] \in Pass /\ gen'[g].at = "visit" /\ gen'[g].run = gen[g].run
    BY <2>1, <2>2 DEF Pass
  <2> QED BY <1>2, <2>1, <2>3 DEF NextOrg
<1>3. CASE EndPass(g) \/ GeneratorDies(g)
  <2>1. gen' = [gen EXCEPT ![g] = Resting] /\ UNCHANGED <<report, asker>>
    BY <1>3 DEF EndPass, GeneratorDies
  <2>2. gen'[g] = Resting
    BY <2>1
  <2>3. gen'[g] \in Pass /\ gen'[g].at = "idle" /\ gen'[g].run = NoRun
    BY <2>2, RestingIs
  <2>4. gen' = [gen EXCEPT ![g] = gen'[g]]
    BY <2>1, <2>2
  <2> QED BY <2>1, <2>3, <2>4
<1> QED BY <1>1, <1>2, <1>3

(* A request inserts a run nobody has.                                     *)
LEMMA InsertIs ==
  ASSUME ReportTyped, NEW a \in Askers, InsertRun(a)
  PROVE  \E r \in Runs : /\ report[r].st = "absent" /\ report' = [report EXCEPT ![r] = report'[r]]
                         /\ report'[r] \in RunRow /\ gen' = gen
<1>1. PICK r \in Runs :
        /\ report[r].st = "absent"
        /\ report' = [report EXCEPT ![r] = [st |-> "pending", by |-> Person[a], old |-> FALSE]]
  BY DEF InsertRun
<1>2. report'[r] = [st |-> "pending", by |-> Person[a], old |-> FALSE] /\ Person[a] \in People
  BY <1>1, ReportAssumption DEF ReportTyped, RunsOK
<1>3. report'[r] \in RunRow
  BY <1>2 DEF RunRow
<1>4. report' = [report EXCEPT ![r] = report'[r]]
  BY <1>1, <1>2
<1> QED BY <1>1, <1>3, <1>4 DEF InsertRun

ReportInv == ReportTyped /\ PassesBusy /\ Taken /\ EachRunGeneratedOnce

LEMMA ReportKept == ReportInv /\ [ReportNext]_reportVars => ReportInv'
<1> SUFFICES ASSUME ReportInv, [ReportNext]_reportVars PROVE ReportInv'
  OBVIOUS
<1> USE DEF ReportInv
<1>1. ASSUME gen' = gen, asker' \in [Askers -> BOOLEAN], report' \in [Runs -> RunRow],
             \A r \in Runs : report[r].st \in {"running"} \cup EndedRun => report'[r].st \in {"running"} \cup EndedRun
      PROVE  ReportInv'
  <2>1. ReportTyped' /\ PassesBusy' /\ EachRunGeneratedOnce'
    BY <1>1 DEF ReportTyped, RunsOK, PassesOK, PassesBusy, EachRunGeneratedOnce
  <2>2. \A g \in Generators : gen[g].run \in Runs \cup {NoRun}
    BY DEF ReportTyped, PassesOK, Pass
  <2>3. Taken'
    BY <1>1, <2>2 DEF Taken
  <2> QED BY <2>1, <2>3
(* One pass moves; what it holds it held before, or it is a run nobody     *)
(* could have taken before.                                                *)
<1>2. ASSUME NEW g \in Generators, gen'[g] \in Pass, gen' = [gen EXCEPT ![g] = gen'[g]],
             asker' = asker, report' \in [Runs -> RunRow],
             \A r \in Runs : report[r].st \in {"running"} \cup EndedRun => report'[r].st \in {"running"} \cup EndedRun,
             gen'[g].at = "generate" <=> gen'[g].run # NoRun,
             gen'[g].at \in {"claim", "generate"} => gen'[g].done < MAX_JOBS,
             gen'[g].run # NoRun /\ gen'[g].run # gen[g].run =>
               report[gen'[g].run].st = "pending" /\ report'[gen'[g].run].st = "running"
      PROVE  ReportInv'
  <2>1. \A h \in Generators \ {g} : gen'[h] = gen[h]
    BY <1>2 DEF ReportTyped, PassesOK
  <2>2. ReportTyped'
    BY <1>2 DEF ReportTyped, RunsOK, PassesOK
  <2>3. PassesBusy'
    BY <1>2, <2>1 DEF PassesBusy
  <2>4. \A h \in Generators : gen[h].run \in Runs \cup {NoRun}
    BY DEF ReportTyped, PassesOK, Pass
  <2>5. Taken'
    BY <1>2, <2>1, <2>4 DEF Taken
  <2>6. \A h \in Generators \ {g} : gen'[g].run # NoRun => gen'[g].run # gen[h].run
    BY <1>2, <2>4 DEF Taken, EndedRun, EachRunGeneratedOnce
  <2>7. EachRunGeneratedOnce'
    BY <2>1, <2>6 DEF EachRunGeneratedOnce
  <2> QED BY <2>2, <2>3, <2>5, <2>7
<1>3. ASSUME NEW a \in Askers, CountQueued(a) \/ InsertRun(a) PROVE ReportInv'
  <2>1. asker' \in [Askers -> BOOLEAN]
    BY <1>3 DEF CountQueued, InsertRun, ReportTyped
  <2>2. CASE CountQueued(a)
    BY <1>1, <2>1, <2>2 DEF CountQueued, ReportTyped, RunsOK
  <2>3. CASE InsertRun(a)
    BY <1>1, <2>1, <2>3, InsertIs DEF ReportTyped, RunsOK, EndedRun
  <2> QED BY <1>3, <2>2, <2>3
<1>4. ASSUME NEW g \in Generators, List(g) PROVE ReportInv'
  <2>1. asker' = asker /\ gen'[g].run = NoRun
    BY <1>4, ListIs DEF List, PassesBusy
  <2> QED BY <1>2, <1>4, <2>1, ListIs DEF EndedRun
<1>5. ASSUME NEW g \in Generators, TakeRun(g) PROVE ReportInv'
  <2>1. PICK r \in Runs :
           /\ gen[g].at = "claim" /\ gen'[g] \in Pass /\ gen' = [gen EXCEPT ![g] = gen'[g]]
           /\ gen'[g].done = gen[g].done
           /\ \/ /\ report[r].st = "pending" /\ report'[r] \in RunRow /\ report'[r].st = "running"
                 /\ report' = [report EXCEPT ![r] = report'[r]]
                 /\ gen'[g].at = "generate" /\ gen'[g].run = r
              \/ /\ report' = report
                 /\ gen'[g].at = "claim" /\ gen'[g].run = gen[g].run
    BY <1>5, TakeRunIs
  <2>2. r # NoRun /\ asker' = asker /\ gen[g].run = NoRun /\ gen[g].done < MAX_JOBS
    BY <1>5, <2>1, ReportAssumption DEF NoRun, TakeRun, PassesBusy
  <2>3. CASE report[r].st = "pending" /\ report'[r] \in RunRow /\ report'[r].st = "running"
             /\ report' = [report EXCEPT ![r] = report'[r]] /\ gen'[g].at = "generate" /\ gen'[g].run = r
    <3>1. \A q \in Runs \ {r} : report'[q] = report[q]
      BY <2>3 DEF ReportTyped, RunsOK
    <3>2. report' \in [Runs -> RunRow]
      BY <2>3 DEF ReportTyped, RunsOK
    <3> QED BY <1>2, <2>1, <2>2, <2>3, <3>1, <3>2
  <2>4. CASE report' = report /\ gen'[g].at = "claim" /\ gen'[g].run = gen[g].run
    <3>1. report' \in [Runs -> RunRow]
      BY <2>4 DEF ReportTyped, RunsOK
    <3> QED BY <1>2, <2>1, <2>2, <2>4, <3>1
  <2> QED BY <2>1, <2>3, <2>4
<1>6. ASSUME NEW g \in Generators, SaveRun(g) \/ FailRun(g) PROVE ReportInv'
  <2>1. /\ report' \in [Runs -> RunRow]
        /\ \A r \in Runs : report[r].st \in {"running"} \cup EndedRun => report'[r].st \in {"running"} \cup EndedRun
    BY <1>6, FinishIs DEF ReportTyped, RunsOK
  <2> QED BY <1>2, <1>6, <2>1, FinishIs
<1>7. ASSUME NEW g \in Generators, StartPass(g) \/ NextOrg(g) \/ EndPass(g) \/ GeneratorDies(g) PROVE ReportInv'
  <2>1. gen'[g].run = NoRun
    BY <1>7, MoveIs DEF PassesBusy
  <2>2. report' \in [Runs -> RunRow]
    BY <1>7, MoveIs DEF ReportTyped, RunsOK
  <2> QED BY <1>2, <1>7, <2>1, <2>2, MoveIs
<1>8. ASSUME NEW r \in Runs, GrowOld(r) PROVE ReportInv'
  <2>1. /\ report' \in [Runs -> RunRow]
        /\ \A q \in Runs : report'[q].st = report[q].st
    BY <1>8 DEF GrowOld, ReportTyped, RunsOK, RunRow
  <2> QED BY <1>1, <1>8, <2>1 DEF GrowOld, ReportTyped
<1>9. CASE UNCHANGED reportVars
  BY <1>1, <1>9 DEF reportVars, ReportTyped, RunsOK
<1> QED BY <1>3, <1>4, <1>5, <1>6, <1>7, <1>8, <1>9 DEF ReportNext, Visit

LEMMA ReportStart == ReportInit => ReportInv
<1> SUFFICES ASSUME ReportInit PROVE ReportInv
  OBVIOUS
<1>1. ReportTyped
  BY RestingIs DEF ReportInit, ReportTyped, RunsOK, RunRow, PassesOK
<1>2. PassesBusy /\ Taken /\ EachRunGeneratedOnce
  BY RestingIs DEF ReportInit, PassesBusy, Taken, EachRunGeneratedOnce
<1> QED BY <1>1, <1>2 DEF ReportInv

(* Type correctness of the runs, the calls and the passes.                 *)
THEOREM ReportTypesTheorem == ReportSpec => []ReportTypes
<1>1. ReportInv => ReportTypes
  BY DEF ReportInv, ReportTyped, RunsOK, PassesOK, RunRow, Pass, ReportTypes
<1> QED BY <1>1, ReportStart, ReportKept, PTL DEF ReportSpec

(* No two schedulers generate one run, also when one was declared dead.    *)
THEOREM GeneratedOnceTheorem == ReportSpec => []EachRunGeneratedOnce
<1>1. ReportInv => EachRunGeneratedOnce
  BY DEF ReportInv
<1> QED BY <1>1, ReportStart, ReportKept, PTL DEF ReportSpec

(* A run that has ended stays as it ended.                                 *)
THEOREM EndedRunTheorem == ReportSpec => EndedRunStays
<1> DEFINE Stays == \A r \in Runs : report[r].st \in EndedRun => report'[r] = report[r]
<1>1. ReportInv /\ [ReportNext]_reportVars => [Stays]_reportVars
  <2> SUFFICES ASSUME ReportInv, ReportNext PROVE Stays
    OBVIOUS
  <2> USE DEF ReportInv
  <2>1. ASSUME NEW a \in Askers, InsertRun(a) PROVE Stays
    BY <2>1, InsertIs DEF ReportTyped, RunsOK, EndedRun
  <2>2. ASSUME NEW g \in Generators, List(g) PROVE Stays
    BY <2>2, ListIs DEF EndedRun
  <2>3. ASSUME NEW g \in Generators, TakeRun(g) PROVE Stays
    BY <2>3, TakeRunIs DEF ReportTyped, RunsOK, EndedRun
  <2>4. ASSUME NEW g \in Generators, SaveRun(g) \/ FailRun(g) PROVE Stays
    BY <2>4, FinishIs DEF ReportTyped, RunsOK, EndedRun
  <2>5. ASSUME NEW r \in Runs, GrowOld(r) PROVE Stays
    BY <2>5 DEF GrowOld, ReportTyped, RunsOK, EndedRun
  <2>6. ASSUME NEW g \in Generators, StartPass(g) \/ NextOrg(g) \/ EndPass(g) \/ GeneratorDies(g) PROVE Stays
    BY <2>6, MoveIs
  <2>7. ASSUME NEW a \in Askers, CountQueued(a) PROVE Stays
    BY <2>7 DEF CountQueued
  <2> HIDE DEF Stays
  <2> QED BY <2>1, <2>2, <2>3, <2>4, <2>5, <2>6, <2>7 DEF ReportNext, Visit
<1> QED BY <1>1, ReportStart, ReportKept, PTL DEF ReportSpec, EndedRunStays

-----------------------------------------------------------------------------
(***************************************************************************)
(* A saved report: its notes, its sign-off and its purge.                  *)
(***************************************************************************)

SavedRow == [st : {"absent", "completed", "purged"}, date : {"none", "later", "passed"},
             hold : BOOLEAN, shared : BOOLEAN]
NoteRow == [st : {"free", "inserted", "stored", "gone"}, run : Reports \cup {NoReport}]
Ids == Notes \cup {0, Unsigned}
ReaderRec == [at : {"away", "open", "signing", "noting"}, run : Reports \cup {NoReport}, last : Ids]

SavedOK  == saved \in [Reports -> SavedRow]
NotesOK  == notes \in [Notes -> NoteRow] /\ sign \in [Reports -> Ids]
ReaderOK == reader \in [Readers -> ReaderRec]
DueOK    == due \in [RSweepers -> SUBSET Reports]

(* Whose note is inserted, and to what report.                             *)
ReaderWorks(p) ==
  /\ reader[p].at # "away" => reader[p].run \in Reports
  /\ reader[p].at = "noting" =>
       /\ reader[p].last \in Notes /\ notes[reader[p].last].st # "free"
       /\ notes[reader[p].last].run = reader[p].run

SavedTyped == SavedOK /\ NotesOK /\ ReaderOK /\ DueOK /\ \A p \in Readers : ReaderWorks(p)

LEMMA AwayIs == Away \in ReaderRec /\ Away.at = "away"
BY DEF Away, ReaderRec, NoReport, Unsigned, Ids

(* One row of report_runs is written.                                      *)
LEMMA RowIs ==
  ASSUME SavedOK, NEW r \in Reports
  PROVE  /\ saved[r] \in SavedRow
         /\ Store(r) => /\ saved' = [saved EXCEPT ![r] = saved'[r]] /\ saved'[r] \in SavedRow
                        /\ saved[r].st = "absent" /\ saved'[r].st = "completed"
         /\ DeletionDatePasses(r) =>
              /\ saved' = [saved EXCEPT ![r] = saved'[r]] /\ saved'[r] \in SavedRow
              /\ saved'[r].st = saved[r].st /\ saved'[r].hold = saved[r].hold
              /\ saved'[r].shared = saved[r].shared /\ saved'[r].date = "passed"
<1>1. saved[r] \in SavedRow
  BY DEF SavedOK
<1>2. ASSUME Store(r)
      PROVE  /\ saved' = [saved EXCEPT ![r] = saved'[r]] /\ saved'[r] \in SavedRow
             /\ saved[r].st = "absent" /\ saved'[r].st = "completed"
  <2>1. saved' = [saved EXCEPT ![r].st = "completed", ![r].date = "later"]
    BY <1>2 DEF Store
  <2>2. saved'[r] = [st |-> "completed", date |-> "later", hold |-> saved[r].hold, shared |-> saved[r].shared]
    BY <1>1, <2>1 DEF SavedOK, SavedRow
  <2>3. saved' = [saved EXCEPT ![r] = saved'[r]]
    BY <2>1 DEF SavedOK
  <2> QED BY <1>1, <1>2, <2>2, <2>3 DEF Store, SavedRow
<1>3. ASSUME DeletionDatePasses(r)
      PROVE  /\ saved' = [saved EXCEPT ![r] = saved'[r]] /\ saved'[r] \in SavedRow
             /\ saved'[r].st = saved[r].st /\ saved'[r].hold = saved[r].hold
             /\ saved'[r].shared = saved[r].shared /\ saved'[r].date = "passed"
  <2>1. saved' = [saved EXCEPT ![r].date = "passed"]
    BY <1>3 DEF DeletionDatePasses
  <2>2. saved'[r] = [st |-> saved[r].st, date |-> "passed", hold |-> saved[r].hold, shared |-> saved[r].shared]
    BY <1>1, <2>1 DEF SavedOK, SavedRow
  <2>3. saved' = [saved EXCEPT ![r] = saved'[r]]
    BY <2>1 DEF SavedOK
  <2> QED BY <1>1, <2>2, <2>3 DEF SavedRow
<1> QED BY <1>1, <1>2, <1>3

(* What a request writes to the row of the report it has open.             *)
LEMMA RequestIs ==
  ASSUME SavedOK, ReaderOK, NEW p \in Readers, ReaderWorks(p), ShareReport(p) \/ SetRetention(p)
  PROVE  LET r == reader[p].run IN
         /\ reader[p].at = "open" /\ r \in Reports
         /\ saved' = [saved EXCEPT ![r] = saved'[r]] /\ saved'[r] \in SavedRow /\ saved'[r].st = saved[r].st
         /\ reader' = [reader EXCEPT ![p] = Away] /\ UNCHANGED <<notes, sign, due>>
<1> DEFINE r == reader[p].run
<1>1. reader[p].at = "open" /\ r \in Reports /\ saved[r] \in SavedRow
  BY DEF ShareReport, SetRetention, ReaderWorks, SavedOK
<1>2. reader' = [reader EXCEPT ![p] = Away] /\ UNCHANGED <<notes, sign, due>>
  BY DEF ShareReport, SetRetention
<1>3. CASE ShareReport(p)
  <2>1. PICK on \in BOOLEAN : saved' = [saved EXCEPT ![r].shared = on]
    BY <1>3 DEF ShareReport
  <2>2. saved'[r] = [st |-> saved[r].st, date |-> saved[r].date, hold |-> saved[r].hold, shared |-> on]
    BY <1>1, <2>1 DEF SavedOK, SavedRow
  <2>3. saved' = [saved EXCEPT ![r] = saved'[r]]
    BY <1>1, <2>1 DEF SavedOK
  <2> HIDE DEF r
  <2>4. saved'[r] \in SavedRow /\ saved'[r].st = saved[r].st
    BY <1>1, <2>2 DEF SavedRow
  <2> QED BY <1>1, <1>2, <2>3, <2>4 DEF r
<1>4. CASE SetRetention(p)
  <2>1. PICK d \in {"none", "later"}, h \in BOOLEAN : saved' = [saved EXCEPT ![r].date = d, ![r].hold = h]
    BY <1>4 DEF SetRetention
  <2>2. saved'[r] = [st |-> saved[r].st, date |-> d, hold |-> h, shared |-> saved[r].shared]
    BY <1>1, <2>1 DEF SavedOK, SavedRow
  <2>3. saved' = [saved EXCEPT ![r] = saved'[r]]
    BY <1>1, <2>1 DEF SavedOK
  <2> HIDE DEF r
  <2>4. saved'[r] \in SavedRow /\ saved'[r].st = saved[r].st
    BY <1>1, <2>2 DEF SavedRow
  <2> QED BY <1>1, <1>2, <2>3, <2>4 DEF r
<1> QED BY <1>3, <1>4

(* Opening a report and reading its notes change nothing but the request.  *)
LEMMA OpenIs ==
  ASSUME ReaderOK, NEW p \in Readers, NEW r \in Reports, Open(p, r)
  PROVE  /\ MayOpen(r) /\ reader' = [reader EXCEPT ![p] = reader'[p]] /\ reader'[p] \in ReaderRec
         /\ reader'[p].at = "open" /\ reader'[p].run = r /\ UNCHANGED <<saved, notes, sign, due>>
<1>1. reader'[p] = [at |-> "open", run |-> r, last |-> Unsigned]
  BY DEF Open, Away, ReaderOK
<1>2. reader' = [reader EXCEPT ![p] = reader'[p]]
  BY DEF Open, ReaderOK
<1>3. reader'[p] \in ReaderRec
  BY <1>1 DEF ReaderRec, Unsigned, Ids
<1> QED BY <1>1, <1>2, <1>3 DEF Open

LEMMA ReadNotesIs ==
  ASSUME ReaderOK, NEW p \in Readers, ReaderWorks(p), ReadNotes(p)
  PROVE  /\ reader[p].at = "open" /\ reader' = [reader EXCEPT ![p] = reader'[p]] /\ reader'[p] \in ReaderRec
         /\ reader'[p].at = "signing" /\ reader'[p].run = reader[p].run /\ reader[p].run \in Reports
         /\ UNCHANGED <<saved, notes, sign, due>>
<1>1. reader[p] \in ReaderRec /\ reader[p].at = "open" /\ reader[p].run \in Reports
  BY DEF ReaderOK, ReaderWorks, ReadNotes
<1>2. PICK n \in Notes \cup {0} : reader' = [reader EXCEPT ![p].at = "signing", ![p].last = n]
  BY DEF ReadNotes, NotesOf
<1>3. reader'[p] = [at |-> "signing", run |-> reader[p].run, last |-> n]
  BY <1>1, <1>2 DEF ReaderOK, ReaderRec
<1>4. reader' = [reader EXCEPT ![p] = reader'[p]]
  BY <1>2 DEF ReaderOK
<1>5. reader'[p] \in ReaderRec
  BY <1>1, <1>3 DEF ReaderRec, Ids
<1> QED BY <1>1, <1>3, <1>4, <1>5 DEF ReadNotes

(* A note takes an id nobody has, is inserted, and then stored or lost.    *)
LEMMA InsertNoteIs ==
  ASSUME ReaderOK, NotesOK, NEW p \in Readers, ReaderWorks(p), InsertNote(p)
  PROVE  \E n \in Notes :
           /\ reader[p].at = "open" /\ reader[p].run \in Reports /\ notes[n].st = "free"
           /\ notes' = [notes EXCEPT ![n] = notes'[n]] /\ notes'[n] \in NoteRow
           /\ notes'[n].st = "inserted" /\ notes'[n].run = reader[p].run
           /\ reader' = [reader EXCEPT ![p] = reader'[p]] /\ reader'[p] \in ReaderRec
           /\ reader'[p].at = "noting" /\ reader'[p].run = reader[p].run /\ reader'[p].last = n
           /\ UNCHANGED <<saved, sign, due>>
<1>1. reader[p] \in ReaderRec /\ reader[p].at = "open" /\ reader[p].run \in Reports
  BY DEF ReaderOK, ReaderWorks, InsertNote
<1>2. PICK n \in Notes : /\ notes[n].st = "free"
                         /\ notes' = [notes EXCEPT ![n] = [st |-> "inserted", run |-> reader[p].run]]
                         /\ reader' = [reader EXCEPT ![p].at = "noting", ![p].last = n]
  BY DEF InsertNote
<1>3. /\ notes'[n] = [st |-> "inserted", run |-> reader[p].run]
      /\ notes' = [notes EXCEPT ![n] = notes'[n]]
  BY <1>2 DEF NotesOK
<1>4. notes'[n] \in NoteRow /\ notes'[n].st = "inserted" /\ notes'[n].run = reader[p].run
  BY <1>1, <1>3 DEF NoteRow
<1>5. /\ reader'[p] = [at |-> "noting", run |-> reader[p].run, last |-> n]
      /\ reader' = [reader EXCEPT ![p] = reader'[p]]
  BY <1>1, <1>2 DEF ReaderOK, ReaderRec
<1>6. reader'[p] \in ReaderRec
  BY <1>1, <1>5 DEF ReaderRec, Ids
<1>7. reader'[p].at = "noting" /\ reader'[p].run = reader[p].run /\ reader'[p].last = n
  BY <1>5
<1> QED BY <1>1, <1>2, <1>3, <1>4, <1>5, <1>6, <1>7 DEF InsertNote

LEMMA EndNoteIs ==
  ASSUME ReaderOK, NotesOK, NEW p \in Readers, ReaderWorks(p), EndNote(p)
  PROVE  LET n == reader[p].last IN
         /\ reader[p].at = "noting" /\ n \in Notes /\ notes[n].run = reader[p].run /\ reader[p].run \in Reports
         /\ notes' = [notes EXCEPT ![n] = notes'[n]] /\ notes'[n] \in NoteRow
         /\ notes'[n].st \in {"stored", "gone"} /\ notes'[n].run = notes[n].run
         /\ reader' = [reader EXCEPT ![p] = Away] /\ UNCHANGED <<saved, sign, due>>
<1> DEFINE n == reader[p].last
<1>1. /\ reader[p].at = "noting" /\ n \in Notes /\ notes[n].run = reader[p].run /\ reader[p].run \in Reports
      /\ notes[n] \in NoteRow
  BY DEF EndNote, ReaderWorks, NotesOK
<1>2. PICK t \in {"stored", "gone"} : notes' = [notes EXCEPT ![n].st = t]
  BY DEF EndNote
<1> HIDE DEF n
<1>3. notes'[n] = [st |-> t, run |-> notes[n].run] /\ notes' = [notes EXCEPT ![n] = notes'[n]]
  BY <1>1, <1>2 DEF NotesOK, NoteRow
<1>4. notes'[n] \in NoteRow /\ notes'[n].st \in {"stored", "gone"} /\ notes'[n].run = notes[n].run
  BY <1>1, <1>2, <1>3 DEF NoteRow
<1> QED BY <1>1, <1>3, <1>4 DEF EndNote, n

(* A purge deletes one report and what it sees beside it.                  *)
LEMMA PurgeIs ==
  ASSUME SavedOK, NotesOK, DueOK, NEW s \in RSweepers, Purge(s)
  PROVE  \E r \in due[s] :
           /\ r \in Reports /\ due' = [due EXCEPT ![s] = due[s] \ {r}] /\ reader' = reader
           /\ \/ UNCHANGED <<saved, notes, sign>>
              \/ /\ saved' = [saved EXCEPT ![r] = saved'[r]] /\ saved'[r] \in SavedRow
                 /\ saved'[r].st = "purged" /\ ~saved'[r].shared
                 /\ notes' \in [Notes -> NoteRow]
                 /\ \A n \in Notes : /\ notes'[n].run = notes[n].run
                                     /\ IF n \in NotesOf(r) THEN notes'[n].st = "gone" ELSE notes'[n] = notes[n]
                 /\ sign' = [sign EXCEPT ![r] = Unsigned]
<1>1. PICK r \in due[s] :
        /\ IF saved[r].st # "purged"
           THEN /\ saved' = [saved EXCEPT ![r].st = "purged", ![r].shared = FALSE]
                /\ notes' = [n \in Notes |-> IF n \in NotesOf(r) THEN [notes[n] EXCEPT !.st = "gone"]
                                             ELSE notes[n]]
                /\ sign'  = [sign EXCEPT ![r] = Unsigned]
           ELSE UNCHANGED <<saved, notes, sign>>
        /\ due' = [due EXCEPT ![s] = @ \ {r}]
        /\ UNCHANGED reader
  BY DEF Purge
<1>2. r \in Reports /\ saved[r] \in SavedRow
  BY DEF DueOK, SavedOK
<1>3. CASE saved[r].st # "purged"
  <2>1. saved'[r] = [st |-> "purged", date |-> saved[r].date, hold |-> saved[r].hold, shared |-> FALSE]
        /\ saved' = [saved EXCEPT ![r] = saved'[r]]
    BY <1>1, <1>2, <1>3 DEF SavedOK, SavedRow
  <2>2. saved'[r] \in SavedRow /\ saved'[r].st = "purged" /\ ~saved'[r].shared
    BY <1>2, <2>1 DEF SavedRow
  <2>3. \A n \in Notes : notes[n] \in NoteRow
    BY DEF NotesOK
  <2>4. \A n \in Notes : LET g == [notes[n] EXCEPT !.st = "gone"] IN
          g \in NoteRow /\ g.st = "gone" /\ g.run = notes[n].run
    BY <2>3 DEF NoteRow
  <2>5. notes' \in [Notes -> NoteRow]
    BY <1>1, <1>3, <2>3, <2>4
  <2>6. \A n \in Notes : /\ notes'[n].run = notes[n].run
                         /\ IF n \in NotesOf(r) THEN notes'[n].st = "gone" ELSE notes'[n] = notes[n]
    BY <1>1, <1>3, <2>4
  <2> QED BY <1>1, <1>2, <1>3, <2>1, <2>2, <2>5, <2>6
<1> QED BY <1>1, <1>2, <1>3

(* Which steps keep what a request knows of its note.                      *)
LEMMA WorksKept ==
  ASSUME NEW p \in Readers, ReaderWorks(p), reader'[p] = reader[p],
         \A n \in Notes : /\ notes[n].st # "free" => notes'[n].st # "free" /\ notes'[n].run = notes[n].run
  PROVE  ReaderWorks(p)'
BY DEF ReaderWorks

LEMMA SavedTypesStep == SavedTyped /\ [SavedNext]_savedVars => SavedTyped'
<1> SUFFICES ASSUME SavedTyped, [SavedNext]_savedVars PROVE SavedTyped'
  OBVIOUS
<1> USE DEF SavedTyped
<1>1. ASSUME NEW r \in Reports, saved' = [saved EXCEPT ![r] = saved'[r]], saved'[r] \in SavedRow PROVE SavedOK'
  BY <1>1 DEF SavedOK
<1>2. ASSUME NEW p \in Readers, reader' = [reader EXCEPT ![p] = reader'[p]], reader'[p] \in ReaderRec,
             ReaderWorks(p)', notes' = notes
      PROVE  ReaderOK' /\ \A q \in Readers : ReaderWorks(q)'
  <2>1. ReaderOK' /\ \A q \in Readers \ {p} : reader'[q] = reader[q]
    BY <1>2 DEF ReaderOK
  <2> QED BY <1>2, <2>1, WorksKept
<1>3. ASSUME NEW p \in Readers, reader' = [reader EXCEPT ![p] = Away], notes' = notes
      PROVE  ReaderOK' /\ \A q \in Readers : ReaderWorks(q)'
  <2>1. reader'[p] = Away
    BY <1>3 DEF ReaderOK
  <2>2. reader' = [reader EXCEPT ![p] = reader'[p]] /\ reader'[p] \in ReaderRec /\ ReaderWorks(p)'
    BY <1>3, <2>1, AwayIs DEF ReaderWorks
  <2> QED BY <1>2, <1>3, <2>2
<1>4. ASSUME reader' = reader, notes' = notes PROVE ReaderOK' /\ \A q \in Readers : ReaderWorks(q)'
  BY <1>4 DEF ReaderOK, ReaderWorks
<1>5. ASSUME NEW r \in Reports, Store(r) \/ DeletionDatePasses(r) PROVE SavedTyped'
  <2>1. UNCHANGED <<notes, sign, reader, due>>
    BY <1>5 DEF Store, DeletionDatePasses
  <2> QED BY <1>1, <1>4, <1>5, <2>1, RowIs DEF NotesOK, DueOK
<1>6. ASSUME NEW p \in Readers, NEW r \in Reports, Open(p, r) PROVE SavedTyped'
  <2>1. ReaderWorks(p)'
    BY <1>6, OpenIs DEF ReaderWorks
  <2> QED BY <1>2, <1>6, <2>1, OpenIs DEF SavedOK, NotesOK, DueOK
<1>7. ASSUME NEW p \in Readers, ReadNotes(p) PROVE SavedTyped'
  <2>1. ReaderWorks(p)'
    BY <1>7, ReadNotesIs DEF ReaderWorks
  <2> QED BY <1>2, <1>7, <2>1, ReadNotesIs DEF SavedOK, NotesOK, DueOK
<1>8. ASSUME NEW p \in Readers, Sign(p) PROVE SavedTyped'
  <2>1. reader[p].last \in Ids
    BY DEF ReaderOK, ReaderRec
  <2>2. sign' \in [Reports -> Ids]
    BY <1>8, <2>1 DEF Sign, NotesOK
  <2> QED BY <1>3, <1>8, <2>2 DEF Sign, SavedOK, NotesOK, DueOK
<1>9. ASSUME NEW p \in Readers, InsertNote(p) PROVE SavedTyped'
  <2>1. PICK n \in Notes :
           /\ reader[p].run \in Reports /\ notes[n].st = "free"
           /\ notes' = [notes EXCEPT ![n] = notes'[n]] /\ notes'[n] \in NoteRow
           /\ notes'[n].st = "inserted" /\ notes'[n].run = reader[p].run
           /\ reader' = [reader EXCEPT ![p] = reader'[p]] /\ reader'[p] \in ReaderRec
           /\ reader'[p].at = "noting" /\ reader'[p].run = reader[p].run /\ reader'[p].last = n
           /\ UNCHANGED <<saved, sign, due>>
    BY <1>9, InsertNoteIs
  <2>2. NotesOK' /\ ReaderOK' /\ \A k \in Notes \ {n} : notes'[k] = notes[k]
    BY <2>1 DEF NotesOK, ReaderOK
  <2>3. \A q \in Readers \ {p} : reader'[q] = reader[q]
    BY <2>1 DEF ReaderOK
  <2>4. \A q \in Readers \ {p} : ReaderWorks(q)'
    BY <2>1, <2>2, <2>3, WorksKept
  <2>5. ReaderWorks(p)'
    BY <2>1 DEF ReaderWorks
  <2> QED BY <2>1, <2>2, <2>4, <2>5 DEF SavedOK, DueOK
<1>10. ASSUME NEW p \in Readers, EndNote(p) PROVE SavedTyped'
  <2> DEFINE n == reader[p].last
  <2>1. /\ n \in Notes /\ notes' = [notes EXCEPT ![n] = notes'[n]] /\ notes'[n] \in NoteRow
        /\ notes'[n].st # "free" /\ notes'[n].run = notes[n].run
        /\ reader' = [reader EXCEPT ![p] = Away] /\ UNCHANGED <<saved, sign, due>>
    BY <1>10, EndNoteIs
  <2> HIDE DEF n
  <2>2. NotesOK' /\ \A k \in Notes \ {n} : notes'[k] = notes[k]
    BY <2>1 DEF NotesOK
  <2>3. ReaderOK' /\ reader'[p] = Away /\ \A q \in Readers \ {p} : reader'[q] = reader[q]
    BY <2>1, AwayIs DEF ReaderOK
  <2>4. \A q \in Readers \ {p} : ReaderWorks(q)'
    BY <2>1, <2>2, <2>3, WorksKept
  <2>5. ReaderWorks(p)'
    BY <2>3, AwayIs DEF ReaderWorks
  <2> QED BY <2>1, <2>2, <2>3, <2>4, <2>5 DEF SavedOK, DueOK
<1>11. ASSUME NEW p \in Readers, ShareReport(p) \/ SetRetention(p) PROVE SavedTyped'
  BY <1>1, <1>3, <1>11, RequestIs DEF NotesOK, DueOK
<1>12. ASSUME NEW s \in RSweepers, ListDue(s) \/ PurgeFails(s) PROVE SavedTyped'
  <2>1. UNCHANGED <<saved, notes, sign, reader>> /\ DueOK'
    BY <1>12 DEF ListDue, PurgeFails, DueOK
  <2> QED BY <1>4, <2>1 DEF SavedOK, NotesOK
<1>13. ASSUME NEW s \in RSweepers, Purge(s) PROVE SavedTyped'
  <2>1. PICK r \in due[s] :
           /\ r \in Reports /\ due' = [due EXCEPT ![s] = due[s] \ {r}] /\ reader' = reader
           /\ \/ UNCHANGED <<saved, notes, sign>>
              \/ /\ saved' = [saved EXCEPT ![r] = saved'[r]] /\ saved'[r] \in SavedRow
                 /\ notes' \in [Notes -> NoteRow]
                 /\ \A n \in Notes : /\ notes'[n].run = notes[n].run
                                     /\ IF n \in NotesOf(r) THEN notes'[n].st = "gone" ELSE notes'[n] = notes[n]
                 /\ sign' = [sign EXCEPT ![r] = Unsigned]
    BY <1>13, PurgeIs
  <2>2. DueOK' /\ ReaderOK'
    BY <2>1 DEF DueOK, ReaderOK
  <2>3. SavedOK'
    BY <1>1, <2>1 DEF SavedOK
  <2>4. NotesOK'
    BY <2>1 DEF NotesOK, Ids
  <2>5. \A q \in Readers : ReaderWorks(q)'
    BY <2>1, WorksKept
  <2> QED BY <2>2, <2>3, <2>4, <2>5
<1>14. CASE UNCHANGED savedVars
  BY <1>4, <1>14 DEF savedVars, SavedOK, NotesOK, DueOK
<1> QED BY <1>5, <1>6, <1>7, <1>8, <1>9, <1>10, <1>11, <1>12, <1>13, <1>14 DEF SavedNext

LEMMA SavedTypesHold == SavedSpec => []SavedTyped
<1>1. SavedInit => SavedTyped
  <2> SUFFICES ASSUME SavedInit PROVE SavedTyped
    OBVIOUS
  <2>1. SavedOK /\ DueOK
    BY DEF SavedInit, SavedOK, SavedRow, DueOK
  <2>2. NotesOK
    BY DEF SavedInit, NotesOK, NoteRow, Ids
  <2>3. ReaderOK /\ \A p \in Readers : ReaderWorks(p)
    BY AwayIs DEF SavedInit, ReaderOK, ReaderWorks
  <2> QED BY <2>1, <2>2, <2>3 DEF SavedTyped
<1> QED BY <1>1, SavedTypesStep, PTL DEF SavedSpec

-----------------------------------------------------------------------------
(* Short visits.                                                            *)

(* Who has opened a report works on one that is there.                     *)
ReaderKnows(p) == reader[p].at # "away" => saved[reader[p].run].st = "completed"

(* A report to be deleted: nobody has it open, and nobody can open it.     *)
Doomed(r) == saved[r].st = "purged" \/ DueForPurge(r)
SweepKnows(s) == \A r \in due[s] : Doomed(r) /\ \A p \in Readers : reader[p].at # "away" => reader[p].run # r

Beside(r) == saved[r].st = "purged" => NotesOf(r) = {} /\ sign[r] = Unsigned /\ ~saved[r].shared

SavedInv ==
  /\ SavedTyped
  /\ \A p \in Readers : ReaderKnows(p)
  /\ \A s \in RSweepers : SweepKnows(s)
  /\ \A r \in Reports : Beside(r)

(* What a step may do to the report p works on, to a listed report, and to *)
(* what is beside a report.                                                *)
LEMMA SweepKept ==
  ASSUME NEW s \in RSweepers, SweepKnows(s), due'[s] \subseteq due[s], DueOK,
         \A r \in due[s] : Doomed(r) => Doomed(r)',
         \A r \in due[s] : \A p \in Readers : reader'[p] = reader[p] \/ reader'[p].at = "away" \/ reader'[p].run # r
  PROVE  SweepKnows(s)'
BY DEF SweepKnows, DueOK

LEMMA BesideKept ==
  ASSUME NEW r \in Reports, Beside(r), sign'[r] = sign[r], NotesOf(r)' \subseteq NotesOf(r),
         saved'[r] = saved[r] \/ saved'[r].st # "purged"
  PROVE  Beside(r)'
BY DEF Beside

(* A report in somebody's list is open to nobody.                          *)
LEMMA ListedIs ==
  ASSUME SavedInv, NEW s \in RSweepers, NEW r \in due[s]
  PROVE  /\ r \in Reports /\ saved[r].st # "absent" /\ ~MayOpen(r)
         /\ \A p \in Readers : reader[p].at # "away" => reader[p].run # r
BY DEF SavedInv, SavedTyped, DueOK, SweepKnows, Doomed, DueForPurge, MayOpen

LEMMA ReaderStep ==
  ASSUME ShortVisits, SavedInv, [SavedNext]_savedVars, NEW p \in Readers
  PROVE  ReaderKnows(p)'
<1> USE DEF SavedInv, SavedTyped
<1>1. ReaderKnows(p) /\ ReaderWorks(p)
  OBVIOUS
<1>2. ASSUME NEW r \in Reports, Store(r) \/ DeletionDatePasses(r) PROVE ReaderKnows(p)'
  <2>1. reader' = reader
    BY <1>2 DEF Store, DeletionDatePasses
  <2>2. \A x \in Reports : saved[x].st = "completed" => saved'[x].st = "completed"
    BY <1>2, RowIs DEF SavedOK
  <2> QED BY <1>1, <2>1, <2>2 DEF ReaderKnows, ReaderWorks
<1>3. ASSUME NEW q \in Readers, NEW r \in Reports, Open(q, r) PROVE ReaderKnows(p)'
  <2>1. MayOpen(r) /\ reader'[q].run = r /\ saved' = saved /\ (q # p => reader'[p] = reader[p])
    BY <1>3, OpenIs DEF ReaderOK
  <2> QED BY <1>1, <2>1 DEF ReaderKnows, MayOpen
<1>4. ASSUME NEW q \in Readers, saved' = saved,
             reader'[q].run = reader[q].run, reader[q].at # "away", \A x \in Readers \ {q} : reader'[x] = reader[x]
      PROVE  ReaderKnows(p)'
  <2>1. ReaderKnows(q)
    OBVIOUS
  <2> QED BY <1>1, <1>4, <2>1 DEF ReaderKnows
<1>5. ASSUME NEW q \in Readers, reader' = [reader EXCEPT ![q] = Away],
             \A x \in Reports : saved[x].st = "completed" => saved'[x].st = "completed"
      PROVE  ReaderKnows(p)'
  <2>1. reader'[p].at = "away" \/ reader'[p] = reader[p]
    BY <1>5, AwayIs DEF ReaderOK
  <2> QED BY <1>1, <1>5, <2>1 DEF ReaderKnows, ReaderWorks
<1>6. ASSUME NEW q \in Readers, ReadNotes(q) \/ InsertNote(q) PROVE ReaderKnows(p)'
  <2>1. /\ saved' = saved /\ reader[q].at # "away" /\ reader'[q].run = reader[q].run
        /\ reader' = [reader EXCEPT ![q] = reader'[q]]
    BY <1>6, ReadNotesIs, InsertNoteIs
  <2>2. \A x \in Readers \ {q} : reader'[x] = reader[x]
    BY <2>1 DEF ReaderOK
  <2> QED BY <1>4, <2>1, <2>2
<1>7. ASSUME NEW q \in Readers, Sign(q) \/ EndNote(q) PROVE ReaderKnows(p)'
  BY <1>5, <1>7 DEF Sign, EndNote
<1>8. ASSUME NEW q \in Readers, ShareReport(q) \/ SetRetention(q) PROVE ReaderKnows(p)'
  <2>1. ReaderWorks(q)
    OBVIOUS
  <2>2. \A x \in Reports : saved[x].st = "completed" => saved'[x].st = "completed"
    BY <1>8, <2>1, RequestIs DEF SavedOK
  <2> QED BY <1>5, <1>8, <2>1, <2>2, RequestIs
<1>9. ASSUME NEW s \in RSweepers, Purge(s) PROVE ReaderKnows(p)'
  <2>1. PICK r \in due[s] :
           /\ r \in Reports /\ reader' = reader
           /\ UNCHANGED <<saved, notes, sign>> \/ saved' = [saved EXCEPT ![r] = saved'[r]]
    BY <1>9, PurgeIs
  <2>2. reader[p].at # "away" => reader[p].run # r
    BY ListedIs
  <2>3. \A x \in Reports \ {r} : saved'[x] = saved[x]
    BY <2>1 DEF SavedOK
  <2> QED BY <1>1, <2>1, <2>2, <2>3 DEF ReaderKnows, ReaderWorks
<1>10. CASE UNCHANGED <<saved, reader>>
  BY <1>1, <1>10 DEF ReaderKnows
<1> QED BY <1>2, <1>3, <1>6, <1>7, <1>8, <1>9, <1>10 DEF SavedNext, ListDue, PurgeFails, savedVars

LEMMA SweepStep ==
  ASSUME ShortVisits, SavedInv, [SavedNext]_savedVars, NEW s \in RSweepers
  PROVE  SweepKnows(s)'
<1> USE DEF SavedInv, SavedTyped
<1>1. SweepKnows(s) /\ DueOK /\ due[s] \subseteq Reports
  BY DEF DueOK
<1>2. ASSUME NEW r \in Reports, Store(r) \/ DeletionDatePasses(r) PROVE SweepKnows(s)'
  <2>1. UNCHANGED <<notes, sign, reader, due>>
    BY <1>2 DEF Store, DeletionDatePasses
  <2>2. \A x \in due[s] : Doomed(x) => Doomed(x)'
    BY <1>1, <1>2, RowIs DEF SavedOK, Doomed, DueForPurge
  <2> QED BY <1>1, <2>1, <2>2, SweepKept
<1>3. ASSUME NEW q \in Readers, reader' = [reader EXCEPT ![q] = reader'[q]], UNCHANGED <<saved, due>>,
             reader'[q].run \notin due[s]
      PROVE  SweepKnows(s)'
  <2>1. \A x \in due[s] : \A p \in Readers : reader'[p] = reader[p] \/ reader'[p].run # x
    BY <1>3 DEF ReaderOK
  <2>2. \A x \in due[s] : Doomed(x) => Doomed(x)'
    BY <1>3 DEF Doomed, DueForPurge
  <2> QED BY <1>1, <1>3, <2>1, <2>2, SweepKept
<1>4. ASSUME NEW q \in Readers, NEW r \in Reports, Open(q, r) PROVE SweepKnows(s)'
  <2>1. r \notin due[s]
    BY <1>4, OpenIs, ListedIs
  <2> QED BY <1>3, <1>4, <2>1, OpenIs
<1>5. ASSUME NEW q \in Readers, ReadNotes(q) \/ InsertNote(q) PROVE SweepKnows(s)'
  <2>1. /\ reader' = [reader EXCEPT ![q] = reader'[q]] /\ UNCHANGED <<saved, due>>
        /\ reader[q].at = "open" /\ reader'[q].run = reader[q].run
    BY <1>5, ReadNotesIs, InsertNoteIs
  <2>2. reader[q].run \notin due[s]
    BY <2>1, ListedIs
  <2> QED BY <1>3, <2>1, <2>2
<1>6. ASSUME NEW q \in Readers, reader' = [reader EXCEPT ![q] = Away], due' = due,
             \A x \in due[s] : saved'[x] = saved[x]
      PROVE  SweepKnows(s)'
  <2>1. \A p \in Readers : reader'[p] = reader[p] \/ reader'[p].at = "away"
    BY <1>6, AwayIs DEF ReaderOK
  <2>2. \A x \in due[s] : Doomed(x) => Doomed(x)'
    BY <1>1, <1>6 DEF Doomed, DueForPurge
  <2> QED BY <1>1, <1>6, <2>1, <2>2, SweepKept
<1>7. ASSUME NEW q \in Readers, Sign(q) \/ EndNote(q) PROVE SweepKnows(s)'
  BY <1>6, <1>7 DEF Sign, EndNote
<1>8. ASSUME NEW q \in Readers, ShareReport(q) \/ SetRetention(q) PROVE SweepKnows(s)'
  <2>0. ReaderWorks(q)
    OBVIOUS
  <2>1. reader[q].run \notin due[s]
    BY <1>8, <2>0, RequestIs, ListedIs
  <2>2. \A x \in due[s] : saved'[x] = saved[x]
    BY <1>1, <1>8, <2>0, <2>1, RequestIs DEF SavedOK
  <2> QED BY <1>6, <1>8, <2>0, <2>2, RequestIs
<1>9. ASSUME NEW q \in RSweepers, ListDue(q) PROVE SweepKnows(s)'
  <2>1. CASE q = s
    <3>1. due'[s] = {r \in Reports : DueForPurge(r)} /\ UNCHANGED <<saved, reader>>
      BY <1>9, <2>1 DEF ListDue, DueOK
    <3>2. \A r \in Reports : DueForPurge(r) => ~InUse(r)
      BY <1>9 DEF ListDue
    <3> QED BY <3>1, <3>2 DEF SweepKnows, Doomed, DueForPurge, InUse
  <2>2. CASE q # s
    <3>1. due'[s] = due[s] /\ UNCHANGED <<saved, reader>>
      BY <1>9, <2>2 DEF ListDue, DueOK
    <3>2. \A x \in due[s] : Doomed(x) => Doomed(x)'
      BY <3>1 DEF Doomed, DueForPurge
    <3> QED BY <1>1, <3>1, <3>2, SweepKept
  <2> QED BY <2>1, <2>2
<1>10. ASSUME NEW q \in RSweepers, PurgeFails(q) PROVE SweepKnows(s)'
  <2>1. due'[s] \subseteq due[s] /\ UNCHANGED <<saved, reader>>
    BY <1>10 DEF PurgeFails, DueOK
  <2>2. \A x \in due[s] : Doomed(x) => Doomed(x)'
    BY <2>1 DEF Doomed, DueForPurge
  <2> QED BY <1>1, <2>1, <2>2, SweepKept
<1>11. ASSUME NEW q \in RSweepers, Purge(q) PROVE SweepKnows(s)'
  <2>1. PICK r \in due[q] :
           /\ r \in Reports /\ due' = [due EXCEPT ![q] = due[q] \ {r}] /\ reader' = reader
           /\ \/ UNCHANGED <<saved, notes, sign>>
              \/ saved' = [saved EXCEPT ![r] = saved'[r]] /\ saved'[r].st = "purged"
    BY <1>11, PurgeIs
  <2>2. due'[s] \subseteq due[s]
    BY <2>1 DEF DueOK
  <2>3. \A x \in due[s] : Doomed(x) => Doomed(x)'
    BY <1>1, <2>1 DEF Doomed, DueForPurge, SavedOK
  <2> QED BY <1>1, <2>1, <2>2, <2>3, SweepKept
<1>12. CASE UNCHANGED savedVars
  BY <1>12 DEF savedVars, SweepKnows, Doomed, DueForPurge
<1> QED BY <1>2, <1>4, <1>5, <1>7, <1>8, <1>9, <1>10, <1>11, <1>12 DEF SavedNext

LEMMA BesideStep ==
  ASSUME ShortVisits, SavedInv, [SavedNext]_savedVars, NEW r \in Reports
  PROVE  Beside(r)'
<1> USE DEF SavedInv, SavedTyped
<1>1. Beside(r)
  OBVIOUS
<1>2. ASSUME NEW x \in Reports, Store(x) \/ DeletionDatePasses(x) PROVE Beside(r)'
  <2>1. UNCHANGED <<notes, sign, reader, due>>
    BY <1>2 DEF Store, DeletionDatePasses
  <2>2. /\ x # r => saved'[r] = saved[r]
        /\ saved'[r].st = "purged" => saved[r].st = "purged" /\ (saved'[r].shared = saved[r].shared)
    BY <1>2, RowIs DEF SavedOK
  <2> QED BY <1>1, <2>1, <2>2 DEF Beside, NotesOf
<1>3. ASSUME NEW q \in Readers, Sign(q) PROVE Beside(r)'
  <2>1. /\ reader[q].run \in Reports /\ saved[reader[q].run].st = "completed"
        /\ sign' = [sign EXCEPT ![reader[q].run] = reader[q].last] /\ UNCHANGED <<saved, notes>>
    BY <1>3 DEF Sign, ReaderKnows, ReaderWorks
  <2>2. CASE reader[q].run = r
    BY <2>1, <2>2 DEF Beside
  <2>3. CASE reader[q].run # r
    <3>1. sign'[r] = sign[r]
      BY <2>1, <2>3 DEF NotesOK
    <3> QED BY <1>1, <2>1, <3>1 DEF Beside, NotesOf
  <2> QED BY <2>2, <2>3
<1>4. ASSUME NEW q \in Readers, InsertNote(q) PROVE Beside(r)'
  <2>1. PICK n \in Notes :
           /\ notes' = [notes EXCEPT ![n] = notes'[n]] /\ notes'[n].st = "inserted" /\ UNCHANGED <<saved, sign>>
    BY <1>4, InsertNoteIs
  <2>2. NotesOf(r)' \subseteq NotesOf(r)
    BY <2>1 DEF NotesOf, NotesOK
  <2> QED BY <1>1, <2>1, <2>2, BesideKept
<1>5. ASSUME NEW q \in Readers, EndNote(q) PROVE Beside(r)'
  <2> DEFINE n == reader[q].last
  <2>1. /\ n \in Notes /\ notes[n].run = reader[q].run /\ reader[q].run \in Reports
        /\ notes' = [notes EXCEPT ![n] = notes'[n]] /\ notes'[n].run = notes[n].run
        /\ UNCHANGED <<saved, sign>> /\ reader[q].at = "noting"
    BY <1>5, EndNoteIs
  <2>2. saved[reader[q].run].st = "completed"
    BY <2>1 DEF ReaderKnows
  <2> HIDE DEF n
  <2>3. CASE reader[q].run = r
    BY <2>1, <2>2, <2>3 DEF Beside
  <2>4. CASE reader[q].run # r
    <3>1. NotesOf(r)' \subseteq NotesOf(r)
      BY <2>1, <2>4 DEF NotesOf, NotesOK
    <3> QED BY <1>1, <2>1, <3>1, BesideKept
  <2> QED BY <2>3, <2>4
<1>6. ASSUME NEW q \in Readers, ShareReport(q) \/ SetRetention(q) PROVE Beside(r)'
  <2>0. ReaderWorks(q) /\ ReaderKnows(q)
    OBVIOUS
  <2>1. saved'[r] = saved[r] \/ saved'[r].st # "purged"
    BY <1>6, <2>0, RequestIs DEF SavedOK, ReaderKnows
  <2>2. UNCHANGED <<notes, sign>>
    BY <1>6, <2>0, RequestIs
  <2> QED BY <1>1, <2>1, <2>2, BesideKept DEF NotesOf
<1>7. ASSUME NEW s \in RSweepers, Purge(s) PROVE Beside(r)'
  <2>1. PICK x \in due[s] :
           /\ x \in Reports
           /\ \/ UNCHANGED <<saved, notes, sign>>
              \/ /\ saved' = [saved EXCEPT ![x] = saved'[x]] /\ ~saved'[x].shared
                 /\ \A n \in Notes : /\ notes'[n].run = notes[n].run
                                     /\ IF n \in NotesOf(x) THEN notes'[n].st = "gone" ELSE notes'[n] = notes[n]
                 /\ sign' = [sign EXCEPT ![x] = Unsigned]
    BY <1>7, PurgeIs
  <2>2. CASE UNCHANGED <<saved, notes, sign>>
    BY <1>1, <2>2 DEF Beside, NotesOf
  <2>3. CASE /\ saved' = [saved EXCEPT ![x] = saved'[x]] /\ ~saved'[x].shared
             /\ \A n \in Notes : /\ notes'[n].run = notes[n].run
                                 /\ IF n \in NotesOf(x) THEN notes'[n].st = "gone" ELSE notes'[n] = notes[n]
             /\ sign' = [sign EXCEPT ![x] = Unsigned]
    <3>1. CASE x = r
      <4>1. NotesOf(r)' = {} /\ sign'[r] = Unsigned /\ ~saved'[r].shared
        BY <2>3, <3>1 DEF NotesOf, NotesOK
      <4> QED BY <4>1 DEF Beside
    <3>2. CASE x # r
      <4>1. sign'[r] = sign[r] /\ saved'[r] = saved[r] /\ NotesOf(r)' \subseteq NotesOf(r)
        BY <2>1, <2>3, <3>2 DEF NotesOf, NotesOK, SavedOK
      <4> QED BY <1>1, <4>1, BesideKept
    <3> QED BY <3>1, <3>2
  <2> QED BY <2>1, <2>2, <2>3
<1>8. CASE UNCHANGED <<saved, notes, sign>>
  BY <1>1, <1>8 DEF Beside, NotesOf
<1> QED BY <1>2, <1>3, <1>4, <1>5, <1>6, <1>7, <1>8 DEF SavedNext, Open, ReadNotes, ListDue, PurgeFails, savedVars

LEMMA SavedInvariant == ASSUME ShortVisits PROVE SavedSpec => []SavedInv
<1>1. SavedInit /\ SavedTyped => SavedInv
  <2> SUFFICES ASSUME SavedInit, SavedTyped PROVE SavedInv
    OBVIOUS
  <2>1. (\A p \in Readers : ReaderKnows(p)) /\ (\A s \in RSweepers : SweepKnows(s))
    BY AwayIs DEF SavedInit, ReaderKnows, SweepKnows
  <2>2. \A r \in Reports : Beside(r)
    BY DEF SavedInit, Beside
  <2> QED BY <2>1, <2>2 DEF SavedInv
<1>2. SavedTyped' /\ SavedInv /\ [SavedNext]_savedVars => SavedInv'
  BY ReaderStep, SweepStep, BesideStep DEF SavedInv
<1> QED BY <1>1, <1>2, SavedTypesHold, PTL DEF SavedSpec

(* The types of saved reports; while requests are brief, nothing is left   *)
(* beside a purged report.                                                 *)
THEOREM SavedTypesTheorem == SavedSpec => []SavedTypes
<1> DEFINE Clean == \A r \in Reports : Beside(r)
           Types == SavedTyped
<1>1. Types /\ (ShortVisits => Clean) => SavedTypes
  BY DEF SavedTyped, SavedTypes, SavedOK, NotesOK, ReaderOK, DueOK, SavedRow, NoteRow, Ids, ReaderRec, Beside
<1>2. SavedSpec => []Types
  BY SavedTypesHold
<1>3. CASE ShortVisits
  <2>1. SavedInv => Clean
    BY DEF SavedInv
  <2>2. Types /\ Clean => SavedTypes
    BY <1>1
  <2> HIDE DEF Types, Clean
  <2> QED BY <1>2, <1>3, <2>1, <2>2, SavedInvariant, PTL
<1>4. CASE ~ShortVisits
  <2>1. Types => SavedTypes
    BY <1>1, <1>4
  <2> HIDE DEF Types
  <2> QED BY <1>2, <2>1, PTL
<1> QED BY <1>3, <1>4

(* With short visits the sweep deletes no report that is held: nobody can  *)
(* set a hold on a report that a sweep has listed (purge_due, _open).      *)
THEOREM HeldTheorem == ASSUME ShortVisits PROVE SavedSpec => HeldIsKept
<1> DEFINE A == \A r \in Reports : saved[r].hold /\ saved[r].st = "completed" => saved'[r].st = "completed"
<1>1. SavedInv /\ [SavedNext]_savedVars => [A]_savedVars
  <2> SUFFICES ASSUME SavedInv, [SavedNext]_savedVars, NEW r \in Reports, saved[r].hold,
                      saved[r].st = "completed"
               PROVE  saved'[r].st = "completed"
    OBVIOUS
  <2> USE DEF SavedInv, SavedTyped
  <2>1. ASSUME NEW x \in Reports, Store(x) \/ DeletionDatePasses(x) PROVE saved'[r].st = "completed"
    BY <2>1, RowIs DEF SavedOK
  <2>2. ASSUME NEW p \in Readers, ShareReport(p) \/ SetRetention(p) PROVE saved'[r].st = "completed"
    <3>0. ReaderWorks(p)
      OBVIOUS
    <3> QED BY <2>2, <3>0, RequestIs DEF SavedOK
  <2>3. ASSUME NEW s \in RSweepers, Purge(s) PROVE saved'[r].st = "completed"
    <3>1. PICK x \in due[s] :
             /\ x \in Reports
             /\ saved' = saved \/ saved' = [saved EXCEPT ![x] = saved'[x]]
      BY <2>3, PurgeIs
    <3>2. ~MayOpen(x)
      BY ListedIs
    <3>3. x # r
      BY <3>2 DEF MayOpen
    <3> QED BY <3>1, <3>3 DEF SavedOK
  <2>4. CASE UNCHANGED saved
    BY <2>4
  <2> QED BY <2>1, <2>2, <2>3, <2>4
          DEF SavedNext, Open, ReadNotes, Sign, InsertNote, EndNote, ListDue, PurgeFails, savedVars
<1> QED BY <1>1, SavedInvariant, PTL DEF SavedSpec, HeldIsKept
=============================================================================
