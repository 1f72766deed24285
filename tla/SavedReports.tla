---------------------------- MODULE SavedReports ----------------------------
(***************************************************************************)
(* A frozen report after it is saved (launcher/routes_reports.py): people  *)
(* note and dispute its figures, sign it off, share it and set when it is  *)
(* deleted or that it is held, while the sweepers of several processes     *)
(* delete what is due (launcher/report_retention.py).                      *)
(*                                                                         *)
(* A request first opens the report, which refuses what is due, and writes *)
(* in a later statement.  A note takes its id when it is inserted, and     *)
(* others see it when it is committed: ids do not follow commits.          *)
(*                                                                         *)
(* Data abstracted: what a note says, and whether it is a dispute; who may *)
(* do what; a deletion date is to come, passed, or none.                   *)
(***************************************************************************)
EXTENDS Integers, FiniteSets

CONSTANTS
  Reports,      \* ids of report_runs
  Readers,      \* requests at one time
  RSweepers,    \* one daily job per server process
  Notes,        \* ids of report_run_notes, in the order they are given out
  ShortVisits   \* assumed of requests: no deletion date passes, and no sweep lists
                \* its rows, between the steps of one; nothing in the code says so

(* Assumed of the constants. *)
ASSUME SavedAssumption == Notes \subseteq Nat \ {0} /\ ShortVisits \in BOOLEAN

VARIABLES
  saved,    \* report_runs, _retention and _shares of a report
  notes,    \* report_run_notes: inserted, seen by others (stored) or gone
  sign,     \* the latest row of report_run_signoffs: [last |-> last_note_id]
  reader,   \* a request: what it opened, and the note it has read or inserted
  due       \* a sweep: the rows it has listed

savedVars == <<saved, notes, sign, reader, due>>

Unsigned == -1
NoReport == -1
Away == [at |-> "away", run |-> NoReport, last |-> Unsigned]

SavedInit ==
  /\ saved  = [r \in Reports |->
                 [st |-> "absent", date |-> "none", hold |-> FALSE, shared |-> FALSE]]
  /\ notes  = [n \in Notes |-> [st |-> "free", run |-> NoReport]]
  /\ sign   = [r \in Reports |-> Unsigned]
  /\ reader = [p \in Readers |-> Away]
  /\ due    = [s \in RSweepers |-> {}]

(* _store: the run and its retention row commit together.                  *)
Store(r) ==
  /\ saved[r].st = "absent"
  /\ saved' = [saved EXCEPT ![r].st = "completed", ![r].date = "later"]
  /\ UNCHANGED <<notes, sign, reader, due>>

-----------------------------------------------------------------------------
(* Requests.                                                               *)

(* _open: a report past its date is gone for readers before it is deleted, *)
(* unless it is held.  (Slip: gone only once it is deleted.)               *)
Slip_MayOpen(r) == saved[r].st = "completed"
MayOpen(r) ==
  /\ saved[r].st = "completed"
  /\ saved[r].date # "passed" \/ saved[r].hold

Open(p, r) ==
  /\ reader[p].at = "away" /\ MayOpen(r)
  /\ reader' = [reader EXCEPT ![p] = [Away EXCEPT !.at = "open", !.run = r]]
  /\ UNCHANGED <<saved, notes, sign, due>>

NotesOf(r) == {n \in Notes : notes[n].st = "stored" /\ notes[n].run = r}

(* api_report_signoff reads the greatest id it sees, then inserts.         *)
ReadNotes(p) ==
  /\ reader[p].at = "open"
  /\ \E n \in NotesOf(reader[p].run) \cup {0} :
       /\ \A k \in NotesOf(reader[p].run) : k <= n
       /\ reader' = [reader EXCEPT ![p].at = "signing", ![p].last = n]
  /\ UNCHANGED <<saved, notes, sign, due>>

Sign(p) ==
  /\ reader[p].at = "signing"
  /\ sign' = [sign EXCEPT ![reader[p].run] = reader[p].last]
  /\ reader' = [reader EXCEPT ![p] = Away]
  /\ UNCHANGED <<saved, notes, due>>

(* api_report_run_note inserts, which takes the next id, then commits.     *)
InsertNote(p) ==
  /\ reader[p].at = "open"
  /\ \E n \in Notes :
       /\ notes[n].st = "free" /\ \A k \in Notes : notes[k].st = "free" => n <= k
       /\ notes' = [notes EXCEPT ![n] = [st |-> "inserted", run |-> reader[p].run]]
       /\ reader' = [reader EXCEPT ![p].at = "noting", ![p].last = n]
  /\ UNCHANGED <<saved, sign, due>>
EndNote(p) ==
  /\ reader[p].at = "noting"
  /\ \E st \in {"stored", "gone"} : notes' = [notes EXCEPT ![reader[p].last].st = st]
  /\ reader' = [reader EXCEPT ![p] = Away]
  /\ UNCHANGED <<saved, sign, due>>

ShareReport(p) ==
  /\ reader[p].at = "open"
  /\ \E on \in BOOLEAN : saved' = [saved EXCEPT ![reader[p].run].shared = on]
  /\ reader' = [reader EXCEPT ![p] = Away]
  /\ UNCHANGED <<notes, sign, due>>

(* api_report_retention writes the date and the hold, both at once.        *)
SetRetention(p) ==
  /\ reader[p].at = "open"
  /\ \E d \in {"none", "later"}, h \in BOOLEAN :
       saved' = [saved EXCEPT ![reader[p].run].date = d, ![reader[p].run].hold = h]
  /\ reader' = [reader EXCEPT ![p] = Away]
  /\ UNCHANGED <<notes, sign, due>>

-----------------------------------------------------------------------------
(* Time and purge_due.                                                     *)

InUse(r) == \E p \in Readers : reader[p].run = r

DeletionDatePasses(r) ==
  /\ saved[r].date = "later" /\ (ShortVisits => ~InUse(r))
  /\ saved' = [saved EXCEPT ![r].date = "passed"]
  /\ UNCHANGED <<notes, sign, reader, due>>

DueForPurge(r) == saved[r].st = "completed" /\ saved[r].date = "passed" /\ ~saved[r].hold

ListDue(s) ==
  /\ due[s] = {}
  /\ ShortVisits => \A r \in Reports : DueForPurge(r) => ~InUse(r)
  /\ due' = [due EXCEPT ![s] = {r \in Reports : DueForPurge(r)}]
  /\ UNCHANGED <<saved, notes, sign, reader>>

(* One row at a time, by its id; only what was not purged yet.             *)
Purge(s) ==
  \E r \in due[s] :
    /\ IF saved[r].st # "purged"
       THEN /\ saved' = [saved EXCEPT ![r].st = "purged", ![r].shared = FALSE]
            /\ notes' = [n \in Notes |-> IF n \in NotesOf(r) THEN [notes[n] EXCEPT !.st = "gone"]
                                         ELSE notes[n]]
            /\ sign'  = [sign EXCEPT ![r] = Unsigned]
       ELSE UNCHANGED <<saved, notes, sign>>
    /\ due' = [due EXCEPT ![s] = @ \ {r}]
    /\ UNCHANGED reader

(* An error, or the process dies: the rest of the list is left.            *)
PurgeFails(s) ==
  /\ due[s] # {}
  /\ due' = [due EXCEPT ![s] = {}]
  /\ UNCHANGED <<saved, notes, sign, reader>>

SavedNext ==
  \/ \E r \in Reports : Store(r) \/ DeletionDatePasses(r)
  \/ \E p \in Readers : \/ \E r \in Reports : Open(p, r)
                        \/ ReadNotes(p) \/ Sign(p) \/ InsertNote(p) \/ EndNote(p)
                        \/ ShareReport(p) \/ SetRetention(p)
  \/ \E s \in RSweepers : ListDue(s) \/ Purge(s) \/ PurgeFails(s)

SavedSpec == SavedInit /\ [][SavedNext]_savedVars

-----------------------------------------------------------------------------
(* Properties.                                                             *)

(* While requests are brief (api_report_* open and then write), nothing is *)
(* left beside a report that purge_due has deleted.                        *)
SavedTypes ==
  /\ saved \in [Reports -> [st : {"absent", "completed", "purged"},
                            date : {"none", "later", "passed"}, hold : BOOLEAN, shared : BOOLEAN]]
  /\ notes \in [Notes -> [st : {"free", "inserted", "stored", "gone"}, run : Reports \cup {NoReport}]]
  /\ sign \in [Reports -> Notes \cup {0, Unsigned}]
  /\ reader \in [Readers -> [at : {"away", "open", "signing", "noting"}, run : Reports \cup {NoReport},
                            last : Notes \cup {0, Unsigned}]]
  /\ due \in [RSweepers -> SUBSET Reports]
  /\ ShortVisits => \A r \in Reports : saved[r].st = "purged"
                  => NotesOf(r) = {} /\ sign[r] = Unsigned /\ ~saved[r].shared

(* purge_due deletes a row by its id, long after it listed it, and does not*)
(* ask for the hold again.  With short visits a report that is held stays: *)
(* a hold can no longer be set on what a sweep has listed, since _open     *)
(* refuses it.                                                             *)
HeldIsKept == [][\A r \in Reports : saved[r].hold /\ saved[r].st = "completed"
                   => saved'[r].st = "completed"]_savedVars
=============================================================================
