--------------------------- MODULE EvidenceFiling ---------------------------
(***************************************************************************)
(* From the batch queue into the evidence vault (evidence/staging.py, and  *)
(* api_evidence_upload of evidence/routes.py): a file is staged, then      *)
(* filed as an item or as the next version of one, discarded, or expired.  *)
(* A row and its bytes on disk change one after the other, and the process *)
(* may die in between.                                                     *)
(*                                                                         *)
(* Data abstracted: one person's queue; the content of a staged file is    *)
(* its id; what an upload validates, and the records an item is linked to, *)
(* are left out.  A row's kept bytes are a flag beside it.                 *)
(***************************************************************************)
EXTENDS Integers, FiniteSets

CONSTANTS
  Files,      \* ids of evidence_staging
  Items,      \* ids of evidence_items
  Vault,      \* those of them stored before
  Uploads,    \* calls of api_evidence_upload at one time
  Discards,   \* calls of discard at one time
  NoFile

(* Assumed of the constants. *)
ASSUME FilingAssumption == Items \subseteq Nat /\ NoFile \notin Files

VARIABLES
  staged,     \* rows of evidence_staging, and their bytes in STAGING_DIR
  item,       \* rows of evidence_items, and their bytes in EVIDENCE_DIR
  upload,     \* a call: where it is, the file it took and the item it replaces
  discard,    \* a call: the file whose row it read
  sweeping    \* the daily sweep: the files it has listed and still works on

filingVars == <<staged, item, upload, discard, sweeping>>

NoItem == -1
NoUpload == [at |-> "idle", file |-> NoFile, old |-> NoItem, new |-> NoItem]

FilingInit ==
  /\ staged  = [f \in Files |-> [st |-> "absent", expired |-> FALSE, bytes |-> FALSE]]
  /\ item    = [i \in Items |-> [st |-> IF i \in Vault THEN "current" ELSE "absent",
                                 of |-> NoFile, prev |-> NoItem, bytes |-> i \in Vault]]
  /\ upload  = [u \in Uploads |-> NoUpload]
  /\ discard = [d \in Discards |-> NoFile]
  /\ sweeping = {}

-----------------------------------------------------------------------------
(* The queue.                                                              *)

(* stage keeps the bytes, then stores the row; a file that fails a check   *)
(* is quarantined, without bytes.                                          *)
Keep(f) ==
  /\ staged[f].st = "absent" /\ ~staged[f].bytes
  /\ staged' = [staged EXCEPT ![f].bytes = TRUE]
  /\ UNCHANGED <<item, upload, discard, sweeping>>
Stage(f) ==
  /\ staged[f].st = "absent"
  /\ staged' = [staged EXCEPT ![f].st = IF staged[f].bytes THEN "staged" ELSE "quarantined"]
  /\ UNCHANGED <<item, upload, discard, sweeping>>

WaitingStates == {"staged", "quarantined"}

(* discard reads the row; then the update, by the id, and the removal of   *)
(* the bytes come before a commit that may fail.                           *)
ReadOwn(d) ==
  /\ discard[d] = NoFile
  /\ \E f \in Files : staged[f].st \in WaitingStates /\ discard' = [discard EXCEPT ![d] = f]
  /\ UNCHANGED <<staged, item, upload, sweeping>>
DiscardFile(d) ==
  /\ discard[d] # NoFile
  /\ \E committed \in BOOLEAN :
       staged' = [staged EXCEPT ![discard[d]].bytes = FALSE,
                                ![discard[d]].st = IF committed THEN "discarded" ELSE @]
  /\ discard' = [discard EXCEPT ![d] = NoFile]
  /\ UNCHANGED <<item, upload, sweeping>>

ExpireFile(f) ==
  /\ staged[f].st \in WaitingStates /\ ~staged[f].expired
  /\ staged' = [staged EXCEPT ![f].expired = TRUE]
  /\ UNCHANGED <<item, upload, discard, sweeping>>

(* Slip: the sweep takes rows before their time.                           *)
Slip_Sweepable(f) == staged[f].st \in WaitingStates
Sweepable(f) == staged[f].st \in WaitingStates /\ staged[f].expired

(* sweep, once a day across processes: the expired rows are listed, and    *)
(* then each is updated by its id, whatever has become of it, and its bytes*)
(* removed.  The commit at the end may fail; a row is locked until then, so*)
(* to the others its update is as good as committed at once, or undone.    *)
ListExpired ==
  /\ sweeping = {} /\ \E f \in Files : Sweepable(f)
  /\ sweeping' = {f \in Files : Sweepable(f)}
  /\ UNCHANGED <<staged, item, upload, discard>>
SweepFile(f) ==
  /\ f \in sweeping
  /\ \E committed \in BOOLEAN :
       staged' = [staged EXCEPT ![f].bytes = FALSE,
                                ![f].st = IF committed THEN "expired" ELSE @]
  /\ sweeping' = sweeping \ {f}
  /\ UNCHANGED <<item, upload, discard>>
SweepDies ==
  /\ sweeping # {} /\ sweeping' = {}
  /\ UNCHANGED <<staged, item, upload, discard>>

-----------------------------------------------------------------------------
(* Filing.                                                                 *)

(* take: the caller's own staged file, with its bytes.                     *)
TakeFile(u, f, i) ==
  /\ upload[u].at = "idle"
  /\ staged[f].st = "staged" /\ ~staged[f].expired /\ staged[f].bytes
  /\ i # NoItem => item[i].st = "current"
  /\ upload' = [upload EXCEPT ![u] = [at |-> "taken", file |-> f, old |-> i, new |-> NoItem]]
  /\ UNCHANGED <<staged, item, discard, sweeping>>

(* An identical file in the vault refuses it.                              *)
Duplicate(u) ==
  /\ upload[u].at = "taken"
  /\ \E i \in Items : item[i].of = upload[u].file /\ item[i].st # "absent"
  /\ upload' = [upload EXCEPT ![u] = NoUpload]
  /\ UNCHANGED <<staged, item, discard, sweeping>>

(* The bytes go to the vault under a name of their own.                    *)
WriteBytes(u) ==
  /\ upload[u].at = "taken"
  /\ \A i \in Items : ~ (item[i].of = upload[u].file /\ item[i].st # "absent")
  /\ \E i \in Items :
       /\ item[i].st = "absent" /\ ~item[i].bytes /\ \A v \in Uploads : upload[v].new # i
       /\ item' = [item EXCEPT ![i].bytes = TRUE]
       /\ upload' = [upload EXCEPT ![u].at = "written", ![u].new = i]
  /\ UNCHANGED <<staged, discard, sweeping>>

(* One transaction: the version it replaces must be current still, and the *)
(* staged file staged still.  (Slip: what was read before is trusted.)     *)
OldIsCurrent(u) == upload[u].old # NoItem => item[upload[u].old].st = "current"
Slip_MayFile(u) == TRUE
MayFile(u) == staged[upload[u].file].st = "staged"

Commit(u) ==
  /\ upload[u].at = "written" /\ OldIsCurrent(u) /\ MayFile(u)
  /\ LET new == upload[u].new
         old == upload[u].old
     IN item' = [i \in Items |->
          IF i = new THEN [item[i] EXCEPT !.st = "current", !.of = upload[u].file, !.prev = old]
          ELSE IF i = old THEN [item[i] EXCEPT !.st = "superseded"]
          ELSE item[i]]
  /\ staged' = [staged EXCEPT ![upload[u].file].st = "filed"]
  /\ upload' = [upload EXCEPT ![u].at = "filed"]
  /\ UNCHANGED <<discard, sweeping>>

(* The transaction rolls back, and the bytes it wrote are removed.         *)
RollBack(u) ==
  /\ upload[u].at = "written"
  /\ item' = [item EXCEPT ![upload[u].new].bytes = FALSE]
  /\ upload' = [upload EXCEPT ![u] = NoUpload]
  /\ UNCHANGED <<staged, discard, sweeping>>

RemoveBytes(u) ==
  /\ upload[u].at = "filed"
  /\ staged' = [staged EXCEPT ![upload[u].file].bytes = FALSE]
  /\ upload' = [upload EXCEPT ![u] = NoUpload]
  /\ UNCHANGED <<item, discard, sweeping>>

UploadDies(u) ==
  /\ upload[u].at # "idle"
  /\ upload' = [upload EXCEPT ![u] = NoUpload]
  /\ UNCHANGED <<staged, item, discard, sweeping>>

FilingNext ==
  \/ \E f \in Files : Keep(f) \/ Stage(f) \/ ExpireFile(f)
  \/ \E d \in Discards : ReadOwn(d) \/ DiscardFile(d)
  \/ ListExpired \/ SweepDies \/ \E f \in Files : SweepFile(f)
  \/ \E u \in Uploads :
       \/ \E f \in Files, i \in Items \cup {NoItem} : TakeFile(u, f, i)
       \/ Duplicate(u) \/ WriteBytes(u) \/ Commit(u) \/ RollBack(u) \/ RemoveBytes(u) \/ UploadDies(u)

FilingSpec == FilingInit /\ [][FilingNext]_filingVars

-----------------------------------------------------------------------------
(* Properties.                                                             *)

FilingTypes ==
  /\ staged \in [Files -> [st : {"absent", "filed", "discarded", "expired"} \cup WaitingStates,
                           expired : BOOLEAN, bytes : BOOLEAN]]
  /\ item \in [Items -> [st : {"absent", "current", "superseded"}, of : Files \cup {NoFile},
                         prev : Items \cup {NoItem}, bytes : BOOLEAN]]
  /\ upload \in [Uploads -> [at : {"idle", "taken", "written", "filed"}, file : Files \cup {NoFile},
                             old : Items \cup {NoItem}, new : Items \cup {NoItem}]]
  /\ discard \in [Discards -> Files \cup {NoFile}]
  /\ sweeping \subseteq Files

Filed(i) == item[i].st # "absent"

(* mark_filed, api_evidence_upload L1715-1721: a staged file becomes one   *)
(* item, also when two calls file it at once, and none once it was         *)
(* discarded or expired; of two replacements of one version one is stored. *)
FiledOnce ==
  [][\A i \in Items : ~Filed(i) /\ Filed(i)'
       => LET f == item'[i].of IN
          /\ staged[f].st \notin {"discarded", "expired"}
          /\ \A j \in Items \ {i} : Filed(j)' =>
               /\ item'[j].of # f
               /\ item'[i].prev # NoItem => item'[j].prev # item'[i].prev]_filingVars

(* Whatever fails or dies: an item has its bytes in the vault, and a file  *)
(* that waits, not expired and not being discarded, has its in staging.    *)
NoRowWithoutBytes ==
  [][/\ \A i \in Items : Filed(i)' => item'[i].bytes
     /\ \A f \in Files : staged[f].st = "staged" /\ staged[f].bytes /\ ~staged'[f].bytes
          => staged[f].expired \/ \E d \in Discards : discard[d] = f]_filingVars
=============================================================================
