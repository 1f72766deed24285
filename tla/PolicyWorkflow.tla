--------------------------- MODULE PolicyWorkflow ---------------------------
(***************************************************************************)
(* From a draft to an approved version of one policy document              *)
(* (aria/policy_workflow_service.py): drafts under an optimistic lock,     *)
(* versions that are never edited, submissions to an approver.             *)
(*                                                                         *)
(* A call reads its rows in one statement and writes in a later one; what  *)
(* it computes in between (a build converts documents for minutes) leaves  *)
(* others time.  decide locks its rows, and withdraw, discard and expire   *)
(* ask for the state in their update, so those are one step each.          *)
(*                                                                         *)
(* Data abstracted: a text is the lock version that its save gave the      *)
(* draft; a build is the text it rendered; the number of a version is its  *)
(* minor number; who may do what is left out.                              *)
(***************************************************************************)
EXTENDS Integers, FiniteSets

CONSTANTS
  PDrafts, PVersions, Approvals,   \* ids of rows, in order of creation
  Calls,      \* calls of save, build, confirm and submit at one time
  MaxLock,    \* bound on the lock version of a draft
  Quick       \* TRUE: what a confirm or a submit has read does not change until it writes

(* Assumed of the constants. *)
ASSUME WorkflowAssumption ==
  /\ PDrafts \subseteq Nat /\ PVersions \subseteq Nat \ {0} /\ Approvals \subseteq Nat
  /\ MaxLock \in Nat /\ Quick \in BOOLEAN

VARIABLES
  pdraft,      \* aria_policy_drafts
  pver,        \* aria_policy_versions
  pdoc,        \* aria_documents: the current version and the number shown
  appr,        \* aria_document_approvals: the version, and the state
  published,   \* the versions that have a publication job
  pcall        \* a call: what it does, and what it has read

policyVars == <<pdraft, pver, pdoc, appr, published, pcall>>

NoVersion == 0
NoText    == 0
NoId      == -1
FirstNumber == 0
NoDraftRow == [st |-> "absent", lock |-> 0, text |-> NoText, built |-> NoText,
               first |-> FALSE, base |-> NoVersion, num |-> FirstNumber]
NoVersionRow == [st |-> "absent", draft |-> NoId, base |-> NoVersion, num |-> FirstNumber,
                 text |-> NoText, built |-> NoText]
NoCall == [op |-> "none", id |-> NoId, lock |-> 0, text |-> NoText, built |-> NoText,
           st |-> "none", current |-> NoVersion]

PolicyInit ==
  /\ pdraft = [d \in PDrafts |-> NoDraftRow]
  /\ pver   = [v \in PVersions |-> NoVersionRow]
  /\ pdoc   = [current |-> NoVersion, num |-> FirstNumber]
  /\ appr   = [a \in Approvals |-> [st |-> "absent", version |-> NoVersion]]
  /\ published = {}
  /\ pcall  = [c \in Calls |-> NoCall]

OldestFree(ids, rows) ==
  {i \in ids : rows[i].st = "absent" /\ \A j \in ids : rows[j].st = "absent" => i <= j}

-----------------------------------------------------------------------------
(* Drafts.                                                                 *)

OpenStates == {"editing", "ready"}

(* uq_aria_drafts_open_revision: revisions of a document, not the draft of *)
(* a new one, exclude each other while they are open.                      *)
MayBeOpen(d) ==
  \/ pdraft[d].first
  \/ \A e \in PDrafts \ {d} : pdraft[e].st \in OpenStates => pdraft[e].first

Fresh(first, base, num) ==
  [st |-> "editing", lock |-> 1, text |-> 1, built |-> NoText,
   first |-> first, base |-> base, num |-> num]

(* create_draft_from_generation, for a policy that does not exist yet.     *)
Generate ==
  /\ \A d \in PDrafts : pdraft[d].st = "absent"
  /\ \E d \in OldestFree(PDrafts, pdraft) :
       pdraft' = [pdraft EXCEPT ![d] = Fresh(TRUE, NoVersion, FirstNumber)]
  /\ UNCHANGED <<pver, pdoc, appr, published, pcall>>

(* start_revision_draft: the number after the one the document shows.      *)
StartRevision ==
  /\ pdoc.current # NoVersion
  /\ \E d \in OldestFree(PDrafts, pdraft) :
       /\ MayBeOpen(d)
       /\ pdraft' = [pdraft EXCEPT ![d] = Fresh(FALSE, pdoc.current, pdoc.num + 1)]
  /\ UNCHANGED <<pver, pdoc, appr, published, pcall>>

(* recover_draft: a copy of a draft that was given up.                     *)
Recover(source) ==
  /\ pdraft[source].st \in {"discarded", "expired"}
  /\ \E d \in OldestFree(PDrafts, pdraft) :
       /\ pdraft[source].first \/ MayBeOpen(d)
       /\ pdraft' = [pdraft EXCEPT ![d] =
                       Fresh(pdraft[source].first, pdraft[source].base, pdraft[source].num)]
  /\ UNCHANGED <<pver, pdoc, appr, published, pcall>>

(* discard_draft                                                           *)
MayDiscard(d) == pdraft[d].st \in OpenStates

DiscardDraft(d) ==
  /\ MayDiscard(d)
  /\ pdraft' = [pdraft EXCEPT ![d].st = "discarded", ![d].lock = @ + 1]
  /\ UNCHANGED <<pver, pdoc, appr, published, pcall>>

(* expire_stale_drafts: the lock version stays.                            *)
ExpireDraft(d) ==
  /\ pdraft[d].st \in OpenStates
  /\ pdraft' = [pdraft EXCEPT ![d].st = "expired", ![d].built = NoText]
  /\ UNCHANGED <<pver, pdoc, appr, published, pcall>>

(* save_draft_body, build_draft and confirm_draft read the draft.          *)
Read(c, op, d) ==
  /\ pcall[c] = NoCall
  /\ pdraft[d].st \in IF op = "confirm" THEN {"ready"} ELSE OpenStates
  /\ op = "confirm" \/ pdraft[d].lock < MaxLock
  /\ pcall' = [pcall EXCEPT ![c] = [NoCall EXCEPT !.op = op, !.id = d, !.lock = pdraft[d].lock,
                                      !.text = pdraft[d].text, !.built = pdraft[d].built]]
  /\ UNCHANGED <<pdraft, pver, pdoc, appr, published>>

Drop(c) ==
  /\ pcall[c] # NoCall
  /\ pcall' = [pcall EXCEPT ![c] = NoCall]
  /\ UNCHANGED <<pdraft, pver, pdoc, appr, published>>

(* The lock version is the one that was read.  (Slip: it is not compared.) *)
Slip_SameDraft(c) == TRUE
SameDraft(c) == pdraft[pcall[c].id].lock = pcall[c].lock

(* A save makes a text, and whatever was built is void.                    *)
SaveDraft(c) ==
  LET d == pcall[c].id IN
  /\ pcall[c].op = "save" /\ SameDraft(c) /\ MayBeOpen(d)
  /\ pdraft' = [pdraft EXCEPT ![d].st = "editing", ![d].lock = @ + 1,
                              ![d].text = pdraft[d].lock + 1, ![d].built = NoText]
  /\ pcall' = [pcall EXCEPT ![c] = NoCall]
  /\ UNCHANGED <<pver, pdoc, appr, published>>

Build(c) ==
  LET d == pcall[c].id IN
  /\ pcall[c].op = "build" /\ SameDraft(c) /\ MayBeOpen(d)
  /\ pdraft' = [pdraft EXCEPT ![d].st = "ready", ![d].lock = @ + 1, ![d].built = pcall[c].text]
  /\ pcall' = [pcall EXCEPT ![c] = NoCall]
  /\ UNCHANGED <<pver, pdoc, appr, published>>

-----------------------------------------------------------------------------
(* Versions.                                                               *)

CandidateStates == {"draft", "pending"}
Candidates == {v \in PVersions : pver[v].st \in CandidateStates}

(* A first draft makes the document, under its reserved number; a revision *)
(* must be of what is current, and alone.                                  *)
Timely(d) ==
  IF pdraft[d].first THEN pdoc.current = NoVersion
  ELSE pdoc.current = pdraft[d].base /\ Candidates = {}

(* uq_aria_versions_doc_version, and the unique draft_id.                  *)
NumberFree(d) ==
  \A v \in PVersions : pver[v].st # "absent" => pver[v].num # pdraft[d].num /\ pver[v].draft # d

(* confirm_draft: the version is what was read; whether the draft could be *)
(* marked committed is not looked at.                                      *)
Confirm(c) ==
  LET d == pcall[c].id IN
  /\ pcall[c].op = "confirm"
  /\ Quick => pdraft[d].st = "ready" /\ pdraft[d].lock = pcall[c].lock
  /\ Timely(d) /\ NumberFree(d)
  /\ \E v \in OldestFree(PVersions, pver) :
       /\ pver' = [pver EXCEPT ![v] =
                     [st |-> "draft", draft |-> d, base |-> pdraft[d].base, num |-> pdraft[d].num,
                      text |-> pcall[c].text, built |-> pcall[c].built]]
       /\ pdoc' = IF pdoc.current = NoVersion THEN [current |-> v, num |-> pdraft[d].num] ELSE pdoc
  /\ pdraft' = IF pdraft[d].lock = pcall[c].lock
               THEN [pdraft EXCEPT ![d].st = "committed", ![d].lock = @ + 1] ELSE pdraft
  /\ pcall' = [pcall EXCEPT ![c] = NoCall]
  /\ UNCHANGED <<appr, published>>

(* What was withdrawn may come again while nothing took its place.         *)
(* (Slip: whatever did.)                                                   *)
Slip_Resubmittable(v) == pver[v].st = "withdrawn"
Resubmittable(v) == pver[v].st = "withdrawn" /\ pdoc.current \in {v, pver[v].base}

(* submit_for_approval reads the version and the document ...              *)
ReadVersion(c, v) ==
  /\ pcall[c] = NoCall
  /\ pver[v].st = "draft" \/ Resubmittable(v)
  /\ pcall' = [pcall EXCEPT ![c] = [NoCall EXCEPT !.op = "submit", !.id = v, !.st = pver[v].st,
                                                  !.current = pdoc.current]]
  /\ UNCHANGED <<pdraft, pver, pdoc, appr, published>>

(* ... and stores the submission, unless one is pending (looked for, and   *)
(* refused by uq_aria_approvals_one_pending).                              *)
NonePending == \A a \in Approvals : appr[a].st # "pending"

Submit(c) ==
  LET v == pcall[c].id IN
  /\ pcall[c].op = "submit"
  /\ Quick => pver[v].st = pcall[c].st /\ pdoc.current = pcall[c].current
  /\ NonePending /\ Candidates \subseteq {v}
  /\ \E a \in OldestFree(Approvals, appr) :
       appr' = [appr EXCEPT ![a] = [st |-> "pending", version |-> v]]
  /\ pver' = [pver EXCEPT ![v].st = "pending"]
  /\ pcall' = [pcall EXCEPT ![c] = NoCall]
  /\ UNCHANGED <<pdraft, pdoc, published>>

-----------------------------------------------------------------------------
(* Decisions.                                                              *)

(* Only a pending submission is decided.  (Slip: any.)                     *)
Slip_MayDecide(a) == appr[a].st # "absent"
MayDecide(a) == appr[a].st = "pending"

ConcludeApproval(a, st) ==
  /\ MayDecide(a)
  /\ appr' = [appr EXCEPT ![a].st = st]
  /\ pver' = [pver EXCEPT ![appr[a].version].st = st]
  /\ UNCHANGED <<pdraft, pcall>>

(* decide_approval: the version becomes the document, and a job to publish *)
(* it, one for each version, is stored.                                    *)
ApproveVersion(a) ==
  LET v == appr[a].version IN
  /\ ConcludeApproval(a, "approved") /\ v \notin published
  /\ pdoc' = [current |-> v, num |-> pver[v].num]
  /\ published' = published \cup {v}

Reject(a)   == ConcludeApproval(a, "rejected")  /\ UNCHANGED <<pdoc, published>>
Withdraw(a) == ConcludeApproval(a, "withdrawn") /\ UNCHANGED <<pdoc, published>>

PolicyNext ==
  \/ Generate \/ StartRevision
  \/ \E d \in PDrafts : Recover(d) \/ DiscardDraft(d) \/ ExpireDraft(d)
  \/ \E c \in Calls :
       \/ \E op \in {"save", "build", "confirm"}, d \in PDrafts : Read(c, op, d)
       \/ \E v \in PVersions : ReadVersion(c, v)
       \/ SaveDraft(c) \/ Build(c) \/ Confirm(c) \/ Submit(c) \/ Drop(c)
  \/ \E a \in Approvals : ApproveVersion(a) \/ Reject(a) \/ Withdraw(a)

PolicySpec == PolicyInit /\ [][PolicyNext]_policyVars

-----------------------------------------------------------------------------
(* Properties.                                                             *)

PolicyTypes ==
  /\ pdraft \in [PDrafts -> [st : {"absent", "editing", "ready", "committed", "discarded", "expired"},
                             lock : Nat, text : Nat, built : Nat, first : BOOLEAN,
                             base : PVersions \cup {NoVersion}, num : Nat]]
  /\ pver \in [PVersions -> [st : {"absent", "draft", "pending", "approved", "rejected", "withdrawn"},
                             draft : PDrafts \cup {NoId}, base : PVersions \cup {NoVersion}, num : Nat,
                             text : Nat, built : Nat]]
  /\ pdoc \in [current : PVersions \cup {NoVersion}, num : Nat]
  /\ appr \in [Approvals -> [st : {"absent", "pending", "approved", "rejected", "withdrawn"},
                             version : PVersions \cup {NoVersion}]]
  /\ published \subseteq PVersions
  /\ pcall \in [Calls -> [op : {"none", "save", "build", "confirm", "submit"},
                          id : PDrafts \cup PVersions \cup {NoId}, lock : Nat, text : Nat, built : Nat,
                          st : {"none", "draft", "withdrawn"}, current : PVersions \cup {NoVersion}]]

(* build_draft, confirm_draft: what becomes a version is the text that was *)
(* rendered and previewed, although saves go on while a build converts.    *)
VersionIsWhatWasBuilt ==
  \A v \in PVersions : pver[v].st # "absent" => pver[v].text = pver[v].built

(* submit_for_approval, decide, withdraw: at most one version waits for a  *)
(* decision, and exactly while its one submission does.                    *)
OneSubmission ==
  /\ \A a, b \in Approvals : appr[a].st = "pending" /\ appr[b].st = "pending" => a = b
  /\ \A v \in PVersions :
       pver[v].st = "pending" <=> \E a \in Approvals : appr[a].st = "pending" /\ appr[a].version = v

(* submit_for_approval L1191-1202, decide_approval: an approval never      *)
(* brings back a version that others have replaced: it is of the current   *)
(* one, or was based on it; the first decision wins, an approved version   *)
(* stays so.                                                               *)
ApprovedOnItsBase ==
  [][\A v \in PVersions :
       /\ pdoc'.current = v /\ pdoc.current # NoVersion => pdoc.current \in {v, pver[v].base}
       /\ pver[v].st = "approved" => pver'[v].st = "approved"]_policyVars

(* _next_preview_version L137-140 says confirm reserves the number against *)
(* every other one: a built draft of the current version, with no other    *)
(* candidate, can be confirmed.                                            *)
TimelyDraftConfirms ==
  \A d \in PDrafts : pdraft[d].st = "ready" /\ ~pdraft[d].first /\ Timely(d) => NumberFree(d)
=============================================================================
