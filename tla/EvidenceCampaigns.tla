------------------------- MODULE EvidenceCampaigns -------------------------
(***************************************************************************)
(* Requests for evidence and their campaign                                *)
(* (evidence_campaigns/data_service.py), and the daily sweep of several    *)
(* server processes under the lease lock they share (scheduler.py, and     *)
(* try_acquire_scheduler_lock of database.py): overdue requests are marked,*)
(* reminders are queued, a closed campaign gets its successor.             *)
(*                                                                         *)
(* Assumed of the schedule: a sweep runs once a day and ends on its day;   *)
(* the lease, of an hour, is over by the next one.                         *)
(*                                                                         *)
(* Data abstracted: a due date is days ahead, within three days, or past;  *)
(* the evidence of a submission is the lock version it made; people are    *)
(* left out, as are tasks, calendars and notices.                          *)
(***************************************************************************)
EXTENDS Integers, FiniteSets

CONSTANTS
  EReqs,      \* ids of evidence_requests of a campaign
  EPeople,    \* calls of submit, start_review, decide, cancel and close at one time
  ESweepers,  \* one daily job per server process
  MaxDays,    \* bound on days
  MaxSteps,   \* bound on the lock version of a request
  Calm        \* TRUE: no request changes between a sweep's list and its update

(* Assumed of the constants. *)
ASSUME CampaignAssumption == MaxDays \in Nat /\ MaxSteps \in Nat /\ Calm \in BOOLEAN

VARIABLES
  ereq,      \* evidence_requests, with their reminders in email_reminders
  camp,      \* evidence_campaigns: its status, and the successors stored
  held,      \* scheduler_locks: the sweep's lease
  day,
  ecall,     \* a call: what it does, and what it has read
  esweep     \* a sweep: where it is, and the requests it has listed

campaignVars == <<ereq, camp, held, day, ecall, esweep>>

NoReq == "none"
Out == [op |-> "none", id |-> NoReq, lock |-> 0, ev |-> 0]
Off == [at |-> "idle", rows |-> {}]

CampaignInit ==
  /\ ereq = [r \in EReqs |-> [st |-> "absent", lock |-> 0, ev |-> 0, due |-> "ahead",
                              queued |-> FALSE, sent |-> 0]]
  /\ camp = [st |-> "active", next |-> 0]
  /\ held = FALSE /\ day = 0
  /\ ecall = [c \in EPeople |-> Out]
  /\ esweep = [s \in ESweepers |-> Off]

Terminal == {"accepted", "cancelled"}
Pending  == {"requested", "submitted", "in_review", "returned"}

-----------------------------------------------------------------------------
(* Requests.  create_request does not ask whether the campaign is closed.  *)

Create(r) ==
  /\ ereq[r].st = "absent"
  /\ \E due \in {"ahead", "soon"} :
       ereq' = [ereq EXCEPT ![r].st = "requested", ![r].lock = 1, ![r].due = due]
  /\ UNCHANGED <<camp, held, day, ecall, esweep>>

From(op) ==
  CASE op = "submit" -> {"requested", "returned", "overdue"}
    [] op = "review" -> {"submitted"}
    [] op \in {"accept", "return"} -> {"in_review"}
    [] op = "cancel" -> Pending \cup {"overdue"}

To == [submit |-> "submitted", review |-> "in_review", accept |-> "accepted",
       return |-> "returned", cancel |-> "cancelled"]

(* A call reads the request and checks its status ...                      *)
ReadRequest(c, op, r) ==
  /\ ecall[c] = Out
  /\ ereq[r].st \in From(op) /\ ereq[r].lock < MaxSteps
  /\ ecall' = [ecall EXCEPT ![c] = [op |-> op, id |-> r, lock |-> ereq[r].lock, ev |-> ereq[r].ev]]
  /\ UNCHANGED <<ereq, camp, held, day, esweep>>

(* ... and writes if the lock version is still that.  (Slip: anyway.)      *)
Slip_SameLock(c) == TRUE
SameLock(c) == ereq[ecall[c].id].lock = ecall[c].lock

Listed(r) == \E s \in ESweepers : r \in esweep[s].rows

WriteRequest(c) ==
  LET r == ecall[c].id IN
  /\ r # NoReq /\ SameLock(c)
  /\ Calm => ~Listed(r)
  /\ ereq' = [ereq EXCEPT ![r].st = To[ecall[c].op], ![r].lock = @ + 1,
                          ![r].ev = IF ecall[c].op = "submit" THEN ereq[r].lock + 1 ELSE @]
  /\ ecall' = [ecall EXCEPT ![c] = Out]
  /\ UNCHANGED <<camp, held, day, esweep>>

CallEnds(c) ==
  /\ ecall[c] # Out
  /\ ecall' = [ecall EXCEPT ![c] = Out]
  /\ UNCHANGED <<ereq, camp, held, day, esweep>>

(* close_campaign counts what is not accepted or cancelled, and closes if  *)
(* there is none, or it is forced to.                                      *)
Uncovered == {r \in EReqs : ereq[r].st \notin Terminal \cup {"absent"}}
CountUncovered(c, force) ==
  /\ ecall[c] = Out /\ camp.st = "active" /\ (Uncovered = {} \/ force)
  /\ ecall' = [ecall EXCEPT ![c] = [Out EXCEPT !.op = "close"]]
  /\ UNCHANGED <<ereq, camp, held, day, esweep>>
Close(c) ==
  /\ ecall[c].op = "close"
  /\ camp' = [camp EXCEPT !.st = "closed"]
  /\ ecall' = [ecall EXCEPT ![c] = Out]
  /\ UNCHANGED <<ereq, held, day, esweep>>

-----------------------------------------------------------------------------
(* The sweep.                                                              *)

(* try_acquire_scheduler_lock: an insert, or an update of a lease that is  *)
(* over, in one statement.  (Slip: the lease is not asked for.)            *)
Slip_LockFree == TRUE
LockFree == ~held

Acquire(s) ==
  /\ esweep[s].at = "idle" /\ LockFree
  /\ held' = TRUE
  /\ esweep' = [esweep EXCEPT ![s].at = "list"]
  /\ UNCHANGED <<ereq, camp, day, ecall>>

(* mark_overdue_requests: select, then update each by its id.              *)
ListOverdue(s) ==
  /\ esweep[s].at = "list"
  /\ esweep' = [esweep EXCEPT ![s].at = "mark",
                  ![s].rows = {r \in EReqs : ereq[r].due = "past" /\ ereq[r].st \in Pending}]
  /\ UNCHANGED <<ereq, camp, held, day, ecall>>

MarkOverdue(s) ==
  /\ esweep[s].at = "mark"
  /\ ereq' = [r \in EReqs |-> IF r \in esweep[s].rows THEN [ereq[r] EXCEPT !.st = "overdue"] ELSE ereq[r]]
  /\ esweep' = [esweep EXCEPT ![s] = [at |-> "remind", rows |-> {}]]
  /\ UNCHANGED <<camp, held, day, ecall>>

(* schedule_reminders: one for a request due soon, unless one is queued.   *)
ToRemind(r) == ereq[r].st = "requested" /\ ereq[r].due # "ahead"
Remind(s) ==
  /\ esweep[s].at = "remind"
  /\ ereq' = [r \in EReqs |-> IF ToRemind(r) THEN [ereq[r] EXCEPT !.queued = TRUE] ELSE ereq[r]]
  /\ esweep' = [esweep EXCEPT ![s].at = "look"]
  /\ UNCHANGED <<camp, held, day, ecall>>

(* generate_recurring_campaigns: look for a successor, then insert one.    *)
LookForNext(s) ==
  /\ esweep[s].at = "look"
  /\ esweep' = [esweep EXCEPT ![s].at = IF camp.st = "closed" /\ camp.next = 0 THEN "recur" ELSE "idle"]
  /\ UNCHANGED <<ereq, camp, held, day, ecall>>
Recur(s) ==
  /\ esweep[s].at = "recur"
  /\ camp' = [camp EXCEPT !.next = @ + 1]
  /\ esweep' = [esweep EXCEPT ![s] = Off]
  /\ UNCHANGED <<ereq, held, day, ecall>>

(* An error ends the organization's part; the lease stays.                 *)
SweepFails(s) ==
  /\ esweep[s].at # "idle"
  /\ esweep' = [esweep EXCEPT ![s] = Off]
  /\ UNCHANGED <<ereq, camp, held, day, ecall>>

(* The five-minute reminder job sends what is queued.                      *)
SendReminder(r) ==
  /\ ereq[r].queued
  /\ ereq' = [ereq EXCEPT ![r].queued = FALSE, ![r].sent = @ + 1]
  /\ UNCHANGED <<camp, held, day, ecall, esweep>>

NextDay ==
  /\ day < MaxDays /\ \A s \in ESweepers : esweep[s].at = "idle"
  /\ day' = day + 1 /\ held' = FALSE
  /\ \E later \in SUBSET EReqs :
       ereq' = [r \in EReqs |-> IF r \in later
                                THEN [ereq[r] EXCEPT !.due = IF @ = "ahead" THEN "soon" ELSE "past"]
                                ELSE ereq[r]]
  /\ UNCHANGED <<camp, ecall, esweep>>

CampaignNext ==
  \/ \E r \in EReqs : Create(r) \/ SendReminder(r)
  \/ \E c \in EPeople :
       \/ \E op \in DOMAIN To, r \in EReqs : ReadRequest(c, op, r)
       \/ \E force \in BOOLEAN : CountUncovered(c, force)
       \/ WriteRequest(c) \/ CallEnds(c) \/ Close(c)
  \/ \E s \in ESweepers :
       \/ Acquire(s) \/ ListOverdue(s) \/ MarkOverdue(s) \/ Remind(s)
       \/ LookForNext(s) \/ Recur(s) \/ SweepFails(s)
  \/ NextDay

CampaignSpec == CampaignInit /\ [][CampaignNext]_campaignVars

-----------------------------------------------------------------------------
(* Properties.                                                             *)

CampaignTypes ==
  /\ ereq \in [EReqs -> [st : Pending \cup Terminal \cup {"absent", "overdue"}, lock : Nat, ev : Nat,
                         due : {"ahead", "soon", "past"}, queued : BOOLEAN, sent : Nat]]
  /\ camp \in [st : {"active", "closed"}, next : Nat]
  /\ held \in BOOLEAN /\ day \in 0 .. MaxDays
  /\ ecall \in [EPeople -> [op : {"none", "close"} \cup DOMAIN To, id : EReqs \cup {NoReq}, lock : Nat, ev : Nat]]
  /\ esweep \in [ESweepers -> [at : {"idle", "list", "mark", "remind", "look", "recur"}, rows : SUBSET EReqs]]

(* decide_request: what is accepted is the evidence the reviewer saw, also *)
(* when the sweep reopened the request and something else was submitted;   *)
(* and it stays accepted, as what is cancelled stays cancelled (L14-18),   *)
(* whoever decides, cancels or sweeps at once.                             *)
AcceptedWhatWasSeen ==
  [][\A r \in EReqs :
       /\ ereq[r].st # "accepted" /\ ereq'[r].st = "accepted"
            => \E c \in EPeople : /\ ecall[c].op = "accept" /\ ecall[c].id = r
                                  /\ ecall[c].ev = ereq'[r].ev
       /\ ereq[r].st \in Terminal => ereq'[r].st = ereq[r].st]_campaignVars

(* generate_recurring_campaigns: a successor is looked for and inserted in *)
(* two statements, by several processes; it is the lease that makes it one.*)
OneSuccessor == camp.next <= 1

=============================================================================
