--------------------------- MODULE EvidenceProofs ---------------------------
(* Invariance proofs for evidence: requests and the daily sweep, for any   *)
(* number of requests, people, processes and days, and the filing of what  *)
(* waits in the staging area, for any number of files, items and uploads.  *)
EXTENDS EvidenceCampaigns, EvidenceFiling, TLAPS

(***************************************************************************)
(* Requests and the sweep.                                                 *)
(***************************************************************************)

Ops == {"submit", "review", "accept", "return", "cancel"}
ReqRow == [st : Pending \cup Terminal \cup {"absent", "overdue"}, lock : Nat, ev : Nat,
           due : {"ahead", "soon", "past"}, queued : BOOLEAN, sent : Nat]
ECallRec  == [op : {"none", "close"} \cup Ops, id : EReqs \cup {NoReq}, lock : Nat, ev : Nat]
SweepRec == [at : {"idle", "list", "mark", "remind", "look", "recur"}, rows : SUBSET EReqs]

ReqsOK   == ereq \in [EReqs -> ReqRow]
CampOK   == camp \in [st : {"active", "closed"}, next : Nat] /\ held \in BOOLEAN /\ day \in 0 .. MaxDays
ECallsOK  == /\ ecall \in [EPeople -> ECallRec]
            /\ \A c \in EPeople : ecall[c].id # NoReq => ecall[c].op \in Ops
SweepsOK == esweep \in [ESweepers -> SweepRec]
CampaignTyped == ReqsOK /\ CampOK /\ ECallsOK /\ SweepsOK

LEMMA OpsOfCalls == /\ DOMAIN To = Ops
                    /\ \A op \in Ops : /\ To[op] \in Pending \cup Terminal
                                       /\ To[op] = "accepted" => op = "accept"
                                       /\ From(op) \subseteq Pending \cup {"overdue"}
BY DEF To, Ops, From, Pending, Terminal

-----------------------------------------------------------------------------
(* What the steps do, one at a time.                                       *)

(* What a call wrote.                                                      *)
LEMMA EWriteIs ==
  ASSUME CampaignTyped, NEW c \in EPeople, WriteRequest(c)
  PROVE  LET r == ecall[c].id IN
         /\ r \in EReqs /\ ecall[c].op \in Ops /\ ecall[c].lock = ereq[r].lock
         /\ ereq' = [ereq EXCEPT ![r] = ereq'[r]] /\ ereq'[r] \in ReqRow
         /\ ereq'[r].st = To[ecall[c].op] /\ ereq'[r].lock = ereq[r].lock + 1
         /\ ecall[c].op # "submit" => ereq'[r].ev = ereq[r].ev
<1> DEFINE r == ecall[c].id
<1> USE DEF CampaignTyped, ReqsOK, ECallsOK
<1>1. r \in EReqs /\ ecall[c].op \in Ops /\ ecall[c].lock = ereq[r].lock
  BY DEF WriteRequest, SameLock, ECallRec
<1>2. PICK e : /\ e = (IF ecall[c].op = "submit" THEN ereq[r].lock + 1 ELSE ereq[r].ev)
               /\ ereq' = [ereq EXCEPT ![r].st = To[ecall[c].op], ![r].lock = @ + 1, ![r].ev = e]
  BY DEF WriteRequest
<1>3. ereq[r] \in ReqRow
  BY <1>1
<1>4. ereq[r].lock + 1 \in Nat /\ e \in Nat /\ To[ecall[c].op] \in Pending \cup Terminal
  BY <1>1, <1>2, <1>3, OpsOfCalls DEF ReqRow
<1>5. ereq'[r] = [st |-> To[ecall[c].op], lock |-> ereq[r].lock + 1, ev |-> e, due |-> ereq[r].due,
                  queued |-> ereq[r].queued, sent |-> ereq[r].sent]
  BY <1>1, <1>2, <1>3 DEF ReqRow
<1>6. ereq' = [ereq EXCEPT ![r] = ereq'[r]]
  BY <1>1, <1>2
<1>7. ereq'[r] \in ReqRow
  BY <1>3, <1>4, <1>5 DEF ReqRow
<1>8. ereq'[r].st = To[ecall[c].op] /\ ereq'[r].lock = ereq[r].lock + 1 /\ ereq'[r].ev = e
  BY <1>5
<1> QED BY <1>1, <1>2, <1>6, <1>7, <1>8

(* The steps that leave lock, evidence and, but for MarkOverdue, status.   *)
Soft == \/ \E r \in EReqs : SendReminder(r)
        \/ \E s \in ESweepers : MarkOverdue(s) \/ Remind(s)
        \/ NextDay

LEMMA SoftIs ==
  ASSUME CampaignTyped, Soft
  PROVE  /\ ereq' \in [EReqs -> ReqRow]
         /\ \A r \in EReqs : /\ ereq'[r].lock = ereq[r].lock /\ ereq'[r].ev = ereq[r].ev
                             /\ ereq'[r].st = ereq[r].st \/ (ereq'[r].st = "overdue" /\ Listed(r))
<1> USE DEF CampaignTyped, ReqsOK
<1> DEFINE Goal == /\ ereq' \in [EReqs -> ReqRow]
                   /\ \A r \in EReqs : /\ ereq'[r].lock = ereq[r].lock /\ ereq'[r].ev = ereq[r].ev
                                       /\ ereq'[r].st = ereq[r].st \/ (ereq'[r].st = "overdue" /\ Listed(r))
<1>1. ASSUME NEW r \in EReqs, SendReminder(r) PROVE Goal
  <2>1. /\ ereq' = [ereq EXCEPT ![r] = ereq'[r]]
        /\ ereq'[r] = [st |-> ereq[r].st, lock |-> ereq[r].lock, ev |-> ereq[r].ev, due |-> ereq[r].due,
                       queued |-> FALSE, sent |-> ereq[r].sent + 1]
    BY <1>1 DEF SendReminder, ReqRow
  <2>2. ereq[r].sent + 1 \in Nat
    BY DEF ReqRow
  <2>3. ereq'[r] \in ReqRow
    BY <2>1, <2>2 DEF ReqRow
  <2>4. ereq'[r].lock = ereq[r].lock /\ ereq'[r].ev = ereq[r].ev /\ ereq'[r].st = ereq[r].st
    BY <2>1
  <2>5. \A q \in EReqs \ {r} : ereq'[q] = ereq[q]
    BY <2>1
  <2>6. ereq' \in [EReqs -> ReqRow]
    BY <2>1, <2>3
  <2> QED BY <2>4, <2>5, <2>6
<1>2. ASSUME NEW s \in ESweepers, MarkOverdue(s) PROVE Goal
  <2>1. \A r \in EReqs : ereq'[r] = IF r \in esweep[s].rows THEN [ereq[r] EXCEPT !.st = "overdue"] ELSE ereq[r]
    BY <1>2 DEF MarkOverdue
  <2>2. \A r \in EReqs : [ereq[r] EXCEPT !.st = "overdue"] \in ReqRow
    BY DEF ReqRow
  <2>3. ereq' \in [EReqs -> ReqRow]
    BY <1>2, <2>1, <2>2 DEF MarkOverdue
  <2>4. \A r \in EReqs : /\ ereq'[r].lock = ereq[r].lock /\ ereq'[r].ev = ereq[r].ev
                         /\ ereq'[r].st = ereq[r].st \/ (ereq'[r].st = "overdue" /\ r \in esweep[s].rows)
    BY <2>1 DEF ReqRow
  <2>5. \A r \in esweep[s].rows : Listed(r)
    BY DEF Listed
  <2> QED BY <2>3, <2>4, <2>5
<1>3. ASSUME NEW s \in ESweepers, Remind(s) PROVE Goal
  <2>1. \A r \in EReqs : ereq'[r] = IF ToRemind(r) THEN [ereq[r] EXCEPT !.queued = TRUE] ELSE ereq[r]
    BY <1>3 DEF Remind
  <2>2. \A r \in EReqs : [ereq[r] EXCEPT !.queued = TRUE] \in ReqRow
    BY DEF ReqRow
  <2>3. ereq' \in [EReqs -> ReqRow]
    BY <1>3, <2>1, <2>2 DEF Remind
  <2>4. \A r \in EReqs : ereq'[r].lock = ereq[r].lock /\ ereq'[r].ev = ereq[r].ev /\ ereq'[r].st = ereq[r].st
    BY <2>1 DEF ReqRow
  <2> QED BY <2>3, <2>4
<1>4. ASSUME NextDay PROVE Goal
  <2>1. PICK later \in SUBSET EReqs :
          ereq' = [r \in EReqs |-> IF r \in later
                                   THEN [ereq[r] EXCEPT !.due = IF @ = "ahead" THEN "soon" ELSE "past"]
                                   ELSE ereq[r]]
    BY <1>4 DEF NextDay
  <2>2. \A r \in EReqs : ereq'[r] = ereq[r] \/ \E d \in {"soon", "past"} : ereq'[r] = [ereq[r] EXCEPT !.due = d]
    BY <2>1
  <2>3. \A r \in EReqs, d \in {"soon", "past"} :
          LET e == [ereq[r] EXCEPT !.due = d] IN
          e \in ReqRow /\ e.lock = ereq[r].lock /\ e.ev = ereq[r].ev /\ e.st = ereq[r].st
    BY DEF ReqRow
  <2>4. ereq' \in [EReqs -> ReqRow]
    BY <2>1, <2>2, <2>3
  <2> QED BY <2>2, <2>3, <2>4
<1> HIDE DEF Goal
<1>5. ASSUME NEW s \in ESweepers, MarkOverdue(s) \/ Remind(s) PROVE Goal
  BY <1>2, <1>3, <1>5
<1>6. Goal
  BY <1>1, <1>4, <1>5 DEF Soft
<1> QED BY <1>6 DEF Goal

LEMMA CreateIs ==
  ASSUME CampaignTyped, NEW r \in EReqs, Create(r)
  PROVE  /\ ereq[r].st = "absent" /\ ereq'[r].st = "requested"
         /\ ereq' = [ereq EXCEPT ![r] = ereq'[r]] /\ ereq'[r] \in ReqRow
         /\ UNCHANGED <<camp, held, day, ecall, esweep>>
<1> USE DEF CampaignTyped, ReqsOK
<1>1. PICK due \in {"ahead", "soon"} :
        ereq' = [ereq EXCEPT ![r].st = "requested", ![r].lock = 1, ![r].due = due]
  BY DEF Create
<1>2. ereq'[r] = [st |-> "requested", lock |-> 1, ev |-> ereq[r].ev, due |-> due,
                  queued |-> ereq[r].queued, sent |-> ereq[r].sent]
  BY <1>1 DEF ReqRow
<1>3. ereq'[r] \in ReqRow /\ ereq'[r].st = "requested"
  BY <1>2 DEF ReqRow, Pending
<1>4. ereq' = [ereq EXCEPT ![r] = ereq'[r]]
  BY <1>1
<1> QED BY <1>3, <1>4 DEF Create

LEMMA CampaignTypedStep ==
  ASSUME CampaignTyped, [CampaignNext]_campaignVars
  PROVE  CampaignTyped'
<1> USE DEF CampaignTyped
<1>1. ReqsOK'
  <2>1. ASSUME NEW r \in EReqs, Create(r) PROVE ReqsOK'
    BY <2>1, CreateIs DEF ReqsOK
  <2>2. ASSUME NEW c \in EPeople, WriteRequest(c) PROVE ReqsOK'
    BY <2>2, EWriteIs DEF ReqsOK
  <2>3. CASE Soft
    BY <2>3, SoftIs DEF ReqsOK
  <2>4. CASE ereq' = ereq
    BY <2>4 DEF ReqsOK
  <2> QED BY <2>1, <2>2, <2>3, <2>4 DEF CampaignNext, Soft, ReadRequest, CountUncovered, CallEnds, Close,
            Acquire, ListOverdue, LookForNext, Recur, SweepFails, campaignVars
<1>2. CampOK'
  <2>1. ASSUME NEW c \in EPeople, Close(c) PROVE CampOK'
    BY <2>1 DEF Close, CampOK
  <2>2. ASSUME NEW s \in ESweepers, Recur(s) PROVE CampOK'
    BY <2>2 DEF Recur, CampOK
  <2>3. CASE NextDay
    <3>1. day' \in 0 .. MaxDays /\ camp' = camp
      BY <2>3, CampaignAssumption DEF NextDay, CampOK
    <3>2. held' \in BOOLEAN
      BY <2>3 DEF NextDay
    <3> QED BY <3>1, <3>2 DEF CampOK
  <2>4. ASSUME NEW s \in ESweepers, Acquire(s) PROVE CampOK'
    BY <2>4 DEF Acquire, CampOK
  <2>5. CASE UNCHANGED <<camp, held, day>>
    BY <2>5 DEF CampOK
  <2> QED BY <2>1, <2>2, <2>3, <2>4, <2>5 DEF CampaignNext, Create, SendReminder, ReadRequest, CountUncovered,
            WriteRequest, CallEnds, ListOverdue, MarkOverdue, Remind, LookForNext, SweepFails, campaignVars
<1>3. ECallsOK'
  <2>1. Out \in ECallRec /\ Out.id = NoReq
    BY DEF Out, ECallRec
  <2>2. ASSUME NEW c \in EPeople, NEW op \in DOMAIN To, NEW r \in EReqs, ReadRequest(c, op, r) PROVE ECallsOK'
    <3>1. op \in Ops /\ ereq[r].lock \in Nat /\ ereq[r].ev \in Nat
      BY OpsOfCalls DEF ReqsOK, ReqRow
    <3> QED BY <2>2, <3>1 DEF ReadRequest, ECallsOK, ECallRec
  <2>3. ASSUME NEW c \in EPeople, NEW force \in BOOLEAN, CountUncovered(c, force) PROVE ECallsOK'
    <3>1. [Out EXCEPT !.op = "close"] = [op |-> "close", id |-> NoReq, lock |-> 0, ev |-> 0]
      BY DEF Out
    <3>2. [op |-> "close", id |-> NoReq, lock |-> 0, ev |-> 0] \in ECallRec
      BY DEF ECallRec
    <3> QED BY <2>3, <3>1, <3>2 DEF CountUncovered, ECallsOK
  <2>4. ASSUME NEW c \in EPeople, WriteRequest(c) \/ CallEnds(c) \/ Close(c) PROVE ECallsOK'
    BY <2>1, <2>4 DEF WriteRequest, CallEnds, Close, ECallsOK
  <2>5. CASE ecall' = ecall
    BY <2>5 DEF ECallsOK
  <2> QED BY <2>2, <2>3, <2>4, <2>5 DEF CampaignNext, Create, SendReminder, Acquire, ListOverdue, MarkOverdue,
            Remind, LookForNext, Recur, SweepFails, NextDay, campaignVars
<1>4. SweepsOK'
  <2>1. ASSUME NEW s \in ESweepers, Acquire(s) \/ Remind(s) \/ LookForNext(s) PROVE SweepsOK'
    BY <2>1 DEF Acquire, Remind, LookForNext, SweepsOK, SweepRec
  <2>2. ASSUME NEW s \in ESweepers, ListOverdue(s) PROVE SweepsOK'
    BY <2>2 DEF ListOverdue, SweepsOK, SweepRec
  <2>3. ASSUME NEW s \in ESweepers, MarkOverdue(s) \/ Recur(s) \/ SweepFails(s) PROVE SweepsOK'
    <3>1. Off \in SweepRec /\ [at |-> "remind", rows |-> {}] \in SweepRec
      BY DEF Off, SweepRec
    <3> QED BY <2>3, <3>1 DEF MarkOverdue, Recur, SweepFails, SweepsOK
  <2>4. CASE esweep' = esweep
    BY <2>4 DEF SweepsOK
  <2> QED BY <2>1, <2>2, <2>3, <2>4 DEF CampaignNext, Create, SendReminder, ReadRequest, CountUncovered,
            WriteRequest, CallEnds, Close, NextDay, campaignVars
<1> QED BY <1>1, <1>2, <1>3, <1>4

LEMMA TypedStart == CampaignInit => CampaignTyped
<1> SUFFICES ASSUME CampaignInit PROVE CampaignTyped
  OBVIOUS
<1>1. ReqsOK
  BY DEF CampaignInit, ReqsOK, ReqRow
<1>2. CampOK
  <2>1. camp \in [st : {"active", "closed"}, next : Nat] /\ day \in 0 .. MaxDays
    BY CampaignAssumption DEF CampaignInit
  <2>2. held \in BOOLEAN
    BY DEF CampaignInit
  <2> QED BY <2>1, <2>2 DEF CampOK
<1>3. ECallsOK
  BY DEF CampaignInit, ECallsOK, ECallRec, Out
<1>4. SweepsOK
  BY DEF CampaignInit, SweepsOK, SweepRec, Off
<1> QED BY <1>1, <1>2, <1>3, <1>4 DEF CampaignTyped

(* Type correctness of requests, campaign, calls and sweeps.               *)
THEOREM CampaignTypesTheorem == CampaignSpec => []CampaignTypes
<1>1. CampaignTyped => CampaignTypes
  BY OpsOfCalls DEF CampaignTyped, ReqsOK, CampOK, ECallsOK, SweepsOK, ReqRow, ECallRec, SweepRec, CampaignTypes
<1>2. CampaignTyped /\ [CampaignNext]_campaignVars => CampaignTyped'
  BY CampaignTypedStep
<1> QED BY <1>1, <1>2, TypedStart, PTL DEF CampaignSpec

-----------------------------------------------------------------------------
(* The successor.  A sweep runs under the lease, so there is one of them,  *)
(* and what it saw of the successors is what it finds when it inserts.     *)
Leased == /\ \A s \in ESweepers : esweep[s].at # "idle" => held
          /\ \A s, t \in ESweepers : esweep[s].at # "idle" /\ esweep[t].at # "idle" => s = t
          /\ \A s \in ESweepers : esweep[s].at = "recur" => camp.next = 0
          /\ camp.next <= 1

LEMMA LeasedStep ==
  ASSUME CampaignTyped, Leased, [CampaignNext]_campaignVars
  PROVE  Leased'
<1> USE DEF CampaignTyped
<1>1. ASSUME NEW s \in ESweepers, Acquire(s) PROVE Leased'
  <2>1. \A t \in ESweepers : esweep[t].at = "idle"
    BY <1>1 DEF Acquire, LockFree, Leased
  <2>2. /\ esweep'[s].at = "list" /\ held' /\ camp' = camp
        /\ \A t \in ESweepers \ {s} : esweep'[t] = esweep[t]
    BY <1>1 DEF Acquire, SweepsOK, SweepRec
  <2> QED BY <2>1, <2>2 DEF Leased
<1>2. ASSUME NEW s \in ESweepers, esweep[s].at # "idle", esweep'[s].at = "recur" => camp.next = 0,
             \A t \in ESweepers \ {s} : esweep'[t] = esweep[t], held' = held, camp'.next = camp.next
      PROVE  Leased'
  BY <1>2 DEF Leased
<1>3. ASSUME NEW s \in ESweepers, ListOverdue(s) \/ MarkOverdue(s) \/ Remind(s) \/ SweepFails(s) PROVE Leased'
  <2>1. /\ esweep[s].at # "idle" /\ esweep'[s].at # "recur" /\ held' = held /\ camp' = camp
        /\ \A t \in ESweepers \ {s} : esweep'[t] = esweep[t]
    BY <1>3 DEF ListOverdue, MarkOverdue, Remind, SweepFails, Off, SweepsOK, SweepRec
  <2> QED BY <1>2, <2>1
<1>4. ASSUME NEW s \in ESweepers, LookForNext(s) PROVE Leased'
  <2>1. /\ esweep[s].at # "idle" /\ held' = held /\ camp' = camp
        /\ esweep'[s].at = "recur" => camp.next = 0
        /\ \A t \in ESweepers \ {s} : esweep'[t] = esweep[t]
    BY <1>4 DEF LookForNext, SweepsOK, SweepRec
  <2> QED BY <1>2, <2>1
<1>5. ASSUME NEW s \in ESweepers, Recur(s) PROVE Leased'
  <2>1. /\ esweep[s].at = "recur" /\ esweep'[s].at = "idle" /\ held' = held
        /\ camp'.next = camp.next + 1
        /\ \A t \in ESweepers \ {s} : esweep'[t] = esweep[t]
    BY <1>5 DEF Recur, Off, SweepsOK, CampOK
  <2>2. camp.next = 0 /\ \A t \in ESweepers \ {s} : esweep[t].at = "idle"
    BY <2>1 DEF Leased
  <2> QED BY <2>1, <2>2 DEF Leased
<1>6. CASE NextDay
  BY <1>6 DEF NextDay, Leased
<1>7. ASSUME NEW c \in EPeople, Close(c) PROVE Leased'
  BY <1>7 DEF Close, Leased, CampOK
<1>8. CASE UNCHANGED <<camp, held, esweep>>
  BY <1>8 DEF Leased
<1> QED BY <1>1, <1>3, <1>4, <1>5, <1>6, <1>7, <1>8
        DEF CampaignNext, Create, SendReminder, ReadRequest, CountUncovered, WriteRequest, CallEnds, campaignVars

(* A closed campaign gets one successor, for any number of processes, when *)
(* a sweep ends within its day.                                            *)
THEOREM OneSuccessorTheorem == CampaignSpec => []OneSuccessor
<1>1. CampaignInit => Leased
  BY DEF CampaignInit, Leased, Off
<1>2. CampaignTyped /\ Leased /\ [CampaignNext]_campaignVars => CampaignTyped' /\ Leased'
  BY CampaignTypedStep, LeasedStep
<1>3. Leased => OneSuccessor
  BY DEF Leased, OneSuccessor
<1> QED BY <1>1, <1>2, <1>3, TypedStart, PTL DEF CampaignSpec

-----------------------------------------------------------------------------
(* ReviewSteps.  What a call read is what the request is, status aside, as   *)
(* long as the lock version is the same; and what a sweep has listed is    *)
(* still open.                                                             *)
Behind(c) == LET r == ecall[c].id IN
             r # NoReq => /\ ereq[r].st # "absent"
                          /\ ecall[c].lock <= ereq[r].lock
                          /\ ecall[c].lock = ereq[r].lock =>
                               ecall[c].ev = ereq[r].ev /\ ereq[r].st \in Pending \cup {"overdue"}
ListedOpen == \A s \in ESweepers : \A r \in esweep[s].rows : ereq[r].st \in Pending \cup {"overdue"}
ReviewSteps == (\A c \in EPeople : Behind(c)) /\ ListedOpen

(* A request's row moves on as a whole, or becomes overdue.                *)
Onward(r) ==
  \/ ereq[r].st = "absent"
  \/ /\ ereq'[r].lock = ereq[r].lock /\ ereq'[r].ev = ereq[r].ev
     /\ ereq'[r].st \in {ereq[r].st, "overdue"}
  \/ ereq'[r].lock = ereq[r].lock + 1 /\ ereq'[r].st # "absent"

LEMMA BehindKept ==
  ASSUME CampaignTyped, NEW c \in EPeople, Behind(c), ecall'[c] = ecall[c], \A r \in EReqs : Onward(r)
  PROVE  Behind(c)'
<1> DEFINE r == ecall[c].id
<1> SUFFICES ASSUME r # NoReq
             PROVE  /\ ereq'[r].st # "absent"
                    /\ ecall[c].lock <= ereq'[r].lock
                    /\ ecall[c].lock = ereq'[r].lock =>
                         ecall[c].ev = ereq'[r].ev /\ ereq'[r].st \in Pending \cup {"overdue"}
  BY DEF Behind
<1>1. r \in EReqs /\ ecall[c].lock \in Nat /\ ereq[r].lock \in Nat
  BY DEF CampaignTyped, ECallsOK, ECallRec, ReqsOK, ReqRow
<1>2. /\ ereq[r].st # "absent" /\ ecall[c].lock <= ereq[r].lock
      /\ ecall[c].lock = ereq[r].lock => ecall[c].ev = ereq[r].ev /\ ereq[r].st \in Pending \cup {"overdue"}
  BY DEF Behind
<1>3. CASE ereq'[r].lock = ereq[r].lock /\ ereq'[r].ev = ereq[r].ev /\ ereq'[r].st \in {ereq[r].st, "overdue"}
  BY <1>2, <1>3
<1>4. CASE ereq'[r].lock = ereq[r].lock + 1 /\ ereq'[r].st # "absent"
  BY <1>1, <1>2, <1>4
<1> QED BY <1>1, <1>2, <1>3, <1>4 DEF Onward

(* A list is kept open by what moves no listed request.                    *)
LEMMA ListKept ==
  ASSUME CampaignTyped, ListedOpen, \A s \in ESweepers : esweep'[s].rows \in SUBSET esweep[s].rows,
         \A r \in EReqs : Listed(r) => ereq'[r].st \in {ereq[r].st, "overdue"}
  PROVE  ListedOpen'
BY DEF CampaignTyped, SweepsOK, SweepRec, ListedOpen, Listed

LEMMA DecisionsStep ==
  ASSUME Calm, CampaignTyped, ReviewSteps, [CampaignNext]_campaignVars
  PROVE  ReviewSteps'
<1> USE DEF CampaignTyped
<1>1. ASSUME \A r \in EReqs : Onward(r), \A c \in EPeople : ecall'[c] = ecall[c] \/ ecall'[c].id = NoReq,
             \A s \in ESweepers : esweep'[s].rows \in SUBSET esweep[s].rows,
             \A r \in EReqs : Listed(r) => ereq'[r].st \in {ereq[r].st, "overdue"}
      PROVE  ReviewSteps'
  <2>1. ListedOpen'
    BY <1>1, ListKept DEF ReviewSteps
  <2>2. ASSUME NEW c \in EPeople PROVE Behind(c)'
    <3>1. CASE ecall'[c] = ecall[c]
      BY <1>1, <3>1, BehindKept DEF ReviewSteps
    <3>2. CASE ecall'[c].id = NoReq
      BY <3>2 DEF Behind
    <3> QED BY <1>1, <3>1, <3>2
  <2> QED BY <2>1, <2>2 DEF ReviewSteps
<1>2. ASSUME NEW r \in EReqs, Create(r) PROVE ReviewSteps'
  <2>1. \A q \in EReqs \ {r} : ereq'[q] = ereq[q]
    BY <1>2, CreateIs DEF ReqsOK
  <2>2. \A q \in EReqs : Onward(q)
    BY <1>2, <2>1, CreateIs DEF Onward
  <2>3. ~Listed(r)
    BY <1>2, CreateIs DEF ReviewSteps, ListedOpen, Listed, Pending
  <2>4. ecall' = ecall /\ esweep' = esweep
    BY <1>2, CreateIs
  <2> QED BY <1>1, <2>1, <2>2, <2>3, <2>4
<1>3. ASSUME NEW c \in EPeople, WriteRequest(c) PROVE ReviewSteps'
  <2> DEFINE r == ecall[c].id
  <2>1. \A q \in EReqs \ {r} : ereq'[q] = ereq[q]
    BY <1>3, EWriteIs DEF ReqsOK
  <2>2. r \in EReqs /\ ereq'[r].lock = ereq[r].lock + 1 /\ ereq'[r].st \in Pending \cup Terminal
    BY <1>3, EWriteIs, OpsOfCalls
  <2>3. \A q \in EReqs : Onward(q)
    BY <2>1, <2>2 DEF Onward, Pending, Terminal
  <2>4. ~Listed(r) /\ esweep' = esweep
    BY <1>3 DEF WriteRequest
  <2>5. \A d \in EPeople : ecall'[d] = ecall[d] \/ ecall'[d].id = NoReq
    BY <1>3 DEF WriteRequest, ECallsOK, Out
  <2> QED BY <1>1, <2>1, <2>3, <2>4, <2>5
<1>4. CASE Soft
  <2>1. \A r \in EReqs : Onward(r)
    BY <1>4, SoftIs DEF Onward
  <2>2. \A r \in EReqs : ereq'[r].st \in {ereq[r].st, "overdue"}
    BY <1>4, SoftIs
  <2>3. ecall' = ecall
    BY <1>4 DEF Soft, SendReminder, MarkOverdue, Remind, NextDay
  <2>4. \A s \in ESweepers : esweep'[s].rows \in SUBSET esweep[s].rows
    <3>1. ASSUME NEW s \in ESweepers, MarkOverdue(s) \/ Remind(s)
          PROVE  \A t \in ESweepers : esweep'[t].rows \in SUBSET esweep[t].rows
      BY <3>1 DEF MarkOverdue, Remind, SweepsOK, SweepRec
    <3>2. CASE UNCHANGED esweep
      BY <3>2
    <3> QED BY <1>4, <3>1, <3>2 DEF Soft, SendReminder, NextDay
  <2> QED BY <1>1, <2>1, <2>2, <2>3, <2>4
<1>5. ASSUME NEW c \in EPeople, NEW op \in DOMAIN To, NEW r \in EReqs, ReadRequest(c, op, r) PROVE ReviewSteps'
  <2>1. /\ ecall'[c] = [op |-> op, id |-> r, lock |-> ereq[r].lock, ev |-> ereq[r].ev]
        /\ \A d \in EPeople \ {c} : ecall'[d] = ecall[d]
        /\ ereq' = ereq /\ esweep' = esweep
    BY <1>5 DEF ReadRequest, ECallsOK
  <2>2. ereq[r].st \in Pending \cup {"overdue"} /\ ereq[r].st # "absent" /\ ereq[r].lock <= ereq[r].lock
    BY <1>5, OpsOfCalls DEF ReadRequest, Pending, ReqsOK, ReqRow
  <2>3. Behind(c)'
    BY <2>1, <2>2 DEF Behind
  <2>4. \A d \in EPeople \ {c} : Behind(d)'
    BY <2>1 DEF ReviewSteps, Behind
  <2>5. ListedOpen'
    BY <2>1 DEF ReviewSteps, ListedOpen
  <2> QED BY <2>3, <2>4, <2>5 DEF ReviewSteps
<1>6. ASSUME ereq' = ereq, \A c \in EPeople : ecall'[c] = ecall[c] \/ ecall'[c].id = NoReq,
             \A s \in ESweepers : esweep'[s].rows \in SUBSET esweep[s].rows
      PROVE  ReviewSteps'
  BY <1>1, <1>6 DEF Onward
<1>7. ASSUME NEW c \in EPeople, CallEnds(c) \/ Close(c) \/ \E force \in BOOLEAN : CountUncovered(c, force)
      PROVE  ReviewSteps'
  <2>1. \A d \in EPeople : ecall'[d] = ecall[d] \/ ecall'[d].id = NoReq
    BY <1>7 DEF CallEnds, Close, CountUncovered, ECallsOK, Out
  <2>2. ereq' = ereq /\ esweep' = esweep
    BY <1>7 DEF CallEnds, Close, CountUncovered
  <2> QED BY <1>6, <2>1, <2>2
<1>8. ASSUME NEW s \in ESweepers, ListOverdue(s) PROVE ReviewSteps'
  <2>1. /\ esweep'[s].rows = {r \in EReqs : ereq[r].due = "past" /\ ereq[r].st \in Pending}
        /\ \A t \in ESweepers \ {s} : esweep'[t] = esweep[t]
        /\ ereq' = ereq /\ ecall' = ecall
    BY <1>8 DEF ListOverdue, SweepsOK, SweepRec
  <2>2. ListedOpen'
    BY <2>1 DEF ReviewSteps, ListedOpen
  <2>3. \A c \in EPeople : Behind(c)'
    BY <2>1 DEF ReviewSteps, Behind
  <2> QED BY <2>2, <2>3 DEF ReviewSteps
<1>9. ASSUME NEW s \in ESweepers, Acquire(s) \/ LookForNext(s) \/ Recur(s) \/ SweepFails(s) PROVE ReviewSteps'
  <2>1. \A t \in ESweepers : esweep'[t].rows \in SUBSET esweep[t].rows
    BY <1>9 DEF Acquire, LookForNext, Recur, SweepFails, Off, SweepsOK, SweepRec
  <2>2. ereq' = ereq /\ ecall' = ecall
    BY <1>9 DEF Acquire, LookForNext, Recur, SweepFails
  <2> QED BY <1>6, <2>1, <2>2
<1>10. CASE UNCHANGED campaignVars
  BY <1>6, <1>10 DEF campaignVars
<1> QED BY <1>2, <1>3, <1>4, <1>5, <1>7, <1>8, <1>9, <1>10 DEF CampaignNext, Soft

(* What is accepted is what its reviewer read, and what is accepted or     *)
(* cancelled stays so: for any number of people and sweeps, when nobody    *)
(* changes a request between a sweep's list and its update.                *)
THEOREM AcceptedTheorem == ASSUME Calm PROVE CampaignSpec => AcceptedWhatWasSeen
<1> DEFINE Seen == \A r \in EReqs :
             /\ ereq[r].st # "accepted" /\ ereq'[r].st = "accepted"
                  => \E c \in EPeople : /\ ecall[c].op = "accept" /\ ecall[c].id = r
                                        /\ ecall[c].ev = ereq'[r].ev
             /\ ereq[r].st \in Terminal => ereq'[r].st = ereq[r].st
<1>1. CampaignInit => ReviewSteps
  BY DEF CampaignInit, ReviewSteps, Behind, ListedOpen, Out, Off
<1>2. CampaignTyped /\ ReviewSteps /\ [CampaignNext]_campaignVars => CampaignTyped' /\ ReviewSteps'
  BY CampaignTypedStep, DecisionsStep
<1>3. CampaignTyped /\ ReviewSteps /\ [CampaignNext]_campaignVars => [Seen]_campaignVars
  <2> SUFFICES ASSUME CampaignTyped, ReviewSteps, CampaignNext PROVE Seen
    OBVIOUS
  <2> USE DEF CampaignTyped
  <2>1. ASSUME NEW r \in EReqs, Create(r) PROVE Seen
    <3>1. \A q \in EReqs \ {r} : ereq'[q] = ereq[q]
      BY <2>1, CreateIs DEF ReqsOK
    <3> QED BY <2>1, <3>1, CreateIs DEF Terminal
  <2>2. ASSUME NEW c \in EPeople, WriteRequest(c) PROVE Seen
    <3> DEFINE r == ecall[c].id
    <3>1. \A q \in EReqs \ {r} : ereq'[q] = ereq[q]
      BY <2>2, EWriteIs DEF ReqsOK
    <3>2. r \in EReqs /\ r # NoReq /\ ecall[c].op \in Ops /\ ecall[c].lock = ereq[r].lock
      BY <2>2, EWriteIs DEF WriteRequest
    <3>3. ecall[c].ev = ereq[r].ev /\ ereq[r].st \notin Terminal
      BY <3>2 DEF ReviewSteps, Behind, Pending, Terminal
    <3>4. ereq'[r].st = "accepted" => ecall[c].op = "accept" /\ ereq'[r].ev = ereq[r].ev
      BY <2>2, <3>2, EWriteIs, OpsOfCalls
    <3> QED BY <3>1, <3>2, <3>3, <3>4
  <2>3. CASE Soft
    <3>1. \A r \in EReqs : Listed(r) => ereq[r].st \notin Terminal
      BY DEF ReviewSteps, ListedOpen, Listed, Pending, Terminal
    <3> QED BY <2>3, <3>1, SoftIs
  <2>4. ereq' = ereq => Seen
    OBVIOUS
  <2> HIDE DEF Seen
  <2> QED BY <2>1, <2>2, <2>3, <2>4 DEF CampaignNext, Soft, ReadRequest, CountUncovered, CallEnds, Close,
            Acquire, ListOverdue, LookForNext, Recur, SweepFails
<1> QED BY <1>1, <1>2, <1>3, TypedStart, PTL DEF CampaignSpec, AcceptedWhatWasSeen

-----------------------------------------------------------------------------
(***************************************************************************)
(* Filing.                                                                 *)
(***************************************************************************)

FileRow == [st : {"absent", "filed", "discarded", "expired"} \cup WaitingStates,
            expired : BOOLEAN, bytes : BOOLEAN]
ItemRow == [st : {"absent", "current", "superseded"}, of : Files \cup {NoFile},
            prev : Items \cup {NoItem}, bytes : BOOLEAN]
UploadRec == [at : {"idle", "taken", "written", "filed"}, file : Files \cup {NoFile},
              old : Items \cup {NoItem}, new : Items \cup {NoItem}]

StagedOK == staged \in [Files -> FileRow]
ItemOK   == item \in [Items -> ItemRow]
UploadOK == upload \in [Uploads -> UploadRec] /\ \A u \in Uploads : upload[u].at # "idle" => upload[u].file \in Files
DiscardOK == discard \in [Discards -> Files \cup {NoFile}]
(* What the sweep has listed has expired, whatever else becomes of it.     *)
SweepingOK == sweeping \subseteq Files /\ \A f \in sweeping : staged[f].expired

(* A staged file that waits no longer: it is never filed again.            *)
Settled(f) == staged[f].st \notin {"absent"} \cup WaitingStates

(* What an upload knows of the items, and of its file once it is filed.    *)
UploadKnows(u) ==
  /\ upload[u].at \in {"taken", "written"} /\ upload[u].old # NoItem => Filed(upload[u].old)
  /\ upload[u].at = "written" =>
       /\ upload[u].new \in Items /\ ~Filed(upload[u].new) /\ item[upload[u].new].bytes
       /\ \A v \in Uploads \ {u} : upload[v].new # upload[u].new
  /\ upload[u].at = "filed" => Settled(upload[u].file)

(* What is in the vault: bytes, a file that is settled, and an older       *)
(* version that is superseded.                                             *)
Kept(i) ==
  Filed(i) => /\ item[i].bytes
              /\ item[i].of \in Files => Settled(item[i].of)
              /\ item[i].prev # NoItem => item[item[i].prev].st = "superseded"

FilingTyped == StagedOK /\ ItemOK /\ UploadOK /\ DiscardOK /\ SweepingOK
FilingInv == FilingTyped /\ (\A u \in Uploads : UploadKnows(u)) /\ (\A i \in Items : Kept(i))

LEMMA NoUploadIs ==
  /\ NoUpload \in UploadRec /\ NoUpload.at = "idle" /\ NoUpload.new = NoItem
  /\ NoItem \notin Items
BY FilingAssumption DEF NoUpload, UploadRec, NoItem

LEMMA FileRows ==
  ASSUME StagedOK, NEW f \in Files
  PROVE  /\ staged[f] \in FileRow
         /\ \A s : [staged EXCEPT ![f].st = s] =
              [staged EXCEPT ![f] = [st |-> s, expired |-> staged[f].expired, bytes |-> staged[f].bytes]]
         /\ \A b : [staged EXCEPT ![f].bytes = b] =
              [staged EXCEPT ![f] = [st |-> staged[f].st, expired |-> staged[f].expired, bytes |-> b]]
         /\ \A b : [staged EXCEPT ![f].expired = b] =
              [staged EXCEPT ![f] = [st |-> staged[f].st, expired |-> b, bytes |-> staged[f].bytes]]
<1>1. staged[f] \in FileRow
  BY DEF StagedOK
<1>2. \A s : [staged[f] EXCEPT !.st = s] = [st |-> s, expired |-> staged[f].expired, bytes |-> staged[f].bytes]
  BY <1>1 DEF FileRow
<1>3. \A b : [staged[f] EXCEPT !.bytes = b] = [st |-> staged[f].st, expired |-> staged[f].expired, bytes |-> b]
  BY <1>1 DEF FileRow
<1>4. \A b : [staged[f] EXCEPT !.expired = b] = [st |-> staged[f].st, expired |-> b, bytes |-> staged[f].bytes]
  BY <1>1 DEF FileRow
<1> QED BY <1>1, <1>2, <1>3, <1>4 DEF StagedOK

(* A discard or the sweep takes a file out of the queue, or fails to.      *)
LEMMA TakenOut ==
  ASSUME StagedOK, NEW f \in Files, NEW s, staged' = [staged EXCEPT ![f].bytes = FALSE, ![f].st = s]
  PROVE  staged' = [staged EXCEPT ![f] = [st |-> s, expired |-> staged[f].expired, bytes |-> FALSE]]
<1>1. staged'[f] = [st |-> s, expired |-> staged[f].expired, bytes |-> FALSE]
  BY DEF StagedOK, FileRow
<1>2. staged' = [staged EXCEPT ![f] = staged'[f]]
  BY DEF StagedOK
<1> QED BY <1>1, <1>2

LEMMA LeftThere ==
  ASSUME StagedOK, NEW f \in Files, staged' = [staged EXCEPT ![f].bytes = FALSE, ![f].st = @]
  PROVE  staged' = [staged EXCEPT ![f] = [st |-> staged[f].st, expired |-> staged[f].expired, bytes |-> FALSE]]
<1>1. staged'[f] = [st |-> staged[f].st, expired |-> staged[f].expired, bytes |-> FALSE]
  BY DEF StagedOK, FileRow
<1>2. staged' = [staged EXCEPT ![f] = staged'[f]]
  BY DEF StagedOK
<1> QED BY <1>1, <1>2

LEMMA DiscardIs ==
  ASSUME StagedOK, NEW d \in Discards, DiscardFile(d), NEW f \in Files, f = discard[d]
  PROVE  \E s \in {"discarded", staged[f].st} :
           staged' = [staged EXCEPT ![f] = [st |-> s, expired |-> staged[f].expired, bytes |-> FALSE]]
<1>1. \/ staged' = [staged EXCEPT ![f].bytes = FALSE, ![f].st = "discarded"]
      \/ staged' = [staged EXCEPT ![f].bytes = FALSE, ![f].st = @]
  BY Zenon DEF DiscardFile
<1> QED BY <1>1, TakenOut, LeftThere

LEMMA SweepIs ==
  ASSUME StagedOK, NEW f \in Files, SweepFile(f)
  PROVE  \E s \in {"expired", staged[f].st} :
           staged' = [staged EXCEPT ![f] = [st |-> s, expired |-> staged[f].expired, bytes |-> FALSE]]
<1>1. \/ staged' = [staged EXCEPT ![f].bytes = FALSE, ![f].st = "expired"]
      \/ staged' = [staged EXCEPT ![f].bytes = FALSE, ![f].st = @]
  BY Zenon DEF SweepFile
<1> QED BY <1>1, TakenOut, LeftThere

(* The queue moves on, and what is settled or expired stays so.            *)
QueueMoves ==
  /\ StagedOK'
  /\ \A f \in Files : Settled(f) => Settled(f)'
  /\ \A f \in Files : staged[f].expired => staged'[f].expired
  /\ \A f \in Files : staged[f].st = "staged" /\ staged[f].bytes /\ ~staged'[f].bytes
       => staged[f].expired \/ \E d \in Discards : discard[d] = f

LEMMA RowSet ==
  ASSUME StagedOK, NEW f \in Files, NEW row \in FileRow, staged' = [staged EXCEPT ![f] = row],
         Settled(f) => row.st \notin {"absent"} \cup WaitingStates, staged[f].expired => row.expired,
         staged[f].st = "staged" /\ staged[f].bytes /\ ~row.bytes
           => staged[f].expired \/ \E d \in Discards : discard[d] = f
  PROVE  QueueMoves
<1>1. StagedOK'
  BY DEF StagedOK
<1>2. staged'[f] = row /\ \A g \in Files \ {f} : staged'[g] = staged[g]
  BY DEF StagedOK
<1>3. \A g \in Files : Settled(g) => Settled(g)'
  BY <1>2 DEF Settled
<1>4. \A g \in Files : staged[g].expired => staged'[g].expired
  BY <1>2
<1> QED BY <1>1, <1>2, <1>3, <1>4 DEF QueueMoves

LEMMA QueueStep ==
  ASSUME FilingInv, [FilingNext]_filingVars
  PROVE  QueueMoves
<1> USE DEF FilingInv, FilingTyped
<1>1. \A f \in Files : staged[f] \in FileRow /\ staged[f] = [st |-> staged[f].st, expired |-> staged[f].expired,
                                                            bytes |-> staged[f].bytes]
  BY DEF StagedOK, FileRow
<1>2. ASSUME NEW f \in Files, Keep(f) PROVE QueueMoves
  <2> DEFINE row == [st |-> staged[f].st, expired |-> staged[f].expired, bytes |-> TRUE]
  <2>1. row \in FileRow
    BY <1>1 DEF FileRow
  <2>2. staged' = [staged EXCEPT ![f] = row]
    BY <1>2, FileRows DEF Keep
  <2>3. ~Settled(f)
    BY <1>2 DEF Keep, Settled
  <2> QED BY <2>1, <2>2, <2>3, RowSet
<1>3. ASSUME NEW f \in Files, Stage(f) PROVE QueueMoves
  <2>0. PICK s \in WaitingStates : staged' = [staged EXCEPT ![f].st = s]
    <3>1. staged' = [staged EXCEPT ![f].st = "staged"] \/ staged' = [staged EXCEPT ![f].st = "quarantined"]
      BY <1>3, Zenon DEF Stage
    <3> QED BY <3>1 DEF WaitingStates
  <2> DEFINE row == [st |-> s, expired |-> staged[f].expired, bytes |-> staged[f].bytes]
  <2>1. row \in FileRow
    BY <1>1 DEF FileRow
  <2>2. staged' = [staged EXCEPT ![f] = row]
    BY <2>0, FileRows
  <2>3. ~Settled(f) /\ staged[f].st # "staged"
    BY <1>3 DEF Stage, Settled
  <2> QED BY <2>1, <2>2, <2>3, RowSet
<1>4. ASSUME NEW f \in Files, ExpireFile(f) PROVE QueueMoves
  <2> DEFINE row == [st |-> staged[f].st, expired |-> TRUE, bytes |-> staged[f].bytes]
  <2>1. row \in FileRow
    BY <1>1 DEF FileRow
  <2>2. staged' = [staged EXCEPT ![f] = row]
    <3>1. staged' = [staged EXCEPT ![f].expired = TRUE]
      BY <1>4 DEF ExpireFile
    <3> QED BY <3>1, FileRows
  <2>3. ~Settled(f)
    BY <1>4 DEF ExpireFile, Settled
  <2> QED BY <2>1, <2>2, <2>3, RowSet
<1>5. ASSUME NEW d \in Discards, DiscardFile(d) PROVE QueueMoves
  <2> DEFINE f == discard[d]
  <2>1. f \in Files
    BY <1>5 DEF DiscardFile, DiscardOK
  <2>2. PICK s \in {"discarded", staged[f].st} :
           staged' = [staged EXCEPT ![f] = [st |-> s, expired |-> staged[f].expired, bytes |-> FALSE]]
    BY <1>5, <2>1, DiscardIs
  <2> DEFINE row == [st |-> s, expired |-> staged[f].expired, bytes |-> FALSE]
  <2>3. row \in FileRow
    BY <1>1, <2>1 DEF FileRow
  <2>4. staged' = [staged EXCEPT ![f] = row]
    BY <2>2
  <2>5. Settled(f) => row.st \notin {"absent"} \cup WaitingStates
    BY DEF Settled, WaitingStates
  <2> QED BY <2>1, <2>3, <2>4, <2>5, RowSet
<1>6. ASSUME NEW f \in Files, SweepFile(f) PROVE QueueMoves
  <2>1. PICK s \in {"expired", staged[f].st} :
           staged' = [staged EXCEPT ![f] = [st |-> s, expired |-> staged[f].expired, bytes |-> FALSE]]
    BY <1>6, SweepIs
  <2> DEFINE row == [st |-> s, expired |-> staged[f].expired, bytes |-> FALSE]
  <2>2. row \in FileRow
    BY <1>1 DEF FileRow
  <2>3. staged' = [staged EXCEPT ![f] = row]
    BY <2>1
  <2>4. (Settled(f) => row.st \notin {"absent"} \cup WaitingStates) /\ staged[f].expired
    BY <1>6 DEF Settled, WaitingStates, SweepFile, SweepingOK
  <2> QED BY <2>2, <2>3, <2>4, RowSet
<1>7. ASSUME NEW u \in Uploads, Commit(u) PROVE QueueMoves
  <2> DEFINE f == upload[u].file
             row == [st |-> "filed", expired |-> staged[f].expired, bytes |-> staged[f].bytes]
  <2>1. f \in Files
    BY <1>7 DEF Commit, UploadOK
  <2>2. row \in FileRow
    BY <1>1, <2>1 DEF FileRow
  <2>3. staged' = [staged EXCEPT ![f] = row]
    BY <1>7, <2>1, FileRows DEF Commit
  <2>4. row.st \notin {"absent"} \cup WaitingStates
    BY DEF WaitingStates
  <2> QED BY <2>1, <2>2, <2>3, <2>4, RowSet
<1>8. ASSUME NEW u \in Uploads, RemoveBytes(u) PROVE QueueMoves
  <2> DEFINE f == upload[u].file
             row == [st |-> staged[f].st, expired |-> staged[f].expired, bytes |-> FALSE]
  <2>1. f \in Files /\ Settled(f)
    BY <1>8 DEF RemoveBytes, UploadOK, UploadKnows
  <2>2. row \in FileRow
    BY <1>1, <2>1 DEF FileRow
  <2>3. staged' = [staged EXCEPT ![f] = row]
    BY <1>8, <2>1, FileRows DEF RemoveBytes
  <2>4. staged[f].st # "staged"
    BY <2>1 DEF Settled, WaitingStates
  <2> QED BY <2>1, <2>2, <2>3, <2>4, RowSet DEF Settled
<1>9. CASE staged' = staged
  BY <1>9 DEF QueueMoves, StagedOK, Settled
<1> QED BY <1>2, <1>3, <1>4, <1>5, <1>6, <1>7, <1>8, <1>9
        DEF FilingNext, ReadOwn, TakeFile, Duplicate, WriteBytes, RollBack, UploadDies, ListExpired, SweepDies,
            filingVars

(* The uploads other than one are where they were.                         *)
UploadStep(u) == u \in Uploads /\ upload' = [upload EXCEPT ![u] = upload'[u]] /\ upload'[u] \in UploadRec

LEMMA TakeFileIs ==
  ASSUME UploadOK, NEW u \in Uploads, NEW f \in Files, NEW i \in Items \cup {NoItem}, TakeFile(u, f, i)
  PROVE  /\ UploadStep(u) /\ upload'[u].at = "taken" /\ upload'[u].file = f
         /\ upload'[u].old = i /\ upload'[u].new = NoItem
         /\ i # NoItem => item[i].st = "current"
         /\ UNCHANGED <<staged, item, discard>>
<1> DEFINE rec == [at |-> "taken", file |-> f, old |-> i, new |-> NoItem]
<1>1. upload' = [upload EXCEPT ![u] = rec]
  BY DEF TakeFile
<1>3. upload'[u] = rec
  BY <1>1 DEF UploadOK
<1>4. upload'[u] \in UploadRec
  BY <1>3 DEF UploadRec
<1>5. upload' = [upload EXCEPT ![u] = upload'[u]]
  BY <1>1, <1>3
<1>6. /\ upload'[u].at = "taken" /\ upload'[u].file = f /\ upload'[u].old = i /\ upload'[u].new = NoItem
  BY <1>3
<1>7. (i # NoItem => item[i].st = "current") /\ UNCHANGED <<staged, item, discard>>
  BY DEF TakeFile
<1> QED BY <1>4, <1>5, <1>6, <1>7 DEF UploadStep

(* Taking a name in the vault.                                             *)
LEMMA WriteBytesIs ==
  ASSUME ItemOK, UploadOK, NEW u \in Uploads, WriteBytes(u)
  PROVE  /\ upload[u].at = "taken" /\ UploadStep(u) /\ upload'[u].at = "written"
         /\ upload'[u].file = upload[u].file /\ upload'[u].old = upload[u].old
         /\ UNCHANGED <<staged, discard>>
         /\ \E i \in Items :
              /\ upload'[u].new = i /\ ~Filed(i) /\ \A v \in Uploads : upload[v].new # i
              /\ item'[i] \in ItemRow /\ item'[i].st = item[i].st /\ item'[i].bytes
              /\ item' = [item EXCEPT ![i] = item'[i]]
<1>1. PICK i \in Items :
        /\ item[i].st = "absent" /\ ~item[i].bytes /\ \A v \in Uploads : upload[v].new # i
        /\ item' = [item EXCEPT ![i].bytes = TRUE]
        /\ upload' = [upload EXCEPT ![u].at = "written", ![u].new = i]
  BY DEF WriteBytes
<1>2. upload[u] \in UploadRec
  BY DEF UploadOK
<1>3. upload'[u] = [at |-> "written", file |-> upload[u].file, old |-> upload[u].old, new |-> i]
  BY <1>1, <1>2 DEF UploadOK, UploadRec
<1>4. upload'[u] \in UploadRec
  BY <1>2, <1>3 DEF UploadRec
<1>5. upload' = [upload EXCEPT ![u] = upload'[u]]
  BY <1>1 DEF UploadOK
<1>6. item[i] \in ItemRow
  BY DEF ItemOK
<1>7. item'[i] = [st |-> item[i].st, of |-> item[i].of, prev |-> item[i].prev, bytes |-> TRUE]
  BY <1>1, <1>6 DEF ItemOK, ItemRow
<1>8. item'[i] \in ItemRow /\ item'[i].st = item[i].st /\ item'[i].bytes
  BY <1>6, <1>7 DEF ItemRow
<1>9. item' = [item EXCEPT ![i] = item'[i]]
  BY <1>1 DEF ItemOK
<1>10. /\ upload'[u].at = "written" /\ upload'[u].file = upload[u].file /\ upload'[u].old = upload[u].old
       /\ upload'[u].new = i
  BY <1>3
<1>11. upload[u].at = "taken" /\ UNCHANGED <<staged, discard>>
  BY DEF WriteBytes
<1>12. UploadStep(u)
  BY <1>4, <1>5 DEF UploadStep
<1> QED BY <1>1, <1>8, <1>9, <1>10, <1>11, <1>12 DEF Filed

(* The transaction of a filing.                                            *)
LEMMA CommitIs ==
  ASSUME ItemOK, UploadOK, NEW u \in Uploads, UploadKnows(u), Commit(u)
  PROVE  LET new == upload[u].new
             old == upload[u].old
             f   == upload[u].file IN
         /\ upload[u].at = "written" /\ new \in Items /\ f \in Files /\ staged[f].st = "staged"
         /\ ~Filed(new) /\ old \in Items \cup {NoItem}
         /\ old # NoItem => old \in Items \ {new} /\ item[old].st = "current"
         /\ item' \in [Items -> ItemRow]
         /\ item'[new].st = "current" /\ item'[new].of = f /\ item'[new].prev = old /\ item'[new].bytes
         /\ \A i \in Items \ {new} :
              /\ Filed(i)' <=> Filed(i)
              /\ item'[i].of = item[i].of /\ item'[i].prev = item[i].prev /\ item'[i].bytes = item[i].bytes
              /\ i # old => item'[i].st = item[i].st
              /\ i = old => item'[i].st = "superseded"
         /\ UploadStep(u) /\ upload'[u].at = "filed" /\ upload'[u].file = f /\ upload'[u].new = new
         /\ discard' = discard
<1> DEFINE new == upload[u].new
           old == upload[u].old
           f   == upload[u].file
<1>1. /\ upload[u].at = "written" /\ new \in Items /\ f \in Files /\ staged[f].st = "staged"
      /\ ~Filed(new) /\ item[new].bytes
  BY DEF Commit, UploadKnows, UploadOK, MayFile
<1>2. upload[u] \in UploadRec /\ old \in Items \cup {NoItem}
  BY DEF UploadOK, UploadRec
<1>3. old # NoItem => old \in Items \ {new} /\ item[old].st = "current"
  BY <1>1, <1>2 DEF Commit, OldIsCurrent, Filed
<1>4. item' = [i \in Items |->
          IF i = new THEN [item[i] EXCEPT !.st = "current", !.of = f, !.prev = old]
          ELSE IF i = old THEN [item[i] EXCEPT !.st = "superseded"]
          ELSE item[i]]
  BY DEF Commit
<1> HIDE DEF new, old, f
<1>5. \A i \in Items : item[i] \in ItemRow
  BY DEF ItemOK
<1>6. item'[new] = [st |-> "current", of |-> f, prev |-> old, bytes |-> item[new].bytes]
  <2>1. item'[new] = [item[new] EXCEPT !.st = "current", !.of = f, !.prev = old]
    BY <1>1, <1>4
  <2> QED BY <1>1, <1>5, <2>1 DEF ItemRow
<1>7. ASSUME old # NoItem
      PROVE  item'[old] = [st |-> "superseded", of |-> item[old].of, prev |-> item[old].prev, bytes |-> item[old].bytes]
  <2>1. item'[old] = [item[old] EXCEPT !.st = "superseded"]
    BY <1>3, <1>4, <1>7
  <2> QED BY <1>3, <1>5, <1>7, <2>1 DEF ItemRow
<1>8. \A i \in Items \ {new} : i # old => item'[i] = item[i]
  BY <1>4
<1>9. \A i \in Items \ {new} :
        /\ Filed(i)' <=> Filed(i)
        /\ item'[i].of = item[i].of /\ item'[i].prev = item[i].prev /\ item'[i].bytes = item[i].bytes
        /\ i # old => item'[i].st = item[i].st
        /\ i = old => item'[i].st = "superseded"
  <2> SUFFICES ASSUME NEW i \in Items \ {new}
               PROVE  /\ Filed(i)' <=> Filed(i)
                      /\ item'[i].of = item[i].of /\ item'[i].prev = item[i].prev
                      /\ item'[i].bytes = item[i].bytes
                      /\ i # old => item'[i].st = item[i].st
                      /\ i = old => item'[i].st = "superseded"
    OBVIOUS
  <2>1. CASE i = old
    <3>1. old # NoItem /\ item[old].st = "current"
      BY <1>3, <2>1, NoUploadIs
    <3>2. /\ item'[old].st = "superseded" /\ item'[old].of = item[old].of /\ item'[old].prev = item[old].prev
          /\ item'[old].bytes = item[old].bytes
      BY <1>7, <3>1
    <3> QED BY <2>1, <3>1, <3>2 DEF Filed
  <2>2. CASE i # old
    BY <1>8, <2>2 DEF Filed
  <2> QED BY <2>1, <2>2
<1>10. item'[new] \in ItemRow /\ item'[new].st = "current" /\ item'[new].of = f /\ item'[new].prev = old
       /\ item'[new].bytes
  BY <1>1, <1>2, <1>5, <1>6 DEF ItemRow
<1>11. \A i \in Items \ {new} : item'[i] \in ItemRow
  <2>1. ASSUME NEW i \in Items \ {new}, i = old PROVE item'[i] \in ItemRow
    <3>1. old # NoItem /\ item[old] \in ItemRow
      BY <1>5, <2>1, NoUploadIs
    <3>2. item'[old] \in ItemRow
      BY <1>7, <3>1 DEF ItemRow
    <3> QED BY <2>1, <3>2
  <2> QED BY <1>5, <1>8, <2>1
<1>12. item' \in [Items -> ItemRow]
  BY <1>4, <1>10, <1>11
<1>13. upload'[u] = [at |-> "filed", file |-> upload[u].file, old |-> upload[u].old, new |-> upload[u].new]
       /\ upload' = [upload EXCEPT ![u] = upload'[u]] /\ discard' = discard
  BY <1>2 DEF Commit, UploadOK, UploadRec
<1>14. upload'[u] \in UploadRec /\ upload'[u].at = "filed" /\ upload'[u].file = f /\ upload'[u].new = new
  BY <1>2, <1>13 DEF UploadRec, f, new
<1> QED BY <1>1, <1>2, <1>3, <1>9, <1>10, <1>12, <1>13, <1>14 DEF UploadStep, new, old, f

LEMMA BackIs ==
  ASSUME ItemOK, UploadOK, NEW u \in Uploads, UploadKnows(u), RollBack(u)
  PROVE  LET new == upload[u].new IN
         /\ upload[u].at = "written" /\ new \in Items /\ ~Filed(new)
         /\ item' = [item EXCEPT ![new] = item'[new]] /\ item'[new] \in ItemRow /\ item'[new].st = "absent"
         /\ upload' = [upload EXCEPT ![u] = NoUpload] /\ UNCHANGED <<staged, discard>>
<1> DEFINE new == upload[u].new
<1>1. upload[u].at = "written" /\ new \in Items /\ ~Filed(new)
  BY DEF RollBack, UploadKnows
<1>2. item[new] \in ItemRow /\ item[new].st = "absent"
  BY <1>1 DEF ItemOK, Filed
<1>3. item' = [item EXCEPT ![new].bytes = FALSE]
  BY DEF RollBack
<1>4. item'[new] = [st |-> item[new].st, of |-> item[new].of, prev |-> item[new].prev, bytes |-> FALSE]
  BY <1>1, <1>2, <1>3 DEF ItemOK, ItemRow
<1>5. item'[new] \in ItemRow /\ item'[new].st = "absent"
  BY <1>2, <1>4 DEF ItemRow
<1>6. item' = [item EXCEPT ![new] = item'[new]]
  BY <1>1, <1>3 DEF ItemOK
<1> QED BY <1>1, <1>5, <1>6 DEF RollBack

LEMMA FiledIs ==
  ASSUME UploadOK, NEW u \in Uploads, RemoveBytes(u) \/ Duplicate(u) \/ UploadDies(u)
  PROVE  upload' = [upload EXCEPT ![u] = NoUpload] /\ UNCHANGED <<item, discard>>
BY DEF RemoveBytes, Duplicate, UploadDies

(* The rest of the system: nobody uploads.                                 *)
Elsewhere ==
  \/ \E f \in Files : Keep(f) \/ Stage(f) \/ ExpireFile(f)
  \/ \E d \in Discards : ReadOwn(d) \/ DiscardFile(d)
  \/ ListExpired \/ SweepDies \/ (\E f \in Files : SweepFile(f)) \/ UNCHANGED filingVars

LEMMA ElsewhereIs ==
  ASSUME Elsewhere PROVE UNCHANGED <<item, upload>>
BY DEF Elsewhere, Keep, Stage, ExpireFile, ReadOwn, DiscardFile, ListExpired, SweepDies, SweepFile, filingVars

LEMMA Cases ==
  ASSUME [FilingNext]_filingVars
  PROVE  \/ Elsewhere
         \/ \E u \in Uploads :
              \/ \E f \in Files, i \in Items \cup {NoItem} : TakeFile(u, f, i)
              \/ WriteBytes(u) \/ Commit(u) \/ RollBack(u)
              \/ RemoveBytes(u) \/ Duplicate(u) \/ UploadDies(u)
BY DEF FilingNext, Elsewhere

LEMMA FilingTypesStep ==
  ASSUME FilingInv, [FilingNext]_filingVars
  PROVE  FilingTyped'
<1> USE DEF FilingInv, FilingTyped
<1>1. StagedOK'
  BY QueueStep DEF QueueMoves
<1>2. DiscardOK'
  <2>1. ASSUME NEW d \in Discards, ReadOwn(d) \/ DiscardFile(d) PROVE DiscardOK'
    BY <2>1 DEF ReadOwn, DiscardFile, DiscardOK
  <2>2. CASE discard' = discard
    BY <2>2 DEF DiscardOK
  <2> QED BY <2>1, <2>2 DEF FilingNext, Keep, Stage, ExpireFile, TakeFile, Duplicate, WriteBytes,
                            Commit, RollBack, RemoveBytes, UploadDies, ListExpired, SweepDies, SweepFile, filingVars
<1>0. SweepingOK'
  <2>1. sweeping' \subseteq sweeping \/ ListExpired
    BY DEF FilingNext, Keep, Stage, ExpireFile, ReadOwn, DiscardFile, TakeFile, Duplicate, WriteBytes,
           Commit, RollBack, RemoveBytes, UploadDies, SweepDies, SweepFile, filingVars
  <2>2. CASE sweeping' \subseteq sweeping
    BY <2>2, QueueStep DEF SweepingOK, QueueMoves
  <2>3. CASE ListExpired
    BY <2>3 DEF ListExpired, Sweepable, SweepingOK
  <2> QED BY <2>1, <2>2, <2>3
<1>3. ASSUME NEW i \in Items, item' = [item EXCEPT ![i] = item'[i]], item'[i] \in ItemRow PROVE ItemOK'
  BY <1>3 DEF ItemOK
<1>4. ASSUME NEW u \in Uploads, UploadStep(u), upload'[u].file \in Files PROVE UploadOK'
  <2>1. \A v \in Uploads : v # u => upload'[v] = upload[v]
    BY <1>4 DEF UploadStep, UploadOK
  <2>2. upload' \in [Uploads -> UploadRec]
    BY <1>4 DEF UploadStep, UploadOK
  <2> QED BY <1>4, <2>1, <2>2 DEF UploadOK
<1>5. ASSUME NEW u \in Uploads, upload' = [upload EXCEPT ![u] = NoUpload] PROVE UploadOK'
  BY <1>5, NoUploadIs DEF UploadOK
<1>6. CASE Elsewhere
  <2>1. item' = item /\ upload' = upload
    BY <1>6, ElsewhereIs
  <2> QED BY <1>0, <1>1, <1>2, <2>1 DEF ItemOK, UploadOK
<1>7. ASSUME NEW u \in Uploads, NEW f \in Files, NEW i \in Items \cup {NoItem}, TakeFile(u, f, i)
      PROVE  ItemOK' /\ UploadOK'
  BY <1>4, <1>7, TakeFileIs DEF ItemOK
<1>8. ASSUME NEW u \in Uploads, WriteBytes(u) PROVE ItemOK' /\ UploadOK'
  <2>1. upload'[u].file \in Files
    BY <1>8, WriteBytesIs DEF UploadOK
  <2> QED BY <1>3, <1>4, <1>8, <2>1, WriteBytesIs
<1>9. ASSUME NEW u \in Uploads, Commit(u) PROVE ItemOK' /\ UploadOK'
  BY <1>4, <1>9, CommitIs DEF ItemOK
<1>10. ASSUME NEW u \in Uploads, RollBack(u) PROVE ItemOK' /\ UploadOK'
  BY <1>3, <1>5, <1>10, BackIs
<1>11. ASSUME NEW u \in Uploads, RemoveBytes(u) \/ Duplicate(u) \/ UploadDies(u) PROVE ItemOK' /\ UploadOK'
  BY <1>5, <1>11, FiledIs DEF ItemOK
<1> QED BY <1>0, <1>1, <1>2, <1>6, <1>7, <1>8, <1>9, <1>10, <1>11, Cases

(* What an upload knows stays so while others move.                        *)
LEMMA KnowsKept ==
  ASSUME FilingInv, QueueMoves, NEW v \in Uploads, upload'[v] = upload[v],
         \A i \in Items : Filed(i) => Filed(i)',
         upload[v].at = "written" =>
           /\ item'[upload[v].new] = item[upload[v].new]
           /\ \A w \in Uploads \ {v} : upload'[w].new # upload[v].new
  PROVE  UploadKnows(v)'
<1>1. UploadKnows(v) /\ upload[v] \in UploadRec
  BY DEF FilingInv, FilingTyped, UploadOK
<1>2. upload[v].at # "idle" => upload[v].file \in Files
  BY DEF FilingInv, FilingTyped, UploadOK
<1>3. upload[v].old \in Items \cup {NoItem}
  BY <1>1 DEF UploadRec
<1>4. upload[v].at = "written" => ~Filed(upload[v].new)'
  BY <1>1 DEF UploadKnows, Filed
<1> QED BY <1>1, <1>2, <1>3, <1>4 DEF UploadKnows, QueueMoves

LEMMA KnowsStep ==
  ASSUME FilingInv, [FilingNext]_filingVars, NEW v \in Uploads
  PROVE  UploadKnows(v)'
<1> USE DEF FilingInv, FilingTyped
<1>1. QueueMoves /\ UploadKnows(v) /\ NoItem \notin Items
  BY QueueStep, NoUploadIs
<1>2. ASSUME NEW u \in Uploads, UploadStep(u)
      PROVE  \A w \in Uploads \ {u} : upload'[w] = upload[w]
  BY <1>2 DEF UploadStep, UploadOK
<1>3. ASSUME NEW u \in Uploads, upload' = [upload EXCEPT ![u] = NoUpload],
             \A i \in Items : Filed(i) => Filed(i)',
             \A w \in Uploads \ {u} : upload[w].at = "written" => item'[upload[w].new] = item[upload[w].new]
      PROVE  UploadKnows(v)'
  <2>1. upload'[u] = NoUpload /\ \A w \in Uploads \ {u} : upload'[w] = upload[w]
    BY <1>3 DEF UploadOK
  <2>2. CASE v = u
    BY <2>1, <2>2, NoUploadIs DEF UploadKnows
  <2>3. CASE v # u
    <3>1. upload[v].at = "written" => upload[v].new \in Items /\ \A w \in Uploads \ {v} : upload'[w].new # upload[v].new
      BY <1>1, <2>1, NoUploadIs DEF UploadKnows
    <3> QED BY <1>1, <1>3, <2>1, <2>3, <3>1, KnowsKept
  <2> QED BY <2>2, <2>3
<1>4. CASE Elsewhere
  <2>1. UNCHANGED <<item, upload>>
    BY <1>4, ElsewhereIs
  <2>2. \A i \in Items : Filed(i) => Filed(i)'
    BY <2>1 DEF Filed
  <2>3. upload[v].at = "written" => \A w \in Uploads \ {v} : upload'[w].new # upload[v].new
    BY <1>1, <2>1 DEF UploadKnows
  <2> QED BY <1>1, <2>1, <2>2, <2>3, KnowsKept
<1>5. ASSUME NEW u \in Uploads, NEW f \in Files, NEW i \in Items \cup {NoItem}, TakeFile(u, f, i)
      PROVE  UploadKnows(v)'
  <2>1. /\ UploadStep(u) /\ upload'[u].at = "taken" /\ upload'[u].old = i /\ upload'[u].new = NoItem
        /\ i # NoItem => item[i].st = "current"
        /\ UNCHANGED <<staged, item, discard>>
    BY <1>5, TakeFileIs
  <2>2. CASE v = u
    BY <2>1, <2>2 DEF UploadKnows, Filed
  <2>3. CASE v # u
    <3>1. upload'[v] = upload[v] /\ \A i_1 \in Items : Filed(i_1) => Filed(i_1)'
      BY <1>2, <2>1, <2>3 DEF Filed
    <3>2. upload[v].at = "written" => upload[v].new # NoItem /\ \A w \in Uploads \ {v} : upload[w].new # upload[v].new
      BY <1>1 DEF UploadKnows
    <3>3. upload[v].at = "written" => \A w \in Uploads \ {v} : upload'[w].new # upload[v].new
      BY <1>2, <2>1, <3>2
    <3> QED BY <1>1, <2>1, <3>1, <3>3, KnowsKept
  <2> QED BY <2>2, <2>3
<1>6. ASSUME NEW u \in Uploads, WriteBytes(u) PROVE UploadKnows(v)'
  <2>1. PICK i \in Items :
          /\ upload'[u].new = i /\ ~Filed(i) /\ \A w \in Uploads : upload[w].new # i
          /\ item'[i].st = item[i].st /\ item'[i].bytes /\ item' = [item EXCEPT ![i] = item'[i]]
    BY <1>6, WriteBytesIs
  <2>2. /\ upload[u].at = "taken" /\ UploadStep(u) /\ upload'[u].at = "written"
        /\ upload'[u].old = upload[u].old
    BY <1>6, WriteBytesIs
  <2>3. \A j \in Items : (j # i => item'[j] = item[j]) /\ (Filed(j) <=> Filed(j)')
    BY <2>1 DEF ItemOK, Filed
  <2>4. CASE v = u
    <3>1. upload[u].old # NoItem => upload[u].old \in Items /\ Filed(upload[u].old)
      BY <1>1, <2>2, <2>4 DEF UploadKnows, UploadOK, UploadRec
    <3>2. \A w \in Uploads \ {u} : upload'[w].new # i
      BY <1>2, <2>1, <2>2
    <3> QED BY <2>1, <2>2, <2>3, <2>4, <3>1, <3>2 DEF UploadKnows
  <2>5. CASE v # u
    <3>1. upload'[v] = upload[v]
      BY <1>2, <2>2, <2>5
    <3>2. upload[v].at = "written" => upload[v].new \in Items \ {i}
      BY <1>1, <2>1 DEF UploadKnows
    <3>3. upload[v].at = "written" => \A w \in Uploads \ {v} : upload'[w].new # upload[v].new
      BY <1>1, <1>2, <2>1, <2>2, <3>2 DEF UploadKnows
    <3> QED BY <1>1, <2>3, <3>1, <3>2, <3>3, KnowsKept
  <2> QED BY <2>4, <2>5
<1>7. ASSUME NEW u \in Uploads, Commit(u) PROVE UploadKnows(v)'
  <2> DEFINE new == upload[u].new
  <2>0. UploadKnows(u)
    OBVIOUS
  <2>1. /\ upload[u].at = "written" /\ new \in Items /\ ~Filed(new) /\ upload[u].file \in Files
        /\ UploadStep(u) /\ upload'[u].at = "filed" /\ upload'[u].file = upload[u].file /\ upload'[u].new = new
    BY <1>7, <2>0, CommitIs
  <2>2. \A i \in Items \ {new} : Filed(i) => Filed(i)'
    BY <1>7, <2>0, CommitIs
  <2>3. \A i \in Items \ {new} : item[i].st # "current" /\ ~Filed(i) => i # upload[u].old
    BY <1>7, <2>0, CommitIs, NoUploadIs DEF Filed
  <2>4. CASE v = u
    <3>1. staged'[upload[u].file].st = "filed"
      BY <1>7, <2>1 DEF Commit, StagedOK, FileRow
    <3> QED BY <2>1, <2>4, <3>1 DEF UploadKnows, Settled, WaitingStates
  <2>5. CASE v # u
    <3>1. upload'[v] = upload[v]
      BY <1>2, <2>1, <2>5
    <3>2. ASSUME upload[v].at = "written"
          PROVE  /\ item'[upload[v].new] = item[upload[v].new]
                 /\ \A w \in Uploads \ {v} : upload'[w].new # upload[v].new
      <4>1. upload[v].new \in Items \ {new} /\ ~Filed(upload[v].new)
        BY <1>1, <2>1, <2>5, <3>2 DEF UploadKnows
      <4>2. upload[v].new # upload[u].old
        BY <2>3, <4>1 DEF Filed
      <4>3. item'[upload[v].new] = item[upload[v].new]
        BY <1>7, <4>1, <4>2 DEF Commit
      <4>4. \A w \in Uploads \ {v} : upload'[w].new # upload[v].new
        BY <1>1, <1>2, <2>1, <3>2 DEF UploadKnows
      <4> QED BY <4>3, <4>4
    <3>3. \A i \in Items : Filed(i) => Filed(i)'
      BY <2>1, <2>2
    <3> QED BY <1>1, <3>1, <3>2, <3>3, KnowsKept
  <2> QED BY <2>4, <2>5
<1>8. ASSUME NEW u \in Uploads, RollBack(u) PROVE UploadKnows(v)'
  <2>0. UploadKnows(u)
    OBVIOUS
  <2>1. /\ upload[u].at = "written" /\ upload[u].new \in Items /\ ~Filed(upload[u].new)
        /\ item' = [item EXCEPT ![upload[u].new] = item'[upload[u].new]]
        /\ upload' = [upload EXCEPT ![u] = NoUpload]
    BY <1>8, <2>0, BackIs
  <2>2. \A j \in Items \ {upload[u].new} : item'[j] = item[j]
    BY <2>1 DEF ItemOK
  <2>3. \A i \in Items : Filed(i) => Filed(i)'
    BY <2>1, <2>2 DEF Filed
  <2>4. ASSUME NEW w \in Uploads \ {u}, upload[w].at = "written" PROVE item'[upload[w].new] = item[upload[w].new]
    <3>1. UploadKnows(w)
      OBVIOUS
    <3>2. upload[w].new \in Items \ {upload[u].new}
      BY <2>4, <3>1 DEF UploadKnows
    <3> QED BY <2>2, <3>2
  <2> QED BY <1>3, <2>1, <2>3, <2>4
<1>9. ASSUME NEW u \in Uploads, RemoveBytes(u) \/ Duplicate(u) \/ UploadDies(u) PROVE UploadKnows(v)'
  <2>1. upload' = [upload EXCEPT ![u] = NoUpload] /\ item' = item
    BY <1>9, FiledIs
  <2>2. \A i \in Items : Filed(i) => Filed(i)'
    BY <2>1 DEF Filed
  <2> QED BY <1>3, <2>1, <2>2
<1> QED BY <1>4, <1>5, <1>6, <1>7, <1>8, <1>9, Cases

(* What is in the vault stays whole.                                       *)
LEMMA KeptKept ==
  ASSUME FilingInv, QueueMoves, NEW i \in Items, Filed(i)' => Filed(i),
         Filed(i)' => /\ item'[i].bytes = item[i].bytes
                      /\ item'[i].of = item[i].of /\ item'[i].prev = item[i].prev,
         \A j \in Items : item[j].st = "superseded" => item'[j].st = "superseded"
  PROVE  Kept(i)'
<1>1. Kept(i) /\ item[i].prev \in Items \cup {NoItem}
  BY DEF FilingInv, FilingTyped, ItemOK, ItemRow
<1> QED BY <1>1 DEF Kept, QueueMoves

LEMMA KeptStep ==
  ASSUME FilingInv, [FilingNext]_filingVars, NEW i \in Items
  PROVE  Kept(i)'
<1> USE DEF FilingInv, FilingTyped
<1>1. QueueMoves /\ Kept(i) /\ NoItem \notin Items
  BY QueueStep, NoUploadIs
<1>2. ASSUME NEW j \in Items, item' = [item EXCEPT ![j] = item'[j]], ~Filed(j), ~Filed(j)' PROVE Kept(i)'
  <2>1. \A k \in Items \ {j} : item'[k] = item[k]
    BY <1>2 DEF ItemOK
  <2>2. \A k \in Items : item[k].st = "superseded" => item'[k].st = "superseded"
    BY <1>2, <2>1 DEF Filed
  <2>3. Filed(i)' => i # j
    BY <1>2
  <2> QED BY <1>1, <2>1, <2>2, <2>3, KeptKept DEF Filed
<1>3. CASE item' = item
  BY <1>1, <1>3, KeptKept DEF Filed
<1>4. ASSUME NEW u \in Uploads, WriteBytes(u) PROVE Kept(i)'
  <2>1. PICK j \in Items : ~Filed(j) /\ item'[j].st = item[j].st /\ item' = [item EXCEPT ![j] = item'[j]]
    BY <1>4, WriteBytesIs
  <2> QED BY <1>2, <2>1 DEF Filed
<1>5. ASSUME NEW u \in Uploads, RollBack(u) PROVE Kept(i)'
  <2>1. UploadKnows(u)
    OBVIOUS
  <2> QED BY <1>2, <1>5, <2>1, BackIs DEF Filed
<1>6. ASSUME NEW u \in Uploads, Commit(u) PROVE Kept(i)'
  <2> DEFINE new == upload[u].new
             old == upload[u].old
             f   == upload[u].file
  <2>0. UploadKnows(u)
    OBVIOUS
  <2>1. /\ new \in Items /\ f \in Files /\ ~Filed(new) /\ old \in Items \cup {NoItem}
        /\ old # NoItem => old \in Items \ {new}
        /\ item'[new].of = f /\ item'[new].prev = old /\ item'[new].bytes
        /\ \A k \in Items \ {new} :
             /\ Filed(k)' <=> Filed(k)
             /\ item'[k].of = item[k].of /\ item'[k].prev = item[k].prev /\ item'[k].bytes = item[k].bytes
             /\ k # old => item'[k].st = item[k].st
             /\ k = old => item'[k].st = "superseded"
    BY <1>6, <2>0, CommitIs
  <2>2. staged'[f].st = "filed"
    <3>1. staged' = [staged EXCEPT ![f].st = "filed"]
      BY <1>6 DEF Commit
    <3> HIDE DEF f
    <3> QED BY <2>1, <3>1 DEF StagedOK, FileRow
  <2>3. CASE i = new
    BY <1>1, <2>1, <2>2, <2>3 DEF Kept, Settled, WaitingStates
  <2>4. CASE i # new
    <3>1. \A k \in Items : item[k].st = "superseded" => item'[k].st = "superseded"
      BY <2>1 DEF Filed
    <3> QED BY <1>1, <2>1, <2>4, <3>1, KeptKept
  <2> QED BY <2>3, <2>4
<1>7. CASE Elsewhere
  BY <1>3, <1>7, ElsewhereIs
<1>8. ASSUME NEW u \in Uploads, NEW f \in Files, NEW j \in Items \cup {NoItem}, TakeFile(u, f, j) PROVE Kept(i)'
  BY <1>3, <1>8, TakeFileIs
<1>9. ASSUME NEW u \in Uploads, RemoveBytes(u) \/ Duplicate(u) \/ UploadDies(u) PROVE Kept(i)'
  BY <1>3, <1>9, FiledIs
<1> QED BY <1>4, <1>5, <1>6, <1>7, <1>8, <1>9, Cases

LEMMA FilingInvInit == FilingInit => FilingInv
<1> SUFFICES ASSUME FilingInit PROVE FilingInv
  OBVIOUS
<1>1. StagedOK /\ DiscardOK /\ SweepingOK
  BY DEF FilingInit, StagedOK, DiscardOK, SweepingOK, FileRow
<1>2. \A i \in Items :
        \/ item[i] = [st |-> "current", of |-> NoFile, prev |-> NoItem, bytes |-> TRUE]
        \/ item[i] = [st |-> "absent", of |-> NoFile, prev |-> NoItem, bytes |-> FALSE]
  <2>1. ASSUME NEW i \in Items
        PROVE  item[i] = [st |-> IF i \in Vault THEN "current" ELSE "absent",
                          of |-> NoFile, prev |-> NoItem, bytes |-> i \in Vault]
    BY <2>1, Zenon DEF FilingInit
  <2>2. ASSUME NEW i \in Items, i \in Vault
        PROVE  item[i] = [st |-> "current", of |-> NoFile, prev |-> NoItem, bytes |-> TRUE]
    <3>1. (i \in Vault) = TRUE
      BY <2>2
    <3> QED BY <2>1, <2>2, <3>1, Zenon
  <2>3. ASSUME NEW i \in Items, i \notin Vault
        PROVE  item[i] = [st |-> "absent", of |-> NoFile, prev |-> NoItem, bytes |-> FALSE]
    <3>1. (i \in Vault) = FALSE
      BY <2>3
    <3> QED BY <2>1, <2>3, <3>1, Zenon
  <2> QED BY <2>2, <2>3
<1>3. ItemOK
  <2>1. \A i \in Items : item[i] \in ItemRow
    <3>1. /\ [st |-> "current", of |-> NoFile, prev |-> NoItem, bytes |-> TRUE] \in ItemRow
          /\ [st |-> "absent", of |-> NoFile, prev |-> NoItem, bytes |-> FALSE] \in ItemRow
      BY DEF ItemRow
    <3> QED BY <1>2, <3>1
  <2>2. item = [i \in Items |-> item[i]]
    BY DEF FilingInit
  <2> QED BY <2>1, <2>2 DEF ItemOK
<1>4. UploadOK /\ \A u \in Uploads : UploadKnows(u)
  BY NoUploadIs DEF FilingInit, UploadOK, UploadKnows
<1>5. ASSUME NEW i \in Items PROVE Kept(i)
  <2>1. item[i].of = NoFile /\ item[i].prev = NoItem /\ (item[i].st = "absent" \/ item[i].bytes)
    BY <1>2
  <2>2. NoFile \notin Files
    BY FilingAssumption
  <2> QED BY <2>1, <2>2 DEF Kept, Filed
<1> QED BY <1>1, <1>3, <1>4, <1>5 DEF FilingInv, FilingTyped

LEMMA FilingInvStep ==
  ASSUME FilingInv, [FilingNext]_filingVars
  PROVE  FilingInv'
BY FilingTypesStep, KnowsStep, KeptStep DEF FilingInv

LEMMA FilingInvariant == FilingSpec => []FilingInv
<1>1. FilingInv /\ [FilingNext]_filingVars => FilingInv'
  BY FilingInvStep
<1> QED BY <1>1, FilingInvInit, PTL DEF FilingSpec

(* The types of the queue, the vault and the calls on them.                *)
THEOREM FilingTypesTheorem == FilingSpec => []FilingTypes
<1>1. FilingInv => FilingTypes
  BY DEF FilingInv, FilingTyped, FilingTypes, StagedOK, ItemOK, UploadOK, DiscardOK, SweepingOK, FileRow, ItemRow, UploadRec
<1> QED BY <1>1, FilingInvariant, PTL

(* A staged file becomes one item, also when two calls file it at once,    *)
(* and none after it was discarded or expired; of two replacements of one  *)
(* version one is stored.                                                  *)
THEOREM FiledOnceTheorem == FilingSpec => FiledOnce
<1> DEFINE New(i) == LET f == item'[i].of IN
          /\ staged[f].st \notin {"discarded", "expired"}
          /\ \A j \in Items \ {i} : Filed(j)' =>
               /\ item'[j].of # f
               /\ item'[i].prev # NoItem => item'[j].prev # item'[i].prev
           A == \A i \in Items : ~Filed(i) /\ Filed(i)' => New(i)
<1>1. FilingInv /\ [FilingNext]_filingVars => [A]_filingVars
  <2> SUFFICES ASSUME FilingInv, [FilingNext]_filingVars, NEW i \in Items, ~Filed(i), Filed(i)'
               PROVE  New(i)
    OBVIOUS
  <2>1. ASSUME NEW j \in Items, item' = [item EXCEPT ![j] = item'[j]], ~Filed(j)' PROVE FALSE
    BY <2>1 DEF Filed, FilingInv, FilingTyped, ItemOK
  <2>2. CASE item' = item
    BY <2>2 DEF Filed
  <2>3. ASSUME NEW u \in Uploads, WriteBytes(u) PROVE New(i)
    BY <2>1, <2>3, WriteBytesIs DEF FilingInv, FilingTyped, Filed
  <2>4. ASSUME NEW u \in Uploads, RollBack(u) PROVE New(i)
    <3>1. UploadKnows(u)
      BY DEF FilingInv
    <3> QED BY <2>1, <2>4, <3>1, BackIs DEF FilingInv, FilingTyped, Filed
  <2>5. ASSUME NEW u \in Uploads, Commit(u) PROVE New(i)
    <3> DEFINE new == upload[u].new
               old == upload[u].old
               f   == upload[u].file
    <3>0. UploadKnows(u)
      BY DEF FilingInv
    <3>1. /\ new \in Items /\ f \in Files /\ staged[f].st = "staged" /\ old \in Items \cup {NoItem}
          /\ old # NoItem => item[old].st = "current"
          /\ item'[new].of = f /\ item'[new].prev = old
          /\ \A k \in Items \ {new} :
               (Filed(k)' <=> Filed(k)) /\ item'[k].of = item[k].of /\ item'[k].prev = item[k].prev
      BY <2>5, <3>0, CommitIs DEF FilingInv, FilingTyped
    <3>2. i = new
      BY <3>1
    <3>3. ~Settled(f)
      BY <3>1 DEF Settled, WaitingStates
    <3>4. \A k \in Items : Filed(k) => item[k].of # f /\ (old # NoItem => item[k].prev # old)
      BY <3>1, <3>3 DEF FilingInv, Kept
    <3> QED BY <3>1, <3>2, <3>4
  <2> QED BY <2>2, <2>3, <2>4, <2>5, Cases, ElsewhereIs, TakeFileIs, FiledIs DEF FilingInv, FilingTyped
<1> QED BY <1>1, FilingInvariant, PTL DEF FilingSpec, FiledOnce

(* Whatever fails or dies: an item has its bytes in the vault, and a file  *)
(* that waits, not expired and not being discarded, has its in staging.    *)
THEOREM BytesTheorem == FilingSpec => NoRowWithoutBytes
<1> DEFINE A == /\ \A i \in Items : Filed(i)' => item'[i].bytes
                /\ \A f \in Files : staged[f].st = "staged" /\ staged[f].bytes /\ ~staged'[f].bytes
                     => staged[f].expired \/ \E d \in Discards : discard[d] = f
<1>1. FilingInv /\ [FilingNext]_filingVars => [A]_filingVars
  <2> SUFFICES ASSUME FilingInv, [FilingNext]_filingVars PROVE A
    OBVIOUS
  <2>1. FilingInv' /\ QueueMoves
    BY FilingInvStep, QueueStep
  <2> QED BY <2>1 DEF FilingInv, Kept, QueueMoves
<1> QED BY <1>1, FilingInvariant, PTL DEF FilingSpec, NoRowWithoutBytes
=============================================================================
