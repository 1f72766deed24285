---------------------------- MODULE PolicyProofs ----------------------------
(* Invariance proofs for the policies of an organization: the publication  *)
(* of what is approved, for any number of jobs, workers and attempts, and  *)
(* the workflow of a document, for any number of drafts, versions,         *)
(* submissions and calls.                                                  *)
EXTENDS PolicyPublication, PolicyWorkflow, TLAPS

(***************************************************************************)
(* Publication.                                                            *)
(***************************************************************************)

(* The columns of the job table, the worker's memory and the events.       *)
TableOK ==
  /\ state \in [Jobs -> {"absent", "pending", "running", "complete", "failed"}]
  /\ attempts \in [Jobs -> Nat] /\ token \in [Jobs -> Nat]
  /\ wait \in [Jobs -> Nat] /\ lease \in [Jobs -> Nat]
  /\ copied \in [Jobs -> BOOLEAN] /\ retried \in [Jobs -> BOOLEAN]
WorkerOK ==
  /\ pc \in [Workers -> {"idle", "claimed", "copy", "emit", "check", "write"}]
  /\ job \in [Workers -> Jobs \cup {NoJob}]
  /\ mine \in [Workers -> Nat] /\ tries \in [Workers -> Nat]
  /\ verdict \in [Workers -> {"none", "complete", "retry", "gone"}]
EventsOK ==
  /\ st \in [Jobs -> {"absent", "open", "processed", "dead"}]
  /\ handled \in [Jobs -> BOOLEAN]

(* A worker that has read its job back.                                    *)
HasRead(w) == pc[w] \notin {"idle", "claimed"}

(* A token is that of the last claim, and what a worker read agrees.       *)
JobBooks ==
  /\ \A j \in Jobs : /\ token[j] # NoToken => token[j] = attempts[j]
                     /\ state[j] = "running" => token[j] = attempts[j] /\ attempts[j] > 0
  /\ \A w \in Workers : /\ pc[w] # "idle" => job[w] \in Jobs /\ attempts[job[w]] > 0
                        /\ HasRead(w) => tries[w] > 0 /\ (mine[w] # NoToken => mine[w] = tries[w])

LEMMA TypeParts == TableOK /\ WorkerOK /\ EventsOK /\ JobBooks => TypeOK
BY DEF TableOK, WorkerOK, EventsOK, JobBooks, TypeOK

LEMMA EventTypes ==
  ASSUME EventsOK, NEW j \in Jobs,
         UNCHANGED events \/ Bus!Store(j) \/ Bus!Handle(j) \/ Bus!Process(j) \/ Bus!GiveUp(j) \/ Bus!Reopen(j)
  PROVE  EventsOK'
BY DEF EventsOK, events, Bus!Store, Bus!Handle, Bus!Process, Bus!GiveUp, Bus!Reopen, Bus!Conclude

LEMMA TypeStep ==
  ASSUME TableOK, WorkerOK, EventsOK, JobBooks, [Next]_vars
  PROVE  TableOK' /\ WorkerOK' /\ EventsOK'
<1> USE PublicationAssumption
<1>1. CASE UNCHANGED vars
  BY <1>1 DEF vars, TableOK, WorkerOK, EventsOK
<1>2. ASSUME NEW j \in Jobs, Approve(j) \/ RetryNow(j) PROVE TableOK' /\ WorkerOK' /\ EventsOK'
  <2>1. TableOK'
    <3>1. CASE Approve(j)
      BY <3>1 DEF Approve, TableOK
    <3>2. CASE RetryNow(j)
      BY <3>2 DEF RetryNow, TableOK, NoToken
    <3> QED BY <1>2, <3>1, <3>2
  <2> QED BY <1>2, <2>1 DEF Approve, RetryNow, WorkerOK, EventsOK, worker, events
<1>3. ASSUME NEW j \in Jobs, Deliver(j) PROVE TableOK' /\ WorkerOK' /\ EventsOK'
  <2>1. EventsOK'
    BY <1>3, EventTypes DEF Deliver
  <2> QED BY <1>3, <2>1 DEF Deliver, table, worker, TableOK, WorkerOK
<1>4. ASSUME NEW w \in Workers, Claim(w) PROVE TableOK' /\ WorkerOK' /\ EventsOK'
  <2>1. PICK j \in Jobs : /\ state'    = [state EXCEPT ![j] = "running"]
                          /\ attempts' = [attempts EXCEPT ![j] = @ + 1]
                          /\ lease'    = [lease EXCEPT ![j] = LEASE]
                          /\ token'    = [token EXCEPT ![j] = attempts[j] + 1]
                          /\ job'      = [job EXCEPT ![w] = j]
    BY <1>4 DEF Claim, Queue, FreshToken
  <2>2. TableOK'
    BY <1>4, <2>1 DEF Claim, TableOK
  <2>3. WorkerOK'
    BY <1>4, <2>1 DEF Claim, WorkerOK
  <2> QED BY <1>4, <2>2, <2>3 DEF Claim, EventsOK, events
<1>5. ASSUME NEW w \in Workers, ReadBack(w) PROVE TableOK' /\ WorkerOK' /\ EventsOK'
  <2>1. job[w] \in Jobs
    BY <1>5 DEF ReadBack, JobBooks
  <2>2. WorkerOK'
    BY <1>5, <2>1 DEF ReadBack, WorkerOK, TableOK
  <2> QED BY <1>5, <2>2 DEF ReadBack, TableOK, EventsOK, table, events
<1>6. ASSUME NEW w \in Workers, Copy(w) PROVE TableOK' /\ WorkerOK' /\ EventsOK'
  BY <1>6 DEF Copy, TableOK, WorkerOK, EventsOK, table, events
<1>7. ASSUME NEW w \in Workers, CopyFails(w) \/ EmitFails(w) \/ Check(w)
      PROVE  TableOK' /\ WorkerOK' /\ EventsOK'
  <2>1. PICK v \in {"retry", "gone", "complete"} : Decide(w, v) /\ UNCHANGED events
    BY <1>7 DEF CopyFails, EmitFails, Check
  <2> QED BY <2>1 DEF Decide, TableOK, WorkerOK, EventsOK, table, events
<1>8. ASSUME NEW w \in Workers, Emit(w) PROVE TableOK' /\ WorkerOK' /\ EventsOK'
  <2>1. job[w] \in Jobs
    BY <1>8 DEF Emit, JobBooks
  <2>2. EventsOK'
    BY <1>8, <2>1, EventTypes DEF Emit
  <2> QED BY <1>8, <2>2 DEF Emit, TableOK, WorkerOK, table
<1>9. ASSUME NEW w \in Workers, Leave(w) PROVE WorkerOK'
  BY <1>9 DEF Leave, WorkerOK, NoToken
<1>10. ASSUME NEW w \in Workers, Complete(w) PROVE TableOK' /\ WorkerOK' /\ EventsOK'
  BY <1>9, <1>10 DEF Complete, TableOK, EventsOK, events
<1>11. ASSUME NEW w \in Workers, NEW s \in {"pending", "failed"}, NEW t \in Nat, Release(w, s, t)
       PROVE  TableOK' /\ WorkerOK' /\ EventsOK'
  <2>1. CASE Holds(w)
    <3>1. TableOK'
      <4>1. state' \in [Jobs -> {"absent", "pending", "running", "complete", "failed"}]
        BY <1>11, <2>1 DEF Release, TableOK
      <4>2. wait' \in [Jobs -> Nat]
        BY <1>11, <2>1 DEF Release, TableOK
      <4>3. lease' \in [Jobs -> Nat] /\ token' \in [Jobs -> Nat]
        BY <1>11, <2>1 DEF Release, TableOK, NoToken
      <4> QED BY <1>11, <4>1, <4>2, <4>3 DEF Release, TableOK
    <3> QED BY <1>9, <1>11, <3>1 DEF Release, EventsOK, events
  <2>2. CASE ~Holds(w)
    BY <1>9, <1>11, <2>2 DEF Release, TableOK, EventsOK, events
  <2> QED BY <2>1, <2>2
<1>12. ASSUME NEW w \in Workers, Retry(w) \/ MarkFailed(w) PROVE TableOK' /\ WorkerOK' /\ EventsOK'
  <2>1. pc[w] = "write" /\ job[w] \in Jobs /\ tries[w] \in Nat \ {0} /\ wait[job[w]] \in Nat
    <3>1. pc[w] = "write"
      BY <1>12 DEF Retry, MarkFailed
    <3>2. job[w] \in Jobs /\ tries[w] > 0
      BY <3>1 DEF JobBooks, HasRead
    <3>3. tries[w] \in Nat
      BY DEF WorkerOK
    <3>4. wait[job[w]] \in Nat
      BY <3>2 DEF TableOK
    <3> QED BY <3>1, <3>2, <3>3, <3>4
  <2>2. CASE Retry(w)
    <3>1. tries[w] \in 1 .. MAX_ATTEMPTS
      BY <2>1, <2>2 DEF Retry, UsedUp
    <3>2. BACKOFF[tries[w]] \in Nat
      BY <3>1
    <3> QED BY <1>11, <2>2, <3>2 DEF Retry
  <2>3. CASE MarkFailed(w)
    BY <1>11, <2>1, <2>3 DEF MarkFailed
  <2> QED BY <1>12, <2>2, <2>3
<1>13. ASSUME NEW w \in Workers, Crash(w) PROVE TableOK' /\ WorkerOK' /\ EventsOK'
  BY <1>9, <1>13 DEF Crash, TableOK, EventsOK, table, events
<1>14. CASE Tick
  <2>1. \A n \in Nat : Elapse(n) \in Nat
    BY DEF Elapse
  <2> QED BY <1>14, <2>1 DEF Tick, TableOK, WorkerOK, EventsOK, worker, events
<1> QED
  BY <1>1, <1>2, <1>3, <1>4, <1>5, <1>6, <1>7, <1>8, <1>10, <1>12, <1>13, <1>14 DEF Next, Step

LEMMA JobBooksStep ==
  ASSUME TableOK, WorkerOK, JobBooks, [Next]_vars
  PROVE  JobBooks'
<1> USE PublicationAssumption
<1>1. CASE UNCHANGED <<state, attempts, token, pc, job, mine, tries>>
  BY <1>1 DEF JobBooks, HasRead
<1>2. ASSUME NEW j \in Jobs, Approve(j) \/ RetryNow(j) PROVE JobBooks'
  <2>1. \A k \in Jobs : /\ attempts'[k] = attempts[k]
                        /\ token'[k] = token[k] \/ token'[k] = NoToken
                        /\ state'[k] = "running" => state[k] = "running" /\ token'[k] = token[k]
    <3>1. CASE Approve(j)
      BY <3>1 DEF Approve, TableOK
    <3>2. CASE RetryNow(j)
      BY <3>2 DEF RetryNow, TableOK
    <3> QED BY <1>2, <3>1, <3>2
  <2>2. UNCHANGED <<pc, job, mine, tries>>
    BY <1>2 DEF Approve, RetryNow, worker
  <2> QED BY <2>1, <2>2 DEF JobBooks, HasRead
<1>3. ASSUME NEW w \in Workers, Claim(w) PROVE JobBooks'
  <2>1. PICK j \in Jobs : /\ state'    = [state EXCEPT ![j] = "running"]
                          /\ attempts' = [attempts EXCEPT ![j] = @ + 1]
                          /\ token'    = [token EXCEPT ![j] = attempts[j] + 1]
                          /\ job'      = [job EXCEPT ![w] = j]
    BY <1>3 DEF Claim, Queue, FreshToken
  <2>2. /\ attempts'[j] = attempts[j] + 1 /\ token'[j] = attempts[j] + 1
        /\ \A k \in Jobs \ {j} : attempts'[k] = attempts[k] /\ token'[k] = token[k] /\ state'[k] = state[k]
        /\ \A k \in Jobs : attempts[k] \in Nat
    BY <2>1 DEF TableOK
  <2>3. /\ pc'[w] = "claimed" /\ job'[w] = j
        /\ \A v \in Workers \ {w} : pc'[v] = pc[v] /\ job'[v] = job[v]
        /\ mine' = mine /\ tries' = tries
    BY <1>3, <2>1 DEF Claim, WorkerOK
  <2>4. \A k \in Jobs : /\ token'[k] # NoToken => token'[k] = attempts'[k]
                        /\ state'[k] = "running" => token'[k] = attempts'[k] /\ attempts'[k] > 0
    BY <2>2 DEF JobBooks
  <2>5. \A k \in Jobs : attempts[k] > 0 => attempts'[k] > 0
    <3>1. attempts[j] + 1 > 0
      BY <2>2
    <3> QED BY <2>2, <3>1
  <2>6. \A v \in Workers : pc'[v] # "idle" => job'[v] \in Jobs /\ attempts'[job'[v]] > 0
    <3>1. attempts'[j] > 0
      <4>1. attempts[j] \in Nat /\ attempts'[j] = attempts[j] + 1
        BY <2>2
      <4> QED BY <4>1
    <3>2. \A v \in Workers \ {w} : pc[v] # "idle" => job[v] \in Jobs /\ attempts[job[v]] > 0
      BY DEF JobBooks
    <3> QED BY <2>3, <2>5, <3>1, <3>2
  <2>7. \A v \in Workers : HasRead(v)' => HasRead(v)
    BY <2>3 DEF HasRead
  <2> QED BY <2>3, <2>4, <2>6, <2>7 DEF JobBooks
<1>4. ASSUME NEW w \in Workers, ReadBack(w) PROVE JobBooks'
  <2>1. job[w] \in Jobs /\ attempts[job[w]] > 0
        /\ (token[job[w]] # NoToken => token[job[w]] = attempts[job[w]])
    BY <1>4 DEF ReadBack, JobBooks
  <2>2. /\ pc'[w] = "copy" /\ mine'[w] = token[job[w]] /\ tries'[w] = attempts[job[w]]
        /\ \A v \in Workers \ {w} : pc'[v] = pc[v] /\ mine'[v] = mine[v] /\ tries'[v] = tries[v]
        /\ UNCHANGED <<state, attempts, token, job>>
    BY <1>4 DEF ReadBack, WorkerOK, table
  <2> QED BY <2>1, <2>2 DEF JobBooks, HasRead
<1>5. ASSUME NEW w \in Workers, HasRead(w), HasRead(w)', UNCHANGED <<state, attempts, token, job, mine, tries>>,
             \A v \in Workers \ {w} : pc'[v] = pc[v]
      PROVE  JobBooks'
  BY <1>5 DEF JobBooks, HasRead
<1>6. ASSUME NEW w \in Workers, Copy(w) \/ Emit(w) PROVE JobBooks'
  BY <1>5, <1>6 DEF Copy, Emit, WorkerOK, HasRead, table
<1>7. ASSUME NEW w \in Workers, CopyFails(w) \/ EmitFails(w) \/ Check(w) PROVE JobBooks'
  <2>1. pc[w] \in {"copy", "emit", "check"} /\ \E v : Decide(w, v)
    BY <1>7 DEF CopyFails, EmitFails, Check
  <2> QED BY <1>5, <2>1 DEF Decide, WorkerOK, HasRead, table
<1>8. ASSUME NEW w \in Workers, Leave(w), attempts' = attempts,
             \A j \in Jobs : /\ token'[j] = token[j] \/ token'[j] = NoToken
                             /\ state'[j] = "running" => state[j] = "running" /\ token'[j] = token[j]
      PROVE  JobBooks'
  <2>1. \A v \in Workers \ {w} : pc'[v] = pc[v] /\ job'[v] = job[v] /\ mine'[v] = mine[v] /\ tries'[v] = tries[v]
    BY <1>8 DEF Leave, WorkerOK
  <2>2. pc'[w] = "idle"
    BY <1>8 DEF Leave, WorkerOK
  <2> QED BY <1>8, <2>1, <2>2 DEF JobBooks, HasRead
<1>9. ASSUME NEW w \in Workers, Complete(w) PROVE JobBooks'
  <2>1. \A j \in Jobs : state'[j] = "running" => state[j] = "running"
    BY <1>9 DEF Complete, TableOK
  <2> QED BY <1>8, <1>9, <2>1 DEF Complete
<1>10. ASSUME NEW w \in Workers, NEW s \in {"pending", "failed"}, NEW t, Release(w, s, t) PROVE JobBooks'
  <2>1. CASE Holds(w)
    <3>1. \A j \in Jobs : /\ token'[j] = token[j] \/ token'[j] = NoToken
                          /\ state'[j] = "running" => state[j] = "running" /\ token'[j] = token[j]
      BY <1>10, <2>1 DEF Release, TableOK
    <3> QED BY <1>8, <1>10, <3>1 DEF Release
  <2>2. CASE ~Holds(w)
    BY <1>8, <1>10, <2>2 DEF Release
  <2> QED BY <2>1, <2>2
<1>11. ASSUME NEW w \in Workers, Crash(w) PROVE JobBooks'
  BY <1>8, <1>11 DEF Crash, table
<1>12. ASSUME (\E j \in Jobs : Deliver(j)) \/ Tick \/ UNCHANGED vars PROVE JobBooks'
  BY <1>1, <1>12 DEF Deliver, Tick, vars, table, worker
<1> QED
  BY <1>2, <1>3, <1>4, <1>6, <1>7, <1>9, <1>10, <1>11, <1>12 DEF Next, Step, Retry, MarkFailed

(* Types, and the agreement of tokens, attempts and what workers hold: for *)
(* any number of jobs, workers and attempts.                               *)
THEOREM PublicationTypes == Spec => [](TypeOK /\ TableOK /\ WorkerOK /\ EventsOK /\ JobBooks)
<1>1. Init => TableOK /\ WorkerOK /\ EventsOK /\ JobBooks
  BY DEF Init, Bus!Init, TableOK, WorkerOK, EventsOK, JobBooks, HasRead, NoToken
<1>2. TableOK /\ WorkerOK /\ EventsOK /\ JobBooks /\ [Next]_vars => (TableOK /\ WorkerOK /\ EventsOK /\ JobBooks)'
  BY TypeStep, JobBooksStep
<1> QED BY <1>1, <1>2, TypeParts, PTL DEF Spec

-----------------------------------------------------------------------------
(* Completion.  What a worker concludes is true when it concludes it, and  *)
(* copies and handlers that have completed are not undone.                 *)
Evidence ==
  /\ \A w \in Workers : /\ pc[w] \in {"emit", "check"} => copied[job[w]]
                        /\ pc[w] = "write" /\ verdict[w] = "complete" => copied[job[w]] /\ handled[job[w]]
  /\ \A j \in Jobs : st[j] = "processed" => handled[j]

(* Evidence is history: it only grows.                                     *)
LEMMA EvidenceGrows ==
  ASSUME TableOK, EventsOK, JobBooks, [Next]_vars
  PROVE  \A j \in Jobs : (copied[j] => copied'[j]) /\ (handled[j] => handled'[j])
<1> DEFINE Grows == \A j \in Jobs : (copied[j] => copied'[j]) /\ (handled[j] => handled'[j])
<1>1. ASSUME copied' = copied, handled' = handled PROVE Grows
  BY <1>1
<1>2. ASSUME NEW w \in Workers, Copy(w) PROVE Grows
  BY <1>2 DEF Copy, TableOK, events
<1>3. ASSUME NEW j \in Jobs, copied' = copied,
             Bus!Store(j) \/ Bus!Handle(j) \/ Bus!Process(j) \/ Bus!GiveUp(j) \/ Bus!Reopen(j)
      PROVE  Grows
  BY <1>3 DEF EventsOK, Bus!Store, Bus!Handle, Bus!Process, Bus!GiveUp, Bus!Reopen, Bus!Conclude
<1>4. ASSUME NEW j \in Jobs, Deliver(j) PROVE Grows
  BY <1>3, <1>4 DEF Deliver
<1>5. ASSUME NEW w \in Workers, Emit(w) PROVE Grows
  <2>1. job[w] \in Jobs /\ copied' = copied
    BY <1>5 DEF Emit, JobBooks
  <2>2. CASE st[job[w]] = "absent"
    BY <1>3, <1>5, <2>1, <2>2 DEF Emit
  <2>3. CASE st[job[w]] # "absent"
    BY <1>1, <1>5, <2>1, <2>3 DEF Emit, events
  <2> QED BY <2>2, <2>3
<1>6. ASSUME NEW w \in Workers, ReadBack(w) \/ CopyFails(w) \/ EmitFails(w) \/ Check(w) \/ Complete(w)
                                \/ Retry(w) \/ MarkFailed(w) \/ Crash(w) \/ Claim(w)
      PROVE  copied' = copied /\ handled' = handled
  BY <1>6 DEF ReadBack, CopyFails, EmitFails, Check, Decide, Complete, Retry, MarkFailed, Release, Crash, Claim, events
<1>7. ASSUME (\E j \in Jobs : Approve(j) \/ RetryNow(j)) \/ Tick \/ UNCHANGED vars
      PROVE  copied' = copied /\ handled' = handled
  BY <1>7 DEF Approve, RetryNow, Tick, vars, events
<1>8. Grows
  <2> HIDE DEF Grows
  <2> QED BY <1>1, <1>2, <1>4, <1>5, <1>6, <1>7 DEF Next, Step
<1> QED BY <1>8

LEMMA ProcessedIsHandled ==
  ASSUME EventsOK, JobBooks, [Next]_vars, \A j \in Jobs : st[j] = "processed" => handled[j]
  PROVE  \A j \in Jobs : st'[j] = "processed" => handled'[j]
<1>1. ASSUME NEW j \in Jobs, Bus!Store(j) \/ Bus!Handle(j) \/ Bus!Process(j) \/ Bus!GiveUp(j) \/ Bus!Reopen(j)
      PROVE  \A k \in Jobs : st'[k] = "processed" => handled'[k]
  BY <1>1 DEF EventsOK, Bus!Store, Bus!Handle, Bus!Process, Bus!GiveUp, Bus!Reopen, Bus!Conclude
<1>2. CASE UNCHANGED events
  BY <1>2 DEF events
<1>3. ASSUME NEW j \in Jobs, Deliver(j) PROVE \A k \in Jobs : st'[k] = "processed" => handled'[k]
  BY <1>1, <1>3 DEF Deliver
<1>4. ASSUME NEW w \in Workers, Emit(w) PROVE \A k \in Jobs : st'[k] = "processed" => handled'[k]
  <2>1. job[w] \in Jobs
    BY <1>4 DEF Emit, JobBooks
  <2> QED BY <1>1, <1>2, <1>4, <2>1 DEF Emit
<1>5. ASSUME NEW w \in Workers, ReadBack(w) \/ Copy(w) \/ CopyFails(w) \/ EmitFails(w) \/ Check(w) \/ Complete(w)
                                \/ Retry(w) \/ MarkFailed(w) \/ Crash(w) \/ Claim(w)
      PROVE  UNCHANGED events
  BY <1>5 DEF ReadBack, Copy, CopyFails, EmitFails, Check, Complete, Retry, MarkFailed, Release, Crash, Claim
<1>6. ASSUME (\E j \in Jobs : Approve(j) \/ RetryNow(j)) \/ Tick \/ UNCHANGED vars
      PROVE  UNCHANGED events
  BY <1>6 DEF Approve, RetryNow, Tick, vars, events
<1> QED BY <1>2, <1>3, <1>4, <1>5, <1>6 DEF Next, Step

(* What one worker knows, when it is the one to move.                      *)
LEMMA EvidenceOfWorker ==
  ASSUME TableOK, WorkerOK, EventsOK, JobBooks, Evidence, [Next]_vars, NEW w \in Workers
  PROVE  /\ pc'[w] \in {"emit", "check"} => copied'[job'[w]]
         /\ pc'[w] = "write" /\ verdict'[w] = "complete" => copied'[job'[w]] /\ handled'[job'[w]]
<1> DEFINE Goal == /\ pc'[w] \in {"emit", "check"} => copied'[job'[w]]
                   /\ pc'[w] = "write" /\ verdict'[w] = "complete" => copied'[job'[w]] /\ handled'[job'[w]]
<1>1. \A j \in Jobs : (copied[j] => copied'[j]) /\ (handled[j] => handled'[j])
  BY EvidenceGrows
<1>2. pc[w] # "idle" => job[w] \in Jobs
  BY DEF JobBooks
<1>3. ASSUME pc'[w] = pc[w], job'[w] = job[w], verdict'[w] = verdict[w] PROVE Goal
  BY <1>1, <1>2, <1>3 DEF Evidence
<1>4. ASSUME pc'[w] \in {"idle", "claimed", "copy"} PROVE Goal
  BY <1>4
<1>5. ASSUME Copy(w) PROVE Goal
  BY <1>2, <1>5 DEF Copy, TableOK, WorkerOK
<1>6. ASSUME Emit(w) PROVE Goal
  <2>1. pc[w] = "emit" /\ pc'[w] = "check" /\ job'[w] = job[w]
    BY <1>6 DEF Emit, WorkerOK
  <2> QED BY <1>1, <1>2, <2>1 DEF Evidence
<1>7. ASSUME CopyFails(w) \/ EmitFails(w) PROVE Goal
  <2>1. pc'[w] = "write" /\ verdict'[w] # "complete"
    BY <1>7 DEF CopyFails, EmitFails, Decide, WorkerOK
  <2> QED BY <2>1
<1>8. ASSUME Check(w) PROVE Goal
  <2>1. /\ pc[w] = "check" /\ pc'[w] = "write" /\ job'[w] = job[w]
        /\ verdict'[w] = "complete" => Delivered(job[w])
    BY <1>8 DEF Check, Decide, WorkerOK
  <2>2. job[w] \in Jobs /\ copied[job[w]]
    BY <1>2, <2>1 DEF Evidence
  <2>3. Delivered(job[w]) => handled[job[w]]
    BY <2>2 DEF Delivered, Evidence
  <2> QED BY <1>1, <2>1, <2>2, <2>3
<1>9. ASSUME Leave(w) \/ Claim(w) \/ ReadBack(w) PROVE Goal
  <2>1. pc'[w] \in {"idle", "claimed", "copy"}
    BY <1>9 DEF Leave, Claim, ReadBack, WorkerOK
  <2> QED BY <1>4, <2>1
<1>10. ASSUME NEW v \in Workers \ {w}, Step(v) \/ Claim(v) \/ Crash(v) PROVE Goal
  <2>1. pc'[w] = pc[w] /\ job'[w] = job[w] /\ verdict'[w] = verdict[w]
    <3>1. CASE Claim(v)
      BY <3>1 DEF Claim, WorkerOK
    <3>2. CASE ReadBack(v) \/ Copy(v) \/ Emit(v)
      BY <3>2 DEF ReadBack, Copy, Emit, WorkerOK
    <3>3. CASE CopyFails(v) \/ EmitFails(v) \/ Check(v)
      BY <3>3 DEF CopyFails, EmitFails, Check, Decide, WorkerOK
    <3>4. CASE Leave(v)
      BY <3>4 DEF Leave, WorkerOK
    <3> QED BY <1>10, <3>1, <3>2, <3>3, <3>4 DEF Step, Complete, Retry, MarkFailed, Release, Crash
  <2> QED BY <1>3, <2>1
<1>11. ASSUME (\E j \in Jobs : Approve(j) \/ RetryNow(j) \/ Deliver(j)) \/ Tick \/ UNCHANGED vars PROVE Goal
  BY <1>3, <1>11 DEF Approve, RetryNow, Deliver, Tick, vars, worker
<1>12. Step(w) => Goal
  BY <1>5, <1>6, <1>7, <1>8, <1>9 DEF Step, Complete, Retry, MarkFailed, Release
<1>13. Crash(w) => Goal
  BY <1>9 DEF Crash
<1>14. Goal
  <2> HIDE DEF Goal
  <2> QED BY <1>9, <1>10, <1>11, <1>12, <1>13 DEF Next
<1> QED BY <1>14

LEMMA CompletionStep ==
  ASSUME TableOK, WorkerOK, EventsOK, JobBooks, Evidence, CompleteMeansPublished, [Next]_vars
  PROVE  CompleteMeansPublished'
<1>1. \A j \in Jobs : (copied[j] => copied'[j]) /\ (handled[j] => handled'[j])
  BY EvidenceGrows
<1>2. ASSUME \A j \in Jobs : state'[j] = "complete" => state[j] = "complete" PROVE CompleteMeansPublished'
  BY <1>1, <1>2 DEF CompleteMeansPublished
<1>3. ASSUME NEW w \in Workers, Complete(w) PROVE CompleteMeansPublished'
  <2>1. job[w] \in Jobs /\ copied[job[w]] /\ handled[job[w]]
    BY <1>3 DEF Complete, JobBooks, Evidence
  <2>2. \A j \in Jobs \ {job[w]} : state'[j] = state[j]
    BY <1>3 DEF Complete, TableOK
  <2> QED BY <1>1, <2>1, <2>2 DEF CompleteMeansPublished
<1>4. ASSUME NEW w \in Workers, Claim(w) \/ Retry(w) \/ MarkFailed(w)
      PROVE  \A j \in Jobs : state'[j] = "complete" => state[j] = "complete"
  BY <1>4 DEF Claim, Retry, MarkFailed, Release, TableOK
<1>5. ASSUME NEW w \in Workers, ReadBack(w) \/ Copy(w) \/ CopyFails(w) \/ Emit(w) \/ EmitFails(w) \/ Check(w) \/ Crash(w)
      PROVE  state' = state
  BY <1>5 DEF ReadBack, Copy, CopyFails, Emit, EmitFails, Check, Crash, Decide, table
<1>6. ASSUME NEW j \in Jobs, Approve(j) \/ RetryNow(j)
      PROVE  \A k \in Jobs : state'[k] = "complete" => state[k] = "complete"
  BY <1>6 DEF Approve, RetryNow, TableOK
<1>7. ASSUME (\E j \in Jobs : Deliver(j)) \/ Tick \/ UNCHANGED vars PROVE state' = state
  BY <1>7 DEF Deliver, Tick, vars, table
<1> QED BY <1>2, <1>3, <1>4, <1>5, <1>6, <1>7 DEF Next, Step

(* A complete job has its evidence copied and its event handled, whoever   *)
(* did which part, however often workers die or overtake one another.      *)
THEOREM PublishedTheorem == Spec => []CompleteMeansPublished
<1>1. Init => Evidence /\ CompleteMeansPublished
  BY DEF Init, Bus!Init, Evidence, CompleteMeansPublished
<1>2. TableOK /\ WorkerOK /\ EventsOK /\ JobBooks /\ Evidence /\ [Next]_vars => Evidence'
  BY EvidenceOfWorker, ProcessedIsHandled DEF Evidence
<1>3. TableOK /\ WorkerOK /\ EventsOK /\ JobBooks /\ Evidence /\ CompleteMeansPublished /\ [Next]_vars
        => CompleteMeansPublished'
  BY CompletionStep
<1> QED BY <1>1, <1>2, <1>3, PublicationTypes, PTL DEF Spec

-----------------------------------------------------------------------------
(* Attempts.  A job goes back to waiting with attempts left, or because a  *)
(* manager wants it to; one that is not there yet has made none.           *)
FreshJobs == \A j \in Jobs : state[j] = "absent" => attempts[j] = 0

LEMMA FreshJobsStep ==
  ASSUME TableOK, FreshJobs, [Next]_vars
  PROVE  FreshJobs'
<1>1. ASSUME \A j \in Jobs : state'[j] = "absent" => state[j] = "absent" /\ attempts'[j] = attempts[j]
      PROVE  FreshJobs'
  BY <1>1 DEF FreshJobs
<1>2. ASSUME NEW j \in Jobs, Approve(j) \/ RetryNow(j) PROVE FreshJobs'
  <2>1. \A k \in Jobs : state'[k] = "absent" => state[k] = "absent" /\ attempts'[k] = attempts[k]
    BY <1>2 DEF Approve, RetryNow, TableOK
  <2> QED BY <1>1, <2>1
<1>3. ASSUME NEW w \in Workers, Claim(w) \/ Complete(w) \/ Retry(w) \/ MarkFailed(w) PROVE FreshJobs'
  <2>1. \A j \in Jobs : state'[j] = "absent" => state[j] = "absent" /\ attempts'[j] = attempts[j]
    BY <1>3 DEF Claim, Complete, Retry, MarkFailed, Release, TableOK
  <2> QED BY <1>1, <2>1
<1>4. ASSUME NEW w \in Workers, ReadBack(w) \/ Copy(w) \/ CopyFails(w) \/ Emit(w) \/ EmitFails(w) \/ Check(w) \/ Crash(w)
      PROVE  UNCHANGED <<state, attempts>>
  BY <1>4 DEF ReadBack, Copy, CopyFails, Emit, EmitFails, Check, Crash, Decide, table
<1>5. ASSUME (\E j \in Jobs : Deliver(j)) \/ Tick \/ UNCHANGED vars PROVE UNCHANGED <<state, attempts>>
  BY <1>5 DEF Deliver, Tick, vars, table
<1>6. UNCHANGED <<state, attempts>> => FreshJobs'
  BY <1>1
<1> QED BY <1>2, <1>3, <1>4, <1>5, <1>6 DEF Next, Step

LEMMA WaitingStep ==
  ASSUME TypeOK, TableOK, WorkerOK, JobBooks, FreshJobs, WaitingHasAttemptsLeft, [Next]_vars
  PROVE  WaitingHasAttemptsLeft'
<1> USE PublicationAssumption
<1>1. ASSUME \A j \in Jobs : state'[j] = "pending" => state[j] = "pending" /\ attempts'[j] = attempts[j],
             retried' = retried
      PROVE  WaitingHasAttemptsLeft'
  BY <1>1 DEF WaitingHasAttemptsLeft
<1>2. ASSUME NEW j \in Jobs, Approve(j) PROVE WaitingHasAttemptsLeft'
  BY <1>2 DEF Approve, WaitingHasAttemptsLeft, TableOK, FreshJobs
<1>3. ASSUME NEW j \in Jobs, RetryNow(j) PROVE WaitingHasAttemptsLeft'
  BY <1>3 DEF RetryNow, WaitingHasAttemptsLeft, TableOK
<1>4. ASSUME NEW w \in Workers, Retry(w) PROVE WaitingHasAttemptsLeft'
  <2>1. CASE Holds(w)
    <3>1. /\ job[w] \in Jobs /\ attempts[job[w]] = tries[w] /\ tries[w] \in Nat
          /\ ~(tries[w] >= MAX_ATTEMPTS)
      BY <1>4, <2>1 DEF Retry, Holds, UsedUp, JobBooks, HasRead, WorkerOK
    <3>2. attempts' = attempts /\ retried' = retried
          /\ \A j \in Jobs \ {job[w]} : state'[j] = state[j]
      BY <1>4, <2>1 DEF Retry, Release, TableOK
    <3> QED BY <3>1, <3>2 DEF WaitingHasAttemptsLeft
  <2>2. CASE ~Holds(w)
    BY <1>1, <1>4, <2>2 DEF Retry, Release
  <2> QED BY <2>1, <2>2
<1>5. ASSUME NEW w \in Workers, MarkFailed(w) \/ Complete(w)
      PROVE  WaitingHasAttemptsLeft'
  <2>1. retried' = retried /\ \A j \in Jobs : state'[j] = "pending" => state[j] = "pending" /\ attempts'[j] = attempts[j]
    BY <1>5 DEF MarkFailed, Complete, Release, TableOK
  <2> QED BY <1>1, <2>1
<1>6. ASSUME NEW w \in Workers, Claim(w) PROVE WaitingHasAttemptsLeft'
  <2>1. retried' = retried /\ \A j \in Jobs : state'[j] = "pending" => state[j] = "pending" /\ attempts'[j] = attempts[j]
    BY <1>6 DEF Claim, TableOK
  <2> QED BY <1>1, <2>1
<1>7. ASSUME NEW w \in Workers, ReadBack(w) \/ Copy(w) \/ CopyFails(w) \/ Emit(w) \/ EmitFails(w) \/ Check(w) \/ Crash(w)
      PROVE  UNCHANGED <<state, attempts, retried>>
  BY <1>7 DEF ReadBack, Copy, CopyFails, Emit, EmitFails, Check, Crash, Decide, table
<1>8. ASSUME (\E j \in Jobs : Deliver(j)) \/ Tick \/ UNCHANGED vars PROVE UNCHANGED <<state, attempts, retried>>
  BY <1>8 DEF Deliver, Tick, vars, table
<1>9. UNCHANGED <<state, attempts, retried>> => WaitingHasAttemptsLeft'
  BY <1>1
<1> QED BY <1>2, <1>3, <1>4, <1>5, <1>6, <1>7, <1>8, <1>9 DEF Next, Step

(* A job waits only with attempts left or at a manager's wish: an attempt  *)
(* is not lost when a worker dies, and a late worker does not add one.     *)
THEOREM WaitingTheorem == Spec => []WaitingHasAttemptsLeft
<1>1. Init => FreshJobs /\ WaitingHasAttemptsLeft
  BY DEF Init, FreshJobs, WaitingHasAttemptsLeft
<1>2. TableOK /\ FreshJobs /\ [Next]_vars => FreshJobs'
  BY FreshJobsStep
<1>3. TypeOK /\ TableOK /\ WorkerOK /\ JobBooks /\ FreshJobs /\ WaitingHasAttemptsLeft /\ [Next]_vars
        => WaitingHasAttemptsLeft'
  BY WaitingStep
<1> QED BY <1>1, <1>2, <1>3, PublicationTypes, PTL DEF Spec

-----------------------------------------------------------------------------
(* The claim.  While a worker reads its job back within the lease, what it *)
(* reads is its own claim.                                                 *)
Solo(w) ==
  /\ ~HasRead(w) => mine[w] = NoToken
  /\ HasRead(w) => mine[w] > 0 /\ mine[w] <= attempts[job[w]]
  /\ pc[w] = "claimed" => state[job[w]] = "running" /\ lease[job[w]] > 0

(* Two workers on one job: the later claim has the higher token.           *)
JobsApart(w, v) ==
  w # v /\ pc[w] # "idle" /\ pc[v] # "idle" /\ job[w] = job[v] =>
    /\ pc[w] = "claimed" => pc[v] # "claimed" /\ mine[v] < attempts[job[w]]
    /\ HasRead(w) /\ HasRead(v) => mine[w] # mine[v]

SettledJobs(w) == pc[w] # "idle" /\ state[job[w]] = "complete" => ~Holds(w)

ClaimInv ==
  /\ \A w \in Workers : Solo(w) /\ SettledJobs(w)
  /\ \A w, v \in Workers : JobsApart(w, v)

(* A worker's step that takes nothing from the table.                      *)
LEMMA ClaimFrame ==
  ASSUME ClaimInv, NEW w \in Workers, UNCHANGED <<state, attempts, token, lease>>,
         \A v \in Workers \ {w} : pc'[v] = pc[v] /\ job'[v] = job[v] /\ mine'[v] = mine[v],
         \/ HasRead(w) /\ HasRead(w)' /\ job'[w] = job[w] /\ mine'[w] = mine[w]
         \/ pc'[w] = "idle" /\ mine'[w] = NoToken
  PROVE  ClaimInv'
<1>1. \A v \in Workers : Solo(v)'
  BY DEF ClaimInv, Solo, HasRead
<1>2. \A v \in Workers : SettledJobs(v)'
  BY DEF ClaimInv, SettledJobs, Holds, HasRead
<1>3. \A u, v \in Workers : JobsApart(u, v)'
  BY DEF ClaimInv, JobsApart, HasRead
<1> QED BY <1>1, <1>2, <1>3 DEF ClaimInv

(* A worker that holds its claim is the only one the job has.              *)
LEMMA HolderIsAlone ==
  ASSUME TableOK, WorkerOK, JobBooks, ClaimInv, NEW w \in Workers, NEW v \in Workers, w # v,
         HasRead(w), Holds(w), pc[v] # "idle", job[v] = job[w]
  PROVE  pc[v] # "claimed" /\ ~Holds(v) /\ token[job[v]] # NoToken
<1>1. job[w] \in Jobs /\ token[job[w]] = mine[w] /\ mine[w] # NoToken /\ pc[w] # "idle"
  BY DEF Holds, JobBooks, HasRead
<1>2. token[job[w]] = attempts[job[w]] /\ attempts[job[w]] \in Nat
  BY <1>1 DEF JobBooks, TableOK
<1>3. pc[v] # "claimed"
  <2>1. pc[v] = "claimed" => mine[w] < attempts[job[v]]
    BY <1>1 DEF ClaimInv, JobsApart
  <2> QED BY <1>1, <1>2, <2>1
<1>4. mine[v] # mine[w]
  BY <1>1, <1>3 DEF ClaimInv, JobsApart, HasRead
<1> QED BY <1>1, <1>3, <1>4 DEF Holds

LEMMA ClaimStep ==
  ASSUME Prompt = TRUE, TableOK, WorkerOK, JobBooks, ClaimInv, [Next]_vars
  PROVE  ClaimInv'
<1>1. ASSUME NEW w \in Workers, Copy(w) \/ Emit(w) \/ CopyFails(w) \/ EmitFails(w) \/ Check(w) PROVE ClaimInv'
  <2>1. /\ UNCHANGED <<state, attempts, token, lease, job, mine>>
        /\ \A v \in Workers \ {w} : pc'[v] = pc[v]
        /\ HasRead(w) /\ HasRead(w)'
    BY <1>1 DEF Copy, Emit, CopyFails, EmitFails, Check, Decide, table, WorkerOK, HasRead
  <2> QED BY <2>1, ClaimFrame
<1>2. ASSUME NEW w \in Workers, Leave(w)
      PROVE  /\ \A v \in Workers \ {w} : pc'[v] = pc[v] /\ job'[v] = job[v] /\ mine'[v] = mine[v]
             /\ pc'[w] = "idle" /\ mine'[w] = NoToken
  BY <1>2 DEF Leave, WorkerOK
<1>3. ASSUME NEW w \in Workers, Leave(w), UNCHANGED <<state, attempts, token, lease>> PROVE ClaimInv'
  BY <1>2, <1>3, ClaimFrame
<1>4. ASSUME NEW w \in Workers, Leave(w), pc[w] = "write", Holds(w), attempts' = attempts,
             \A j \in Jobs \ {job[w]} : state'[j] = state[j] /\ token'[j] = token[j] /\ lease'[j] = lease[j],
             state'[job[w]] = "complete" => token' = token
      PROVE  ClaimInv'
  <2>1. HasRead(w) /\ job[w] \in Jobs
    BY <1>4 DEF HasRead, JobBooks
  <2>2. \A v \in Workers \ {w} : pc[v] # "idle" /\ job[v] = job[w] => pc[v] # "claimed" /\ ~Holds(v)
    BY <1>4, <2>1, HolderIsAlone
  <2>3. \A v \in Workers : Solo(v)'
    <3>1. Solo(w)'
      BY <1>2, <1>4 DEF Solo, HasRead
    <3>2. ASSUME NEW v \in Workers \ {w} PROVE Solo(v)'
      <4>1. pc'[v] = pc[v] /\ job'[v] = job[v] /\ mine'[v] = mine[v]
        BY <1>2, <1>4
      <4>2. pc[v] = "claimed" => job[v] \in Jobs \ {job[w]}
        BY <2>2 DEF JobBooks
      <4>3. pc[v] = "claimed" => state'[job[v]] = state[job[v]] /\ lease'[job[v]] = lease[job[v]]
        BY <1>4, <4>2
      <4> QED BY <1>4, <4>1, <4>3 DEF ClaimInv, Solo, HasRead
    <3> QED BY <3>1, <3>2
  <2>4. \A v \in Workers : SettledJobs(v)'
    <3>1. SettledJobs(w)'
      BY <1>2, <1>4 DEF SettledJobs
    <3>2. ASSUME NEW v \in Workers \ {w}, pc[v] # "idle" PROVE SettledJobs(v)'
      <4>1. pc'[v] = pc[v] /\ job'[v] = job[v] /\ mine'[v] = mine[v] /\ job[v] \in Jobs
        BY <1>2, <1>4, <3>2 DEF JobBooks
      <4>2. CASE job[v] = job[w]
        BY <1>4, <2>2, <3>2, <4>1, <4>2 DEF SettledJobs, Holds
      <4>3. CASE job[v] # job[w]
        BY <1>4, <4>1, <4>3 DEF ClaimInv, SettledJobs, Holds
      <4> QED BY <4>2, <4>3
    <3>3. ASSUME NEW v \in Workers \ {w}, pc[v] = "idle" PROVE SettledJobs(v)'
      BY <1>2, <1>4, <3>3 DEF SettledJobs
    <3> QED BY <3>1, <3>2, <3>3
  <2>5. \A u, v \in Workers : JobsApart(u, v)'
    BY <1>2, <1>4 DEF ClaimInv, JobsApart, HasRead
  <2> QED BY <2>3, <2>4, <2>5 DEF ClaimInv
<1>5. ASSUME NEW w \in Workers, Complete(w) PROVE ClaimInv'
  <2>1. CASE Holds(w)
    <3>1. \A j \in Jobs \ {job[w]} : state'[j] = state[j]
      BY <1>5, <2>1 DEF Complete, TableOK
    <3> QED BY <1>4, <1>5, <2>1, <3>1 DEF Complete
  <2>2. CASE ~Holds(w)
    BY <1>3, <1>5, <2>2 DEF Complete
  <2> QED BY <2>1, <2>2
<1>6. ASSUME NEW w \in Workers, pc[w] = "write", NEW s \in {"pending", "failed"}, NEW t, Release(w, s, t) PROVE ClaimInv'
  <2>1. CASE Holds(w)
    <3>1. job[w] \in Jobs
      BY <1>6 DEF JobBooks
    <3>2. /\ \A j \in Jobs \ {job[w]} : state'[j] = state[j] /\ token'[j] = token[j] /\ lease'[j] = lease[j]
          /\ state'[job[w]] = s
      BY <1>6, <2>1, <3>1 DEF Release, TableOK
    <3> QED BY <1>4, <1>6, <2>1, <3>2 DEF Release
  <2>2. CASE ~Holds(w)
    BY <1>3, <1>6, <2>2 DEF Release
  <2> QED BY <2>1, <2>2
<1>7. ASSUME NEW w \in Workers, Retry(w) \/ MarkFailed(w) PROVE ClaimInv'
  BY <1>6, <1>7 DEF Retry, MarkFailed
<1>8. ASSUME NEW w \in Workers, Crash(w) PROVE ClaimInv'
  BY <1>3, <1>8 DEF Crash, table
<1>9. ASSUME NEW w \in Workers, Claim(w) PROVE ClaimInv'
  <2>1. PICK j \in Jobs : /\ Due(j)
                          /\ state'    = [state EXCEPT ![j] = "running"]
                          /\ attempts' = [attempts EXCEPT ![j] = @ + 1]
                          /\ lease'    = [lease EXCEPT ![j] = LEASE]
                          /\ token'    = [token EXCEPT ![j] = attempts[j] + 1]
                          /\ job'      = [job EXCEPT ![w] = j]
    BY <1>9 DEF Claim, Queue, FreshToken
  <2>2. /\ pc'[w] = "claimed" /\ job'[w] = j /\ mine' = mine /\ pc[w] = "idle"
        /\ \A v \in Workers \ {w} : pc'[v] = pc[v] /\ job'[v] = job[v]
    BY <1>9, <2>1 DEF Claim, WorkerOK
  <2>3. /\ attempts'[j] = attempts[j] + 1 /\ state'[j] = "running" /\ lease'[j] > 0
        /\ attempts[j] \in Nat
    BY <2>1, PublicationAssumption DEF TableOK
  <2>4. /\ \A k \in Jobs \ {j} : /\ state'[k] = state[k] /\ attempts'[k] = attempts[k]
                                 /\ lease'[k] = lease[k] /\ token'[k] = token[k]
    BY <2>1 DEF TableOK
  <2>5. ASSUME NEW v \in Workers \ {w}, pc[v] # "idle" PROVE job[v] \in Jobs /\ (pc[v] = "claimed" => job[v] # j)
    <3>1. pc[v] = "claimed" => state[job[v]] = "running" /\ lease[job[v]] > 0
      BY DEF ClaimInv, Solo
    <3>2. job[v] \in Jobs
      BY <2>5 DEF JobBooks
    <3> QED BY <2>1, <3>1, <3>2 DEF Due, TableOK
  <2>6. ASSUME NEW v \in Workers, HasRead(v) PROVE v # w /\ job[v] \in Jobs /\ mine[v] \in Nat /\ mine[v] <= attempts[job[v]]
    BY <2>2, <2>5, <2>6 DEF HasRead, ClaimInv, Solo, WorkerOK
  <2>7. \A v \in Workers : Solo(v)'
    <3>1. Solo(w)'
      BY <2>2, <2>3 DEF ClaimInv, Solo, HasRead
    <3>2. ASSUME NEW v \in Workers \ {w} PROVE Solo(v)'
      <4>1. pc'[v] = pc[v] /\ job'[v] = job[v] /\ mine'[v] = mine[v]
        BY <2>2
      <4>2. CASE pc[v] = "claimed"
        BY <2>4, <2>5, <4>1, <4>2 DEF ClaimInv, Solo, HasRead
      <4>3. CASE HasRead(v)
        <5>1. mine[v] <= attempts'[job[v]]
          <6>1. CASE job[v] = j
            BY <2>3, <2>6, <4>3, <6>1
          <6>2. CASE job[v] # j
            BY <2>4, <2>6, <4>3, <6>2
          <6> QED BY <6>1, <6>2
        <5> QED BY <4>1, <4>3, <5>1 DEF ClaimInv, Solo, HasRead
      <4>4. CASE pc[v] = "idle"
        BY <4>1, <4>4 DEF ClaimInv, Solo, HasRead
      <4> QED BY <4>2, <4>3, <4>4 DEF HasRead
    <3> QED BY <3>1, <3>2
  <2>8. \A v \in Workers : SettledJobs(v)'
    <3>1. SettledJobs(w)'
      BY <2>2, <2>3 DEF SettledJobs
    <3>2. ASSUME NEW v \in Workers \ {w}, pc[v] # "idle" PROVE SettledJobs(v)'
      <4>1. pc'[v] = pc[v] /\ job'[v] = job[v] /\ mine'[v] = mine[v] /\ job[v] \in Jobs
        BY <2>2, <2>5, <3>2
      <4>2. CASE job[v] = j
        BY <2>3, <4>1, <4>2 DEF SettledJobs
      <4>3. CASE job[v] # j
        BY <2>4, <4>1, <4>3 DEF ClaimInv, SettledJobs, Holds
      <4> QED BY <4>2, <4>3
    <3>3. ASSUME NEW v \in Workers \ {w}, pc[v] = "idle" PROVE SettledJobs(v)'
      BY <2>2, <3>3 DEF SettledJobs
    <3> QED BY <3>1, <3>2, <3>3
  <2>9. ASSUME NEW u \in Workers, NEW v \in Workers PROVE JobsApart(u, v)'
    <3>1. CASE u = w /\ v # w
      <4>1. ASSUME pc[v] # "idle", job[v] = j PROVE pc[v] # "claimed" /\ mine[v] < attempts'[j]
        <5>1. pc[v] # "claimed" /\ HasRead(v)
          BY <2>5, <3>1, <4>1 DEF HasRead
        <5> QED BY <2>3, <2>6, <4>1, <5>1
      <4> QED BY <2>2, <3>1, <4>1 DEF JobsApart, HasRead
    <3>2. CASE u # w /\ v = w
      <4>1. pc[u] = "claimed" => job[u] # j
        BY <2>5, <3>2
      <4> QED BY <2>2, <3>2, <4>1 DEF JobsApart, HasRead
    <3>3. CASE u # w /\ v # w
      <4>1. pc'[u] = pc[u] /\ pc'[v] = pc[v] /\ job'[u] = job[u] /\ job'[v] = job[v]
        BY <2>2, <3>3
      <4>2. pc[u] = "claimed" => attempts'[job[u]] = attempts[job[u]]
        BY <2>4, <2>5, <3>3
      <4> QED BY <2>2, <4>1, <4>2 DEF ClaimInv, JobsApart, HasRead
    <3>4. CASE u = v
      BY <3>4 DEF JobsApart
    <3> QED BY <3>1, <3>2, <3>3, <3>4
  <2> QED BY <2>7, <2>8, <2>9 DEF ClaimInv
<1>10. ASSUME NEW w \in Workers, ReadBack(w) PROVE ClaimInv'
  <2>1. /\ pc[w] = "claimed" /\ job[w] \in Jobs /\ state[job[w]] = "running"
        /\ token[job[w]] = attempts[job[w]] /\ attempts[job[w]] > 0
    BY <1>10 DEF ReadBack, JobBooks, ClaimInv, Solo
  <2>2. /\ pc'[w] = "copy" /\ mine'[w] = attempts[job[w]] /\ job' = job
        /\ \A v \in Workers \ {w} : pc'[v] = pc[v] /\ mine'[v] = mine[v]
        /\ UNCHANGED <<state, attempts, token, lease>>
    BY <1>10, <2>1 DEF ReadBack, WorkerOK, table
  <2>3. attempts[job[w]] \in Nat
    BY <2>1 DEF TableOK
  <2>4. \A v \in Workers : Solo(v)'
    BY <2>1, <2>2, <2>3 DEF ClaimInv, Solo, HasRead
  <2>5. \A v \in Workers : SettledJobs(v)'
    <3>1. SettledJobs(w)'
      BY <2>1, <2>2 DEF SettledJobs
    <3>2. \A v \in Workers \ {w} : SettledJobs(v)'
      BY <2>2 DEF ClaimInv, SettledJobs, Holds
    <3> QED BY <3>1, <3>2
  <2>6. ASSUME NEW v \in Workers \ {w}, pc[v] # "idle", job[v] = job[w]
        PROVE  pc[v] # "claimed" /\ mine[v] # attempts[job[w]]
    <3>1. pc[v] # "claimed" /\ mine[v] < attempts[job[w]] /\ mine[v] \in Nat
      BY <2>1, <2>6 DEF ClaimInv, JobsApart, WorkerOK
    <3> QED BY <2>3, <3>1
  <2>7. ASSUME NEW u \in Workers, NEW v \in Workers PROVE JobsApart(u, v)'
    <3>1. CASE u = w /\ v # w
      BY <2>2, <2>6, <3>1 DEF JobsApart, HasRead
    <3>2. CASE u # w /\ v = w
      BY <2>2, <2>6, <3>2 DEF JobsApart, HasRead
    <3>3. CASE u # w /\ v # w
      BY <2>2, <3>3 DEF ClaimInv, JobsApart, HasRead
    <3>4. CASE u = v
      BY <3>4 DEF JobsApart
    <3> QED BY <3>1, <3>2, <3>3, <3>4
  <2> QED BY <2>4, <2>5, <2>7 DEF ClaimInv
<1>11. ASSUME UNCHANGED <<pc, job, mine, attempts>>,
              \A v \in Workers : pc[v] = "claimed" => state'[job[v]] = "running" /\ lease'[job[v]] > 0,
              \A j \in Jobs : state'[j] = "complete" => state[j] = "complete" /\ token'[j] = token[j]
       PROVE  ClaimInv'
  <2>1. \A v \in Workers : Solo(v)'
    BY <1>11 DEF ClaimInv, Solo, HasRead
  <2>2. \A v \in Workers : SettledJobs(v)'
    BY <1>11 DEF ClaimInv, SettledJobs, Holds, JobBooks
  <2>3. \A u, v \in Workers : JobsApart(u, v)'
    BY <1>11 DEF ClaimInv, JobsApart, HasRead
  <2> QED BY <2>1, <2>2, <2>3 DEF ClaimInv
<1>12. \A v \in Workers : pc[v] = "claimed" => job[v] \in Jobs /\ state[job[v]] = "running" /\ lease[job[v]] > 0
  BY DEF ClaimInv, Solo, JobBooks
<1>13. ASSUME NEW j \in Jobs, Approve(j) \/ RetryNow(j) PROVE ClaimInv'
  <2>1. /\ state[j] # "running" /\ state[j] # "complete"
        /\ state'[j] = "pending"
        /\ \A k \in Jobs \ {j} : state'[k] = state[k] /\ token'[k] = token[k] /\ lease'[k] = lease[k]
    BY <1>13 DEF Approve, RetryNow, TableOK
  <2>2. UNCHANGED <<pc, job, mine, attempts>>
    BY <1>13 DEF Approve, RetryNow, worker
  <2>3. \A v \in Workers : pc[v] = "claimed" => state'[job[v]] = "running" /\ lease'[job[v]] > 0
    BY <1>12, <2>1
  <2>4. \A k \in Jobs : state'[k] = "complete" => state[k] = "complete" /\ token'[k] = token[k]
    BY <2>1
  <2> QED BY <1>11, <2>2, <2>3, <2>4
<1>14. CASE Tick
  <2>1. \A v \in Workers : pc[v] = "claimed" => lease[job[v]] # 1
    BY <1>14 DEF Tick
  <2>2. \A n \in Nat : n > 0 /\ n # 1 => Elapse(n) > 0
    BY DEF Elapse
  <2>3. \A v \in Workers : pc[v] = "claimed" => lease'[job[v]] > 0
    BY <1>12, <1>14, <2>1, <2>2 DEF Tick, TableOK
  <2>4. UNCHANGED <<pc, job, mine, attempts, state, token>>
    BY <1>14 DEF Tick, worker
  <2> QED BY <1>11, <1>12, <2>3, <2>4
<1>15. CASE (\E j \in Jobs : Deliver(j)) \/ UNCHANGED vars
  BY <1>11, <1>12, <1>15 DEF Deliver, vars, table, worker
<1> QED
  BY <1>1, <1>5, <1>7, <1>8, <1>9, <1>10, <1>13, <1>14, <1>15 DEF Next, Step

LEMMA ClaimInvariant ==
  ASSUME Prompt = TRUE PROVE Spec => []ClaimInv
<1>1. Init => ClaimInv
  BY DEF Init, ClaimInv, Solo, SettledJobs, JobsApart, HasRead
<1>2. TableOK /\ WorkerOK /\ JobBooks /\ ClaimInv /\ [Next]_vars => ClaimInv'
  BY ClaimStep
<1> QED BY <1>1, <1>2, PublicationTypes, PTL DEF Spec

(* One worker acts on a claim, when none reads its job back after its lease*)
(* has ended.                                                              *)
THEOREM HolderTheorem ==
  ASSUME Prompt = TRUE PROVE Spec => []OneHolder
<1>1. WorkerOK /\ JobBooks /\ ClaimInv => OneHolder
  <2> SUFFICES ASSUME WorkerOK, JobBooks, ClaimInv, NEW w \in Workers, NEW v \in Workers, w # v,
                      pc[w] # "idle", pc[v] # "idle", job[w] = job[v], Holds(w), Holds(v)
               PROVE  FALSE
    BY DEF OneHolder
  <2>1. HasRead(w) /\ HasRead(v)
    BY DEF ClaimInv, Solo, Holds, HasRead
  <2> QED BY <2>1 DEF ClaimInv, JobsApart, Holds
<1> QED BY <1>1, ClaimInvariant, PublicationTypes, PTL

(* Then nothing undoes a completion: a worker whose lease was taken over   *)
(* finds that its token is not the job's.                                  *)
THEOREM CompletionTheorem ==
  ASSUME Prompt = TRUE PROVE Spec => CompleteIsFinal
<1>1. TableOK /\ JobBooks /\ ClaimInv /\ [Next]_vars
        => [\A j \in Jobs : state[j] = "complete" => state'[j] = "complete"]_vars
  <2> SUFFICES ASSUME TableOK, JobBooks, ClaimInv, Next
               PROVE  \A j \in Jobs : state[j] = "complete" => state'[j] = "complete"
    OBVIOUS
  <2>1. ASSUME NEW w \in Workers, pc[w] = "write", NEW s, NEW t, Release(w, s, t)
        PROVE  \A j \in Jobs : state[j] = "complete" => state'[j] = "complete"
    <3>1. job[w] \in Jobs /\ (state[job[w]] = "complete" => ~Holds(w))
      BY <2>1 DEF JobBooks, ClaimInv, SettledJobs
    <3> QED BY <2>1, <3>1 DEF Release, TableOK
  <2>2. ASSUME NEW w \in Workers, Claim(w) \/ Complete(w)
        PROVE  \A j \in Jobs : state[j] = "complete" => state'[j] = "complete"
    BY <2>2 DEF Claim, Queue, Due, Complete, TableOK
  <2>3. ASSUME NEW j \in Jobs, Approve(j) \/ RetryNow(j)
        PROVE  \A k \in Jobs : state[k] = "complete" => state'[k] = "complete"
    BY <2>3 DEF Approve, RetryNow, TableOK
  <2>4. ASSUME NEW w \in Workers, ReadBack(w) \/ Copy(w) \/ CopyFails(w) \/ Emit(w) \/ EmitFails(w) \/ Check(w) \/ Crash(w)
        PROVE  state' = state
    BY <2>4 DEF ReadBack, Copy, CopyFails, Emit, EmitFails, Check, Crash, Decide, table
  <2>5. (\E j \in Jobs : Deliver(j)) \/ Tick => state' = state
    BY DEF Deliver, Tick, table
  <2> QED BY <2>1, <2>2, <2>3, <2>4, <2>5 DEF Next, Step, Retry, MarkFailed
<1> QED BY <1>1, ClaimInvariant, PublicationTypes, PTL DEF Spec, CompleteIsFinal

-----------------------------------------------------------------------------
(***************************************************************************)
(* The workflow of a document.                                             *)
(***************************************************************************)

Bases    == PVersions \cup {NoVersion}
DraftRow == [st : {"absent", "editing", "ready", "committed", "discarded", "expired"},
             lock : Nat, text : Nat, built : Nat, first : BOOLEAN, base : Bases, num : Nat]
VersionRow == [st : {"absent", "draft", "pending", "approved", "rejected", "withdrawn"},
               draft : PDrafts \cup {NoId}, base : Bases, num : Nat, text : Nat, built : Nat]
ApprovalRow == [st : {"absent", "pending", "approved", "rejected", "withdrawn"}, version : Bases]
PCallRec == [op : {"none", "save", "build", "confirm", "submit"}, id : PDrafts \cup PVersions \cup {NoId},
            lock : Nat, text : Nat, built : Nat, st : {"none", "draft", "withdrawn"}, current : Bases]

DraftsOK    == pdraft \in [PDrafts -> DraftRow]
VersionsOK  == pver \in [PVersions -> VersionRow]
DocOK       == pdoc \in [current : Bases, num : Nat] /\ published \subseteq PVersions
ApprovalsOK == appr \in [Approvals -> ApprovalRow]
PCallsOK     == pcall \in [Calls -> PCallRec]
PTyped == DraftsOK /\ VersionsOK /\ DocOK /\ ApprovalsOK /\ PCallsOK

(* A draft is ready when what was rendered is its text.                    *)
ReadyIsBuilt == \A d \in PDrafts : pdraft[d].st = "ready" => pdraft[d].text = pdraft[d].built

(* A call that has read a draft is not ahead of it, and knows its text as  *)
(* long as the lock version is the same.                                   *)
PReaderOK(c) ==
  LET d == pcall[c].id IN
  pcall[c].op \in {"save", "build", "confirm"} =>
    /\ d \in PDrafts /\ pdraft[d].st # "absent" /\ pcall[c].lock <= pdraft[d].lock
    /\ pcall[c].lock = pdraft[d].lock => pcall[c].text = pdraft[d].text
    /\ pcall[c].op = "confirm" => pcall[c].text = pcall[c].built

(* A call that has read a version knows one that exists, and what it was   *)
(* based on.                                                               *)
SubmitterOK(c) ==
  LET v == pcall[c].id IN
  pcall[c].op = "submit" =>
    /\ v \in PVersions /\ pver[v].st # "absent"
    /\ pcall[c].st \in {"draft", "withdrawn"}
    /\ pcall[c].st = "withdrawn" => pcall[c].current \in {v, pver[v].base}
CallersOK == \A c \in Calls : PReaderOK(c) /\ SubmitterOK(c)

Submissions == \A a \in Approvals :
  appr[a].st # "absent" => appr[a].version \in PVersions /\ pver[appr[a].version].st # "absent"

(* Of a document there is one candidate, and it is of what is current.     *)
DocBooks ==
  /\ pdoc.current = NoVersion => \A v \in PVersions : pver[v].st = "absent"
  /\ \A v, w \in Candidates : v = w
  /\ \A v \in Candidates : pdoc.current \in {v, pver[v].base}

PBooks == PTyped /\ ReadyIsBuilt /\ CallersOK /\ VersionIsWhatWasBuilt /\ OneSubmission /\ Submissions
PolicyInv == PBooks /\ (Quick => DocBooks)

-----------------------------------------------------------------------------
(* What the steps do to a draft.                                           *)

DraftMoves(d) ==
  /\ pdraft' = [pdraft EXCEPT ![d] = pdraft'[d]] /\ pdraft'[d] \in DraftRow
  /\ pdraft'[d].st # "absent" /\ (pdraft'[d].st = "ready" => pdraft'[d].text = pdraft'[d].built)
  /\ \/ pdraft[d].st = "absent"
     \/ pdraft'[d].lock = pdraft[d].lock + 1
     \/ pdraft'[d].lock = pdraft[d].lock /\ pdraft'[d].text = pdraft[d].text

LEMMA FreshIs ==
  ASSUME PTyped, NEW d \in PDrafts, pdraft[d].st = "absent",
         NEW first \in BOOLEAN, NEW base \in Bases, NEW num \in Nat,
         pdraft' = [pdraft EXCEPT ![d] = Fresh(first, base, num)]
  PROVE  DraftMoves(d)
<1>1. Fresh(first, base, num) = [st |-> "editing", lock |-> 1, text |-> 1, built |-> NoText,
                                 first |-> first, base |-> base, num |-> num]
  BY DEF Fresh
<1>2. Fresh(first, base, num) \in DraftRow
  BY <1>1 DEF DraftRow, NoText
<1>3. pdraft'[d] = Fresh(first, base, num)
  BY DEF PTyped, DraftsOK
<1>4. pdraft'[d].st = "editing"
  BY <1>1, <1>3
<1>5. pdraft' = [pdraft EXCEPT ![d] = pdraft'[d]]
  BY <1>3
<1> QED BY <1>2, <1>3, <1>4, <1>5 DEF DraftMoves

(* A draft's row with some of its columns set.                             *)
RowOf(d, to, lock, text, built) ==
  [st |-> to, lock |-> lock, text |-> text, built |-> built,
   first |-> pdraft[d].first, base |-> pdraft[d].base, num |-> pdraft[d].num]

LEMMA RowMoves ==
  ASSUME PTyped, NEW d \in PDrafts,
         NEW to \in {"editing", "ready", "committed", "discarded", "expired"},
         NEW lock \in Nat, NEW text \in Nat, NEW built \in Nat,
         to = "ready" => text = built,
         lock = pdraft[d].lock + 1 \/ (lock = pdraft[d].lock /\ text = pdraft[d].text),
         pdraft' = [pdraft EXCEPT ![d] = RowOf(d, to, lock, text, built)]
  PROVE  DraftMoves(d)
<1>1. pdraft[d] \in DraftRow
  BY DEF PTyped, DraftsOK
<1>2. pdraft'[d] = [st |-> to, lock |-> lock, text |-> text, built |-> built,
                    first |-> pdraft[d].first, base |-> pdraft[d].base, num |-> pdraft[d].num]
  BY DEF PTyped, DraftsOK, RowOf
<1>3. pdraft'[d] \in DraftRow
  BY <1>1, <1>2 DEF DraftRow
<1>4. pdraft' = [pdraft EXCEPT ![d] = pdraft'[d]]
  BY DEF PTyped, DraftsOK
<1>5. pdraft'[d].st = to /\ pdraft'[d].lock = lock /\ pdraft'[d].text = text /\ pdraft'[d].built = built
  BY <1>2
<1> QED BY <1>3, <1>4, <1>5 DEF DraftMoves

LEMMA CreationIs ==
  ASSUME PTyped, Generate \/ StartRevision \/ \E s \in PDrafts : Recover(s)
  PROVE  \E d \in PDrafts : DraftMoves(d)
<1>1. CASE Generate
  <2>1. PICK d \in PDrafts : pdraft[d].st = "absent"
                             /\ pdraft' = [pdraft EXCEPT ![d] = Fresh(TRUE, NoVersion, FirstNumber)]
    BY <1>1 DEF Generate, OldestFree
  <2>2. NoVersion \in Bases /\ FirstNumber \in Nat
    BY DEF Bases, FirstNumber
  <2> QED BY <2>1, <2>2, FreshIs
<1>2. CASE StartRevision
  <2>1. PICK d \in PDrafts : pdraft[d].st = "absent"
                             /\ pdraft' = [pdraft EXCEPT ![d] = Fresh(FALSE, pdoc.current, pdoc.num + 1)]
    BY <1>2 DEF StartRevision, OldestFree
  <2>2. pdoc.current \in Bases /\ pdoc.num + 1 \in Nat
    BY DEF PTyped, DocOK
  <2> QED BY <2>1, <2>2, FreshIs
<1>3. ASSUME NEW s \in PDrafts, Recover(s) PROVE \E d \in PDrafts : DraftMoves(d)
  <2>1. PICK d \in PDrafts : pdraft[d].st = "absent"
                             /\ pdraft' = [pdraft EXCEPT ![d] =
                                             Fresh(pdraft[s].first, pdraft[s].base, pdraft[s].num)]
    BY <1>3 DEF Recover, OldestFree
  <2>2. pdraft[s].first \in BOOLEAN /\ pdraft[s].base \in Bases /\ pdraft[s].num \in Nat
    BY DEF PTyped, DraftsOK, DraftRow
  <2> QED BY <2>1, <2>2, FreshIs
<1> QED BY <1>1, <1>2, <1>3

LEMMA ClosingIs ==
  ASSUME PTyped, NEW d \in PDrafts, DiscardDraft(d) \/ ExpireDraft(d)
  PROVE  DraftMoves(d)
<1>1. pdraft[d].lock \in Nat /\ pdraft[d].text \in Nat /\ pdraft[d].built \in Nat /\ pdraft[d].lock + 1 \in Nat
  BY DEF PTyped, DraftsOK, DraftRow
<1>2. CASE DiscardDraft(d)
  <2>1. pdraft' = [pdraft EXCEPT ![d] =
                    RowOf(d, "discarded", pdraft[d].lock + 1, pdraft[d].text, pdraft[d].built)]
    BY <1>2 DEF DiscardDraft, PTyped, DraftsOK, DraftRow, RowOf
  <2> QED BY <1>1, <2>1, RowMoves
<1>3. CASE ExpireDraft(d)
  <2>1. pdraft' = [pdraft EXCEPT ![d] = RowOf(d, "expired", pdraft[d].lock, pdraft[d].text, NoText)]
    <3>1. pdraft' = [pdraft EXCEPT ![d].st = "expired", ![d].built = NoText]
      BY <1>3 DEF ExpireDraft
    <3>2. pdraft[d] \in DraftRow
      BY DEF PTyped, DraftsOK
    <3>3. pdraft'[d] = RowOf(d, "expired", pdraft[d].lock, pdraft[d].text, NoText)
      BY <3>1, <3>2 DEF PTyped, DraftsOK, DraftRow, RowOf
    <3>4. pdraft' = [pdraft EXCEPT ![d] = pdraft'[d]]
      BY <3>1 DEF PTyped, DraftsOK
    <3> QED BY <3>3, <3>4
  <2>2. NoText \in Nat
    BY DEF NoText
  <2> QED BY <1>1, <2>1, <2>2, RowMoves
<1> QED BY <1>2, <1>3

LEMMA EditIs ==
  ASSUME PTyped, NEW c \in Calls, PReaderOK(c), SaveDraft(c) \/ Build(c)
  PROVE  pcall[c].id \in PDrafts /\ DraftMoves(pcall[c].id)
<1> DEFINE d == pcall[c].id
<1>1. d \in PDrafts /\ pdraft[d].lock = pcall[c].lock /\ pcall[c].text = pdraft[d].text
  BY DEF SaveDraft, Build, SameDraft, PReaderOK
<1>2. pdraft[d].lock \in Nat /\ pdraft[d].text \in Nat /\ pdraft[d].built \in Nat /\ pdraft[d].lock + 1 \in Nat
  BY <1>1 DEF PTyped, DraftsOK, DraftRow
<1>3. CASE SaveDraft(c)
  <2>1. pdraft' = [pdraft EXCEPT ![d] =
                    RowOf(d, "editing", pdraft[d].lock + 1, pdraft[d].lock + 1, NoText)]
    <3>1. pdraft \in [PDrafts -> DraftRow] /\ d \in PDrafts
      BY <1>1 DEF PTyped, DraftsOK
    <3>2. pdraft' = [pdraft EXCEPT ![d].st = "editing", ![d].lock = @ + 1,
                                  ![d].text = pdraft[d].lock + 1, ![d].built = NoText]
      BY <1>3 DEF SaveDraft
    <3> QED BY <3>1, <3>2, SMTT(60) DEF DraftRow, RowOf
  <2>2. NoText \in Nat
    BY DEF NoText
  <2> QED BY <1>1, <1>2, <2>1, <2>2, RowMoves
<1>4. CASE Build(c)
  <2>1. pdraft' = [pdraft EXCEPT ![d] =
                    RowOf(d, "ready", pdraft[d].lock + 1, pdraft[d].text, pdraft[d].text)]
    BY <1>1, <1>4 DEF Build, PTyped, DraftsOK, DraftRow, RowOf
  <2> QED BY <1>1, <1>2, <2>1, RowMoves
<1> QED BY <1>3, <1>4

(* A confirmation: its version, and what it does to draft and document.    *)
VersionMoves(v) == pver' = [pver EXCEPT ![v] = pver'[v]] /\ pver'[v] \in VersionRow

LEMMA ConfirmIs ==
  ASSUME PTyped, NEW c \in Calls, PReaderOK(c), Confirm(c)
  PROVE  LET d == pcall[c].id IN
         /\ d \in PDrafts /\ (pdraft' = pdraft \/ DraftMoves(d)) /\ Timely(d)
         /\ \E v \in PVersions :
              /\ pver[v].st = "absent" /\ VersionMoves(v) /\ pver'[v].st = "draft"
              /\ pver'[v].text = pver'[v].built /\ pver'[v].base = pdraft[d].base
              /\ pdoc' = IF pdoc.current = NoVersion THEN [current |-> v, num |-> pdraft[d].num] ELSE pdoc
         /\ pcall' = [pcall EXCEPT ![c] = NoCall] /\ UNCHANGED <<appr, published>>
<1> DEFINE d == pcall[c].id
<1>1. d \in PDrafts /\ pcall[c].text = pcall[c].built /\ pcall[c].text \in Nat
  BY DEF Confirm, PReaderOK, PTyped, PCallsOK, PCallRec
<1>2. PICK v \in PVersions :
        /\ pver[v].st = "absent"
        /\ pver' = [pver EXCEPT ![v] = [st |-> "draft", draft |-> d, base |-> pdraft[d].base,
                                        num |-> pdraft[d].num, text |-> pcall[c].text, built |-> pcall[c].built]]
        /\ pdoc' = IF pdoc.current = NoVersion THEN [current |-> v, num |-> pdraft[d].num] ELSE pdoc
  BY DEF Confirm, OldestFree
<1>3. pver'[v] = [st |-> "draft", draft |-> d, base |-> pdraft[d].base,
                  num |-> pdraft[d].num, text |-> pcall[c].text, built |-> pcall[c].text]
  BY <1>1, <1>2 DEF PTyped, VersionsOK
<1>4. pdraft[d].base \in Bases /\ pdraft[d].num \in Nat /\ pdraft[d].lock \in Nat /\ pdraft[d].lock + 1 \in Nat
      /\ pdraft[d].text \in Nat /\ pdraft[d].built \in Nat
  BY <1>1 DEF PTyped, DraftsOK, DraftRow
<1>5. VersionMoves(v)
  <2>1. pver'[v] \in VersionRow
    BY <1>1, <1>3, <1>4 DEF VersionRow
  <2>2. pver' = [pver EXCEPT ![v] = pver'[v]]
    BY <1>2 DEF PTyped, VersionsOK
  <2> QED BY <2>1, <2>2 DEF VersionMoves
<1>6. pver'[v].st = "draft" /\ pver'[v].text = pver'[v].built /\ pver'[v].base = pdraft[d].base
  BY <1>3
<1>7. pdraft' = pdraft \/ DraftMoves(d)
  <2>1. CASE pdraft[d].lock = pcall[c].lock
    <3>1. pdraft' = [pdraft EXCEPT ![d] =
                      RowOf(d, "committed", pdraft[d].lock + 1, pdraft[d].text, pdraft[d].built)]
      BY <1>1, <2>1 DEF Confirm, PTyped, DraftsOK, DraftRow, RowOf
    <3> QED BY <1>1, <1>4, <3>1, RowMoves
  <2>2. CASE pdraft[d].lock # pcall[c].lock
    BY <2>2 DEF Confirm
  <2> QED BY <2>1, <2>2
<1> QED BY <1>1, <1>2, <1>5, <1>6, <1>7 DEF Confirm

(* A version gets another state.                                           *)
LEMMA StateIs ==
  ASSUME PTyped, NEW v \in PVersions, NEW to \in {"pending", "approved", "rejected", "withdrawn"},
         pver' = [pver EXCEPT ![v].st = to]
  PROVE  /\ VersionMoves(v) /\ pver'[v].st = to /\ pver'[v].base = pver[v].base
         /\ pver'[v].text = pver[v].text /\ pver'[v].built = pver[v].built
<1>1. pver[v] \in VersionRow
  BY DEF PTyped, VersionsOK
<1>2. /\ pver'[v] \in VersionRow /\ pver'[v].st = to /\ pver'[v].base = pver[v].base
      /\ pver'[v].text = pver[v].text /\ pver'[v].built = pver[v].built
  BY <1>1 DEF PTyped, VersionsOK, VersionRow
<1>3. pver' = [pver EXCEPT ![v] = pver'[v]]
  BY DEF PTyped, VersionsOK
<1> QED BY <1>2, <1>3 DEF VersionMoves

LEMMA SubmitIs ==
  ASSUME PTyped, NEW c \in Calls, SubmitterOK(c), Submit(c)
  PROVE  LET v == pcall[c].id IN
         /\ v \in PVersions /\ pver[v].st # "absent" /\ NonePending /\ Candidates \subseteq {v}
         /\ VersionMoves(v) /\ pver'[v].st = "pending" /\ pver'[v].base = pver[v].base
         /\ pver'[v].text = pver[v].text /\ pver'[v].built = pver[v].built
         /\ \E a \in Approvals : /\ appr' = [appr EXCEPT ![a] = appr'[a]] /\ appr'[a] \in ApprovalRow
                                 /\ appr'[a].st = "pending" /\ appr'[a].version = v
         /\ pcall' = [pcall EXCEPT ![c] = NoCall] /\ UNCHANGED <<pdraft, pdoc, published>>
<1> DEFINE v == pcall[c].id
<1>1. v \in PVersions /\ pver[v].st # "absent" /\ pver' = [pver EXCEPT ![v].st = "pending"]
  BY DEF Submit, SubmitterOK
<1>2. PICK a \in Approvals : appr' = [appr EXCEPT ![a] = [st |-> "pending", version |-> v]]
  BY DEF Submit, OldestFree
<1>3. appr'[a] = [st |-> "pending", version |-> v]
  BY <1>2 DEF PTyped, ApprovalsOK
<1>4. appr'[a] \in ApprovalRow /\ appr'[a].st = "pending" /\ appr'[a].version = v
  BY <1>1, <1>3 DEF ApprovalRow, Bases
<1>5. appr' = [appr EXCEPT ![a] = appr'[a]]
  BY <1>2, <1>3
<1> QED BY <1>1, <1>4, <1>5, StateIs DEF Submit

LEMMA ConcludeIs ==
  ASSUME PTyped, Submissions, NEW a \in Approvals, ApproveVersion(a) \/ Reject(a) \/ Withdraw(a)
  PROVE  LET v == appr[a].version IN
         /\ appr[a].st = "pending" /\ v \in PVersions
         /\ appr' = [appr EXCEPT ![a] = appr'[a]] /\ appr'[a] \in ApprovalRow
         /\ appr'[a].st \in {"approved", "rejected", "withdrawn"} /\ appr'[a].version = v
         /\ VersionMoves(v) /\ pver'[v].st = appr'[a].st /\ pver'[v].base = pver[v].base
         /\ pver'[v].text = pver[v].text /\ pver'[v].built = pver[v].built
         /\ \/ pdoc' = pdoc /\ published' = published
            \/ pdoc' = [current |-> v, num |-> pver[v].num] /\ published' = published \cup {v}
         /\ UNCHANGED <<pdraft, pcall>>
<1> DEFINE v == appr[a].version
<1>1. PICK to \in {"approved", "rejected", "withdrawn"} :
        /\ ConcludeApproval(a, to)
        /\ \/ pdoc' = pdoc /\ published' = published
           \/ pdoc' = [current |-> v, num |-> pver[v].num] /\ published' = published \cup {v}
  BY DEF ApproveVersion, Reject, Withdraw
<1>2. appr[a].st = "pending" /\ v \in PVersions
  BY <1>1 DEF ConcludeApproval, MayDecide, Submissions
<1>3. appr' = [appr EXCEPT ![a].st = to] /\ pver' = [pver EXCEPT ![v].st = to] /\ UNCHANGED <<pdraft, pcall>>
  BY <1>1 DEF ConcludeApproval
<1>4. appr[a] \in ApprovalRow
  BY DEF PTyped, ApprovalsOK
<1>5. appr'[a] \in ApprovalRow /\ appr'[a].st = to /\ appr'[a].version = v
  BY <1>3, <1>4 DEF PTyped, ApprovalsOK, ApprovalRow
<1>6. appr' = [appr EXCEPT ![a] = appr'[a]]
  BY <1>3 DEF PTyped, ApprovalsOK
<1>7. /\ VersionMoves(v) /\ pver'[v].st = to /\ pver'[v].base = pver[v].base
      /\ pver'[v].text = pver[v].text /\ pver'[v].built = pver[v].built
  BY <1>2, <1>3, StateIs
<1> QED BY <1>1, <1>2, <1>3, <1>5, <1>6, <1>7

(* What a call reads.                                                      *)
LEMMA PReadIs ==
  ASSUME PTyped, ReadyIsBuilt, NEW c \in Calls,
         NEW op \in {"save", "build", "confirm"}, NEW d \in PDrafts, Read(c, op, d)
  PROVE  /\ pcall' = [pcall EXCEPT ![c] = pcall'[c]] /\ pcall'[c] \in PCallRec
         /\ pcall'[c].op = op /\ pcall'[c].id = d /\ pcall'[c].lock = pdraft[d].lock
         /\ pcall'[c].text = pdraft[d].text /\ (op = "confirm" => pcall'[c].text = pcall'[c].built)
         /\ pdraft[d].st # "absent" /\ UNCHANGED <<pdraft, pver, pdoc, appr, published>>
<1>1. pcall' = [pcall EXCEPT ![c] = [NoCall EXCEPT !.op = op, !.id = d, !.lock = pdraft[d].lock,
                                       !.text = pdraft[d].text, !.built = pdraft[d].built]]
  BY DEF Read
<1>2. pcall'[c] = [op |-> op, id |-> d, lock |-> pdraft[d].lock, text |-> pdraft[d].text,
                   built |-> pdraft[d].built, st |-> "none", current |-> NoVersion]
  BY <1>1 DEF PTyped, PCallsOK, NoCall
<1>3. pdraft[d].lock \in Nat /\ pdraft[d].text \in Nat /\ pdraft[d].built \in Nat
  BY DEF PTyped, DraftsOK, DraftRow
<1>4. pcall'[c] \in PCallRec
  BY <1>2, <1>3 DEF PCallRec, Bases
<1>5. pcall' = [pcall EXCEPT ![c] = pcall'[c]]
  BY <1>1 DEF PTyped, PCallsOK
<1>6. pdraft[d].st # "absent" /\ (op = "confirm" => pdraft[d].st = "ready")
  BY DEF Read, OpenStates
<1>7. /\ pcall'[c].op = op /\ pcall'[c].id = d /\ pcall'[c].lock = pdraft[d].lock
      /\ pcall'[c].text = pdraft[d].text /\ pcall'[c].built = pdraft[d].built
  BY <1>2
<1> QED BY <1>4, <1>5, <1>6, <1>7 DEF Read, ReadyIsBuilt

LEMMA ReadVersionIs ==
  ASSUME PTyped, NEW c \in Calls, NEW v \in PVersions, ReadVersion(c, v)
  PROVE  /\ pcall' = [pcall EXCEPT ![c] = pcall'[c]] /\ pcall'[c] \in PCallRec
         /\ pcall'[c].op = "submit" /\ pcall'[c].id = v /\ pver[v].st # "absent"
         /\ pcall'[c].st \in {"draft", "withdrawn"}
         /\ pcall'[c].st = "withdrawn" => pcall'[c].current \in {v, pver[v].base}
         /\ UNCHANGED <<pdraft, pver, pdoc, appr, published>>
<1>1. pcall' = [pcall EXCEPT ![c] = [NoCall EXCEPT !.op = "submit", !.id = v, !.st = pver[v].st,
                                                   !.current = pdoc.current]]
  BY DEF ReadVersion
<1>2. pcall'[c] = [op |-> "submit", id |-> v, lock |-> 0, text |-> NoText, built |-> NoText,
                   st |-> pver[v].st, current |-> pdoc.current]
  BY <1>1 DEF PTyped, PCallsOK, NoCall
<1>3. pver[v].st \in {"draft", "withdrawn"} /\ (pver[v].st = "withdrawn" => pdoc.current \in {v, pver[v].base})
  BY DEF ReadVersion, Resubmittable
<1>4. pdoc.current \in Bases
  BY DEF PTyped, DocOK
<1>5. pcall'[c] \in PCallRec
  BY <1>2, <1>3, <1>4 DEF PCallRec, NoText
<1>6. pcall' = [pcall EXCEPT ![c] = pcall'[c]]
  BY <1>1 DEF PTyped, PCallsOK
<1>7. /\ pcall'[c].op = "submit" /\ pcall'[c].id = v
      /\ pcall'[c].st = pver[v].st /\ pcall'[c].current = pdoc.current
  BY <1>2
<1> QED BY <1>3, <1>5, <1>6, <1>7 DEF ReadVersion

LEMMA NoCallIs == NoCall \in PCallRec /\ NoCall.op = "none"
BY DEF NoCall, PCallRec, Bases, NoText

-----------------------------------------------------------------------------
(* The parts of the invariant.                                             *)

(* Drafts, versions, submissions and calls change by one row each.         *)
LEMMA DraftStep ==
  ASSUME PBooks, [PolicyNext]_policyVars
  PROVE  pdraft' = pdraft \/ \E d \in PDrafts : DraftMoves(d)
<1> USE DEF PBooks
<1>1. ASSUME NEW d \in PDrafts, Recover(d) PROVE \E e \in PDrafts : DraftMoves(e)
  BY <1>1, CreationIs
<1>2. CASE Generate \/ StartRevision
  BY <1>2, CreationIs
<1>3. ASSUME NEW d \in PDrafts, DiscardDraft(d) \/ ExpireDraft(d) PROVE DraftMoves(d)
  BY <1>3, ClosingIs
<1>4. ASSUME NEW c \in Calls, SaveDraft(c) \/ Build(c) PROVE \E e \in PDrafts : DraftMoves(e)
  BY <1>4, EditIs DEF CallersOK
<1>5. ASSUME NEW c \in Calls, Confirm(c) PROVE pdraft' = pdraft \/ \E e \in PDrafts : DraftMoves(e)
  BY <1>5, ConfirmIs DEF CallersOK
<1>6. CASE UNCHANGED pdraft
  BY <1>6
<1> QED BY <1>1, <1>2, <1>3, <1>4, <1>5, <1>6
        DEF PolicyNext, Read, ReadVersion, Submit, Drop, ApproveVersion, Reject, Withdraw, ConcludeApproval, policyVars

LEMMA DraftsKept ==
  ASSUME PBooks, [PolicyNext]_policyVars
  PROVE  /\ DraftsOK' /\ ReadyIsBuilt'
         /\ \A d \in PDrafts : pdraft[d].st # "absent" =>
              /\ pdraft'[d].st # "absent"
              /\ \/ pdraft'[d].lock = pdraft[d].lock + 1
                 \/ pdraft'[d].lock = pdraft[d].lock /\ pdraft'[d].text = pdraft[d].text
<1>1. CASE pdraft' = pdraft
  BY <1>1 DEF PBooks, PTyped, DraftsOK, ReadyIsBuilt
<1>2. ASSUME NEW d \in PDrafts, DraftMoves(d)
      PROVE  /\ DraftsOK' /\ ReadyIsBuilt'
             /\ \A e \in PDrafts : pdraft[e].st # "absent" =>
                  /\ pdraft'[e].st # "absent"
                  /\ \/ pdraft'[e].lock = pdraft[e].lock + 1
                     \/ pdraft'[e].lock = pdraft[e].lock /\ pdraft'[e].text = pdraft[e].text
  <2>1. \A e \in PDrafts \ {d} : pdraft'[e] = pdraft[e]
    BY <1>2 DEF DraftMoves, PBooks, PTyped, DraftsOK
  <2>2. DraftsOK'
    BY <1>2 DEF DraftMoves, PBooks, PTyped, DraftsOK
  <2>3. ReadyIsBuilt'
    BY <1>2, <2>1 DEF DraftMoves, PBooks, ReadyIsBuilt
  <2> QED BY <1>2, <2>1, <2>2, <2>3 DEF DraftMoves
<1> QED BY <1>1, <1>2, DraftStep

(* Versions and submissions.                                               *)
LEMMA VersionsKept ==
  ASSUME PBooks, [PolicyNext]_policyVars
  PROVE  /\ VersionsOK' /\ ApprovalsOK' /\ VersionIsWhatWasBuilt' /\ OneSubmission' /\ Submissions'
         /\ \A v \in PVersions : pver[v].st # "absent" => pver'[v].st # "absent" /\ pver'[v].base = pver[v].base
<1> USE DEF PBooks
<1> DEFINE Goal ==
      /\ VersionsOK' /\ ApprovalsOK' /\ VersionIsWhatWasBuilt' /\ OneSubmission' /\ Submissions'
      /\ \A v \in PVersions : pver[v].st # "absent" => pver'[v].st # "absent" /\ pver'[v].base = pver[v].base
<1>1. ASSUME UNCHANGED <<pver, appr>> PROVE Goal
  BY <1>1 DEF PTyped, VersionsOK, ApprovalsOK, VersionIsWhatWasBuilt, OneSubmission, Submissions
<1>2. ASSUME NEW c \in Calls, Confirm(c) PROVE Goal
  <2>1. PICK v \in PVersions : /\ pver[v].st = "absent" /\ VersionMoves(v) /\ pver'[v].st = "draft"
                               /\ pver'[v].text = pver'[v].built
    BY <1>2, ConfirmIs DEF CallersOK
  <2>2. appr' = appr
    BY <1>2 DEF Confirm
  <2>3. \A w \in PVersions \ {v} : pver'[w] = pver[w]
    BY <2>1 DEF VersionMoves, PTyped, VersionsOK
  <2>4. VersionsOK' /\ ApprovalsOK'
    BY <2>1, <2>2 DEF VersionMoves, PTyped, VersionsOK, ApprovalsOK
  <2>5. VersionIsWhatWasBuilt'
    BY <2>1, <2>3 DEF VersionIsWhatWasBuilt
  <2>6. Submissions'
    BY <2>1, <2>2, <2>3 DEF Submissions
  <2>7. OneSubmission'
    BY <2>1, <2>2, <2>3 DEF OneSubmission, Submissions
  <2> QED BY <2>1, <2>3, <2>4, <2>5, <2>6, <2>7
<1>3. ASSUME NEW c \in Calls, Submit(c) PROVE Goal
  <2> DEFINE v == pcall[c].id
  <2>1. /\ v \in PVersions /\ pver[v].st # "absent" /\ NonePending
        /\ VersionMoves(v) /\ pver'[v].st = "pending" /\ pver'[v].base = pver[v].base
        /\ pver'[v].text = pver[v].text /\ pver'[v].built = pver[v].built
    BY <1>3, SubmitIs DEF CallersOK
  <2>2. PICK a \in Approvals : /\ appr' = [appr EXCEPT ![a] = appr'[a]] /\ appr'[a] \in ApprovalRow
                               /\ appr'[a].st = "pending" /\ appr'[a].version = v
    BY <1>3, SubmitIs DEF CallersOK
  <2>3. (\A w \in PVersions \ {v} : pver'[w] = pver[w]) /\ (\A b \in Approvals \ {a} : appr'[b] = appr[b])
    BY <2>1, <2>2 DEF VersionMoves, PTyped, VersionsOK, ApprovalsOK
  <2>4. VersionsOK' /\ ApprovalsOK'
    BY <2>1, <2>2 DEF VersionMoves, PTyped, VersionsOK, ApprovalsOK
  <2>5. VersionIsWhatWasBuilt'
    BY <2>1, <2>3 DEF VersionIsWhatWasBuilt
  <2>6. Submissions'
    BY <2>1, <2>2, <2>3 DEF Submissions
  <2>7. OneSubmission'
    BY <2>1, <2>2, <2>3 DEF OneSubmission, NonePending
  <2> QED BY <2>1, <2>3, <2>4, <2>5, <2>6, <2>7
<1>4. ASSUME NEW a \in Approvals, ApproveVersion(a) \/ Reject(a) \/ Withdraw(a) PROVE Goal
  <2> DEFINE v == appr[a].version
  <2>1. /\ appr[a].st = "pending" /\ v \in PVersions
        /\ appr' = [appr EXCEPT ![a] = appr'[a]] /\ appr'[a] \in ApprovalRow
        /\ appr'[a].st \in {"approved", "rejected", "withdrawn"} /\ appr'[a].version = v
        /\ VersionMoves(v) /\ pver'[v].st = appr'[a].st /\ pver'[v].base = pver[v].base
        /\ pver'[v].text = pver[v].text /\ pver'[v].built = pver[v].built
    BY <1>4, ConcludeIs
  <2>2. pver[v].st = "pending" /\ \A b \in Approvals \ {a} : appr[b].st # "pending"
    BY <2>1 DEF OneSubmission
  <2>3. (\A w \in PVersions \ {v} : pver'[w] = pver[w]) /\ (\A b \in Approvals \ {a} : appr'[b] = appr[b])
    BY <2>1 DEF VersionMoves, PTyped, VersionsOK, ApprovalsOK
  <2>4. VersionsOK' /\ ApprovalsOK'
    BY <2>1 DEF VersionMoves, PTyped, VersionsOK, ApprovalsOK
  <2>5. VersionIsWhatWasBuilt'
    BY <2>1, <2>2, <2>3 DEF VersionIsWhatWasBuilt
  <2>6. Submissions'
    BY <2>1, <2>2, <2>3 DEF Submissions
  <2>7. OneSubmission'
    BY <2>1, <2>2, <2>3 DEF OneSubmission
  <2> QED BY <2>1, <2>2, <2>3, <2>4, <2>5, <2>6, <2>7
<1> HIDE DEF Goal
<1>5. Goal
  BY <1>1, <1>2, <1>3, <1>4 DEF PolicyNext, Generate, StartRevision, Recover, DiscardDraft, ExpireDraft, Read,
     ReadVersion, SaveDraft, Build, Drop, policyVars
<1> QED BY <1>5 DEF Goal

LEMMA CallsStep ==
  ASSUME PBooks, [PolicyNext]_policyVars
  PROVE  PCallsOK' /\ CallersOK'
<1> USE DEF PBooks
<1>1. \A d \in PDrafts : pdraft[d].st # "absent" =>
        /\ pdraft'[d].st # "absent"
        /\ \/ pdraft'[d].lock = pdraft[d].lock + 1
           \/ pdraft'[d].lock = pdraft[d].lock /\ pdraft'[d].text = pdraft[d].text
  BY DraftsKept
<1>2. \A v \in PVersions : pver[v].st # "absent" => pver'[v].st # "absent" /\ pver'[v].base = pver[v].base
  BY VersionsKept
<1>3. ASSUME NEW c \in Calls, pcall'[c] = pcall[c] PROVE PReaderOK(c)' /\ SubmitterOK(c)'
  <2>1. SubmitterOK(c)'
    BY <1>2, <1>3 DEF CallersOK, SubmitterOK
  <2>2. PReaderOK(c)'
    <3> DEFINE d == pcall[c].id
    <3> SUFFICES ASSUME pcall[c].op \in {"save", "build", "confirm"}
                 PROVE  /\ d \in PDrafts /\ pdraft'[d].st # "absent" /\ pcall[c].lock <= pdraft'[d].lock
                        /\ pcall[c].lock = pdraft'[d].lock => pcall[c].text = pdraft'[d].text
                        /\ pcall[c].op = "confirm" => pcall[c].text = pcall[c].built
      BY <1>3 DEF PReaderOK
    <3>1. /\ d \in PDrafts /\ pdraft[d].st # "absent" /\ pcall[c].lock <= pdraft[d].lock
          /\ pcall[c].lock = pdraft[d].lock => pcall[c].text = pdraft[d].text
          /\ pcall[c].op = "confirm" => pcall[c].text = pcall[c].built
      BY DEF CallersOK, PReaderOK
    <3>2. pcall[c].lock \in Nat /\ pdraft[d].lock \in Nat
      BY <3>1 DEF PTyped, PCallsOK, PCallRec, DraftsOK, DraftRow
    <3> QED BY <1>1, <3>1, <3>2
  <2> QED BY <2>1, <2>2
<1>4. ASSUME NEW c \in Calls, NEW op \in {"save", "build", "confirm"}, NEW d \in PDrafts, Read(c, op, d)
      PROVE  PCallsOK' /\ CallersOK'
  <2>1. PReaderOK(c)' /\ SubmitterOK(c)'
    <3>1. pdraft[d].lock <= pdraft[d].lock
      BY DEF PTyped, DraftsOK, DraftRow
    <3> QED BY <1>4, <3>1, PReadIs DEF PReaderOK, SubmitterOK
  <2>2. PCallsOK' /\ \A b \in Calls \ {c} : pcall'[b] = pcall[b]
    BY <1>4, PReadIs DEF PTyped, PCallsOK
  <2> QED BY <1>3, <2>1, <2>2 DEF CallersOK
<1>5. ASSUME NEW c \in Calls, NEW v \in PVersions, ReadVersion(c, v) PROVE PCallsOK' /\ CallersOK'
  <2>1. PReaderOK(c)' /\ SubmitterOK(c)'
    BY <1>5, ReadVersionIs DEF PReaderOK, SubmitterOK
  <2>2. PCallsOK' /\ \A b \in Calls \ {c} : pcall'[b] = pcall[b]
    BY <1>5, ReadVersionIs DEF PTyped, PCallsOK
  <2> QED BY <1>3, <2>1, <2>2 DEF CallersOK
<1>6. ASSUME NEW c \in Calls, pcall' = [pcall EXCEPT ![c] = NoCall] PROVE PCallsOK' /\ CallersOK'
  <2>1. pcall'[c].op = "none" /\ PCallsOK' /\ \A b \in Calls \ {c} : pcall'[b] = pcall[b]
    BY <1>6, NoCallIs DEF PTyped, PCallsOK
  <2>2. PReaderOK(c)' /\ SubmitterOK(c)'
    BY <2>1 DEF PReaderOK, SubmitterOK
  <2> QED BY <1>3, <2>1, <2>2 DEF CallersOK
<1>7. ASSUME NEW c \in Calls, SaveDraft(c) \/ Build(c) \/ Confirm(c) \/ Submit(c) \/ Drop(c)
      PROVE  pcall' = [pcall EXCEPT ![c] = NoCall]
  BY <1>7 DEF SaveDraft, Build, Confirm, Submit, Drop
<1>8. ASSUME pcall' = pcall PROVE PCallsOK' /\ CallersOK'
  BY <1>3, <1>8 DEF CallersOK, PTyped, PCallsOK
<1> QED BY <1>4, <1>5, <1>6, <1>7, <1>8 DEF PolicyNext, Generate, StartRevision, Recover, DiscardDraft,
           ExpireDraft, ApproveVersion, Reject, Withdraw, ConcludeApproval, policyVars

LEMMA DocStep ==
  ASSUME PBooks, [PolicyNext]_policyVars
  PROVE  DocOK'
<1> USE DEF PBooks, PTyped
<1>1. ASSUME NEW c \in Calls, Confirm(c) PROVE DocOK'
  <2>1. pcall[c].id \in PDrafts
    BY <1>1, ConfirmIs DEF CallersOK
  <2>2. PICK v \in PVersions :
          pdoc' = IF pdoc.current = NoVersion THEN [current |-> v, num |-> pdraft[pcall[c].id].num] ELSE pdoc
    BY <1>1, ConfirmIs DEF CallersOK
  <2>3. published' = published
    BY <1>1 DEF Confirm
  <2> QED BY <2>1, <2>2, <2>3 DEF DocOK, DraftsOK, DraftRow, Bases
<1>2. ASSUME NEW a \in Approvals, ApproveVersion(a) \/ Reject(a) \/ Withdraw(a) PROVE DocOK'
  <2>1. appr[a].version \in PVersions /\ pver[appr[a].version].num \in Nat
    BY <1>2, ConcludeIs DEF VersionsOK, VersionRow
  <2> QED BY <1>2, <2>1, ConcludeIs DEF DocOK, Bases
<1>3. CASE UNCHANGED <<pdoc, published>>
  BY <1>3 DEF DocOK
<1> QED BY <1>1, <1>2, <1>3 DEF PolicyNext, Generate, StartRevision, Recover, DiscardDraft, ExpireDraft, Read,
           ReadVersion, SaveDraft, Build, Submit, Drop, policyVars

LEMMA PBooksStep == PBooks /\ [PolicyNext]_policyVars => PBooks'
BY DraftsKept, VersionsKept, CallsStep, DocStep DEF PBooks, PTyped

(* One candidate, of what is current, as long as what a confirmation or a  *)
(* submission has read does not change before it writes.                   *)
LEMMA DocBooksStep ==
  ASSUME Quick, PBooks, DocBooks, [PolicyNext]_policyVars
  PROVE  DocBooks'
<1> USE DEF PBooks
<1>1. NoVersion \notin PVersions
  BY WorkflowAssumption DEF NoVersion
<1>2. ASSUME NEW c \in Calls, Confirm(c) PROVE DocBooks'
  <2> DEFINE d == pcall[c].id
  <2>1. Timely(d)
    BY <1>2, ConfirmIs DEF CallersOK
  <2>2. PICK v \in PVersions :
          /\ pver[v].st = "absent" /\ VersionMoves(v) /\ pver'[v].st = "draft" /\ pver'[v].base = pdraft[d].base
          /\ pdoc' = IF pdoc.current = NoVersion THEN [current |-> v, num |-> pdraft[d].num] ELSE pdoc
    BY <1>2, ConfirmIs DEF CallersOK
  <2>3. Candidates = {}
    <3>1. pdoc.current = NoVersion => Candidates = {}
      BY DEF DocBooks, Candidates, CandidateStates
    <3> QED BY <2>1, <3>1 DEF Timely
  <2>4. \A w \in PVersions \ {v} : pver'[w] = pver[w]
    BY <2>2 DEF VersionMoves, PTyped, VersionsOK
  <2>5. Candidates' = {v}
    BY <2>2, <2>3, <2>4 DEF Candidates, CandidateStates
  <2>6. pdoc'.current # NoVersion /\ pdoc'.current \in {v, pver'[v].base}
    <3>1. CASE pdoc.current = NoVersion
      BY <1>1, <2>2, <3>1
    <3>2. CASE pdoc.current # NoVersion
      BY <2>1, <2>2, <3>2 DEF Timely
    <3> QED BY <3>1, <3>2
  <2> QED BY <2>5, <2>6 DEF DocBooks
<1>3. ASSUME NEW c \in Calls, Submit(c) PROVE DocBooks'
  <2> DEFINE v == pcall[c].id
  <2>1. /\ v \in PVersions /\ pver[v].st # "absent" /\ Candidates \subseteq {v}
        /\ VersionMoves(v) /\ pver'[v].st = "pending" /\ pver'[v].base = pver[v].base /\ pdoc' = pdoc
    BY <1>3, SubmitIs DEF CallersOK
  <2>2. \A w \in PVersions \ {v} : pver'[w] = pver[w]
    BY <2>1 DEF VersionMoves, PTyped, VersionsOK
  <2>3. Candidates' = {v}
    BY <2>1, <2>2 DEF Candidates, CandidateStates
  <2>4. pdoc.current \in {v, pver[v].base}
    <3>1. pver[v].st = pcall[c].st /\ pdoc.current = pcall[c].current
      BY <1>3 DEF Submit
    <3>2. CASE pcall[c].st = "draft"
      BY <2>1, <3>1, <3>2 DEF DocBooks, Candidates, CandidateStates
    <3>3. CASE pcall[c].st = "withdrawn"
      BY <1>3, <3>1, <3>3 DEF Submit, CallersOK, SubmitterOK
    <3>4. pcall[c].st \in {"draft", "withdrawn"}
      BY <1>3 DEF Submit, CallersOK, SubmitterOK
    <3> QED BY <3>2, <3>3, <3>4
  <2>5. pdoc.current # NoVersion
    BY <2>1 DEF DocBooks
  <2> QED BY <2>1, <2>3, <2>4, <2>5 DEF DocBooks
<1>4. ASSUME NEW a \in Approvals, ApproveVersion(a) \/ Reject(a) \/ Withdraw(a) PROVE DocBooks'
  <2> DEFINE v == appr[a].version
  <2>1. /\ appr[a].st = "pending" /\ v \in PVersions /\ VersionMoves(v)
        /\ pver'[v].st \in {"approved", "rejected", "withdrawn"}
        /\ pdoc' = pdoc \/ pdoc' = [current |-> v, num |-> pver[v].num]
    BY <1>4, ConcludeIs
  <2>2. pver[v].st = "pending"
    BY <2>1 DEF OneSubmission
  <2>3. Candidates = {v}
    BY <2>1, <2>2 DEF DocBooks, Candidates, CandidateStates
  <2>4. \A w \in PVersions \ {v} : pver'[w] = pver[w]
    BY <2>1 DEF VersionMoves, PTyped, VersionsOK
  <2>5. Candidates' = {}
    BY <2>1, <2>3, <2>4 DEF Candidates, CandidateStates
  <2>6. pdoc'.current # NoVersion
    BY <1>1, <2>1, <2>2 DEF DocBooks
  <2> QED BY <2>5, <2>6 DEF DocBooks
<1>5. CASE UNCHANGED <<pver, pdoc>>
  BY <1>5 DEF DocBooks, Candidates
<1> QED BY <1>2, <1>3, <1>4, <1>5 DEF PolicyNext, Generate, StartRevision, Recover, DiscardDraft, ExpireDraft, Read,
           ReadVersion, SaveDraft, Build, Drop, policyVars

LEMMA PolicyStart == PolicyInit => PolicyInv
<1> SUFFICES ASSUME PolicyInit PROVE PolicyInv
  OBVIOUS
<1>1. NoDraftRow \in DraftRow /\ NoDraftRow.st = "absent"
  BY DEF NoDraftRow, DraftRow, Bases, NoText, FirstNumber
<1>2. NoVersionRow \in VersionRow /\ NoVersionRow.st = "absent"
  BY DEF NoVersionRow, VersionRow, Bases, NoText, FirstNumber
<1>3. PTyped
  <2>1. DraftsOK /\ VersionsOK /\ PCallsOK
    BY <1>1, <1>2, NoCallIs DEF PolicyInit, DraftsOK, VersionsOK, PCallsOK
  <2>2. DocOK /\ ApprovalsOK
    BY DEF PolicyInit, DocOK, ApprovalsOK, ApprovalRow, Bases, FirstNumber
  <2> QED BY <2>1, <2>2 DEF PTyped
<1>4. ReadyIsBuilt /\ CallersOK
  BY <1>1, NoCallIs DEF PolicyInit, ReadyIsBuilt, CallersOK, PReaderOK, SubmitterOK
<1>5. VersionIsWhatWasBuilt /\ OneSubmission /\ Submissions
  BY <1>2 DEF PolicyInit, VersionIsWhatWasBuilt, OneSubmission, Submissions
<1>6. DocBooks
  BY <1>2 DEF PolicyInit, DocBooks, Candidates, CandidateStates
<1> QED BY <1>3, <1>4, <1>5, <1>6 DEF PolicyInv, PBooks

LEMMA PolicyKept == PolicyInv /\ [PolicyNext]_policyVars => PolicyInv'
BY PBooksStep, DocBooksStep DEF PolicyInv

(* Type correctness of drafts, versions, submissions and calls.            *)
THEOREM PolicyTypesTheorem == PolicySpec => []PolicyTypes
<1>1. PolicyInv => PolicyTypes
  BY DEF PolicyInv, PBooks, PTyped, DraftsOK, VersionsOK, DocOK, ApprovalsOK, PCallsOK, Bases, DraftRow,
         VersionRow, ApprovalRow, PCallRec, PolicyTypes
<1> QED BY <1>1, PolicyStart, PolicyKept, PTL DEF PolicySpec

(* A version is the text that was rendered, also when calls are slow.      *)
THEOREM BuiltTheorem == PolicySpec => []VersionIsWhatWasBuilt
<1>1. PolicyInv => VersionIsWhatWasBuilt
  BY DEF PolicyInv, PBooks
<1> QED BY <1>1, PolicyStart, PolicyKept, PTL DEF PolicySpec

(* One version waits for a decision, while its one submission does, also   *)
(* when calls are slow.                                                    *)
THEOREM SubmissionTheorem == PolicySpec => []OneSubmission
<1>1. PolicyInv => OneSubmission
  BY DEF PolicyInv, PBooks
<1> QED BY <1>1, PolicyStart, PolicyKept, PTL DEF PolicySpec

(* An approval replaces what the version was based on, and stays.  Assumed,*)
(* and not ensured by the code: nothing that a submission or confirmation  *)
(* has read is changed before it writes (submit_for_approval L1241).       *)
LEMMA BaseWhenQuick == ASSUME Quick PROVE PolicySpec => ApprovedOnItsBase
<1> DEFINE Right == \A v \in PVersions :
             /\ pdoc'.current = v /\ pdoc.current # NoVersion => pdoc.current \in {v, pver[v].base}
             /\ pver[v].st = "approved" => pver'[v].st = "approved"
<1>1. PolicyInv /\ [PolicyNext]_policyVars => [Right]_policyVars
  <2> SUFFICES ASSUME PolicyInv, PolicyNext PROVE Right
    OBVIOUS
  <2> USE DEF PolicyInv, PBooks
  <2>1. ASSUME NEW c \in Calls, Confirm(c) PROVE Right
    <3>1. PICK v \in PVersions :
            /\ pver[v].st = "absent" /\ VersionMoves(v)
            /\ pdoc.current # NoVersion => pdoc' = pdoc
      BY <2>1, ConfirmIs DEF CallersOK
    <3>2. \A w \in PVersions \ {v} : pver'[w] = pver[w]
      BY <3>1 DEF VersionMoves, PTyped, VersionsOK
    <3> QED BY <3>1, <3>2
  <2>2. ASSUME NEW c \in Calls, Submit(c) PROVE Right
    <3> DEFINE v == pcall[c].id
    <3>1. v \in PVersions /\ VersionMoves(v) /\ pdoc' = pdoc
      BY <2>2, SubmitIs DEF CallersOK
    <3>2. \A w \in PVersions \ {v} : pver'[w] = pver[w]
      BY <3>1 DEF VersionMoves, PTyped, VersionsOK
    <3>3. pver[v].st # "approved"
      BY <2>2 DEF Submit, CallersOK, SubmitterOK
    <3> QED BY <3>1, <3>2, <3>3
  <2>3. ASSUME NEW a \in Approvals, ApproveVersion(a) \/ Reject(a) \/ Withdraw(a) PROVE Right
    <3> DEFINE v == appr[a].version
    <3>1. /\ appr[a].st = "pending" /\ v \in PVersions /\ VersionMoves(v)
          /\ pdoc' = pdoc \/ pdoc' = [current |-> v, num |-> pver[v].num]
      BY <2>3, ConcludeIs
    <3>2. pver[v].st = "pending"
      BY <3>1 DEF OneSubmission
    <3>3. pdoc.current \in {v, pver[v].base}
      BY <3>1, <3>2 DEF DocBooks, Candidates, CandidateStates
    <3>4. \A w \in PVersions \ {v} : pver'[w] = pver[w]
      BY <3>1 DEF VersionMoves, PTyped, VersionsOK
    <3> QED BY <3>1, <3>2, <3>3, <3>4
  <2>4. UNCHANGED <<pver, pdoc>> => Right
    OBVIOUS
  <2> HIDE DEF Right
  <2> QED BY <2>1, <2>2, <2>3, <2>4 DEF PolicyNext, Generate, StartRevision, Recover, DiscardDraft, ExpireDraft,
             Read, ReadVersion, SaveDraft, Build, Drop
<1> QED BY <1>1, PolicyStart, PolicyKept, PTL DEF PolicySpec, ApprovedOnItsBase
=============================================================================
