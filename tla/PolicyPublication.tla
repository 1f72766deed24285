------------------------- MODULE PolicyPublication -------------------------
(***************************************************************************)
(* Publication of an approved policy version (aria/policy_publication.py): *)
(* a job stored with the approval, claimed by a worker of some server      *)
(* process under a lease and a token, that copies evidence, emits an event *)
(* and decides by the event's status whether it is complete.               *)
(*                                                                         *)
(* The event bus is its promise, EventLife: one event for each job, whose  *)
(* dedup key is the job's publication key.                                 *)
(*                                                                         *)
(* Data abstracted: a job is its version; its copies into the vault and the*)
(* audits are one transaction.  The token of a claim is the job's attempts *)
(* counter at that claim, which every claim raises and nothing lowers, as a*)
(* fresh uuid never occurs again.  Times are what is left until them.      *)
(***************************************************************************)
EXTENDS Integers, FiniteSets

CONSTANTS
  Jobs,          \* ids in order of creation
  Workers,       \* one scheduler per server process
  LEASE, MAX_ATTEMPTS, BACKOFF,
  Prompt,        \* TRUE: a worker reads the job it claimed back within the lease
  MaxClaims      \* bound on the claims of a job

ASSUME PublicationAssumption ==
  /\ Jobs \subseteq Nat /\ IsFiniteSet(Jobs) /\ IsFiniteSet(Workers)
  /\ LEASE \in Nat \ {0} /\ MAX_ATTEMPTS \in Nat \ {0} /\ MaxClaims \in Nat
  /\ Prompt \in BOOLEAN
  /\ BACKOFF \in [1 .. MAX_ATTEMPTS -> Nat \ {0}]

VARIABLES
  state, attempts, wait, lease, token,  \* aria_policy_publication_jobs
  copied,                               \* the version's evidence rows are there
  retried,                              \* history: a manager asked for a retry
  st, handled,                          \* the event of each job
  pc, job, mine, tries, verdict         \* a worker: its job, the token and attempts it read

table  == <<state, attempts, wait, lease, token>>
worker == <<pc, job, mine, tries, verdict>>
events == <<st, handled>>
vars   == <<state, attempts, wait, lease, token, copied, retried, st, handled,
            pc, job, mine, tries, verdict>>

Bus == INSTANCE EventLife WITH Events <- Jobs

NoToken == 0
NoJob   == -1

Init ==
  /\ state    = [j \in Jobs |-> "absent"]
  /\ attempts = [j \in Jobs |-> 0]
  /\ wait     = [j \in Jobs |-> 0]
  /\ lease    = [j \in Jobs |-> 0]
  /\ token    = [j \in Jobs |-> NoToken]
  /\ copied   = [j \in Jobs |-> FALSE]
  /\ retried  = [j \in Jobs |-> FALSE]
  /\ Bus!Init
  /\ pc       = [w \in Workers |-> "idle"]
  /\ job      = [w \in Workers |-> NoJob]
  /\ mine     = [w \in Workers |-> NoToken]
  /\ tries    = [w \in Workers |-> 0]
  /\ verdict  = [w \in Workers |-> "none"]

(* decide_approval stores the job with the approval.                       *)
Approve(j) ==
  /\ state[j] = "absent"
  /\ state' = [state EXCEPT ![j] = "pending"]
  /\ UNCHANGED <<attempts, wait, lease, token, copied, retried, worker, events>>

-----------------------------------------------------------------------------
(* The worker.                                                             *)

(* Slips: a running job is due whatever its lease; or not at all.          *)
Slip_Due(j) == state[j] \in {"pending", "running"} /\ wait[j] = 0
Slip_NeverAgain(j) == state[j] = "pending" /\ wait[j] = 0
Due(j) ==
  /\ state[j] = "pending" \/ (state[j] = "running" /\ lease[j] = 0)
  /\ wait[j] = 0

(* A job at the model's bound is out of the queue.                         *)
Queue == {j \in Jobs : Due(j) /\ attempts[j] < MaxClaims}

(* The token of the next claim.  (Slip: of the last one.)                  *)
Slip_FreshToken(j) == attempts[j]
FreshToken(j) == attempts[j] + 1

(* claim_next_job: one transaction on the oldest due job; a job another    *)
(* claim has locked is skipped as if that claim had come first ...         *)
Claim(w) ==
  /\ pc[w] = "idle"
  /\ \E j \in Queue :
       /\ \A k \in Queue : j <= k
       /\ state'    = [state EXCEPT ![j] = "running"]
       /\ attempts' = [attempts EXCEPT ![j] = @ + 1]
       /\ lease'    = [lease EXCEPT ![j] = LEASE]
       /\ token'    = [token EXCEPT ![j] = FreshToken(j)]
       /\ job'      = [job EXCEPT ![w] = j]
  /\ pc' = [pc EXCEPT ![w] = "claimed"]
  /\ UNCHANGED <<wait, copied, retried, mine, tries, verdict, events>>

(* ... and a second one that reads the row back by its id, whoever holds it*)
(* by then: the token and attempts the worker goes on with are those.      *)
ReadBack(w) ==
  /\ pc[w] = "claimed"
  /\ mine'  = [mine EXCEPT ![w] = token[job[w]]]
  /\ tries' = [tries EXCEPT ![w] = attempts[job[w]]]
  /\ pc'    = [pc EXCEPT ![w] = "copy"]
  /\ UNCHANGED <<table, copied, retried, job, verdict, events>>

(* The copies commit together, and are there already on a replay.          *)
Copy(w) ==
  /\ pc[w] = "copy"
  /\ copied' = [copied EXCEPT ![job[w]] = TRUE]
  /\ pc' = [pc EXCEPT ![w] = "emit"]
  /\ UNCHANGED <<table, retried, job, mine, tries, verdict, events>>

Decide(w, v) ==
  /\ pc' = [pc EXCEPT ![w] = "write"]
  /\ verdict' = [verdict EXCEPT ![w] = v]
  /\ UNCHANGED <<table, copied, retried, job, mine, tries>>

(* The copies roll back, or what they copy from is gone.                   *)
CopyFails(w) ==
  /\ pc[w] = "copy"
  /\ \E v \in {"retry", "gone"} : Decide(w, v)
  /\ UNCHANGED events

(* emit stores the event, or finds the one a former claim stored; either   *)
(* way it returns whatever the handlers do.                                *)
Emit(w) ==
  /\ pc[w] = "emit"
  /\ pc' = [pc EXCEPT ![w] = "check"]
  /\ IF st[job[w]] = "absent" THEN Bus!Store(job[w]) ELSE UNCHANGED events
  /\ UNCHANGED <<table, copied, retried, job, mine, tries, verdict>>

(* emit or the look at the event raises.                                   *)
EmitFails(w) ==
  /\ pc[w] \in {"emit", "check"}
  /\ Decide(w, "retry")
  /\ UNCHANGED events

(* What the event's status says.  (Slip: an id means delivered.)           *)
Slip_Delivered(j) == st[j] # "absent"
Delivered(j) == st[j] = "processed"

Check(w) ==
  /\ pc[w] = "check"
  /\ Decide(w, IF Delivered(job[w]) THEN "complete" ELSE "retry")
  /\ UNCHANGED events

Leave(w) ==
  /\ pc' = [pc EXCEPT ![w] = "idle"]
  /\ job' = [job EXCEPT ![w] = NoJob]
  /\ mine' = [mine EXCEPT ![w] = NoToken]
  /\ tries' = [tries EXCEPT ![w] = 0]
  /\ verdict' = [verdict EXCEPT ![w] = "none"]

(* Every write of a worker asks for its claim's token.  (Slip: not asked.) *)
Slip_Holds(w) == TRUE
Holds(w) == mine[w] # NoToken /\ token[job[w]] = mine[w]

(* The attempts the worker read at its claim are used up.                  *)
UsedUp(w) == tries[w] >= MAX_ATTEMPTS

Complete(w) ==
  /\ pc[w] = "write" /\ verdict[w] = "complete"
  /\ state' = IF Holds(w) THEN [state EXCEPT ![job[w]] = "complete"] ELSE state
  /\ Leave(w)
  /\ UNCHANGED <<attempts, wait, lease, token, copied, retried, events>>

Release(w, s, t) ==
  /\ IF Holds(w)
     THEN /\ state' = [state EXCEPT ![job[w]] = s]
          /\ wait'  = [wait EXCEPT ![job[w]] = t]
          /\ lease' = [lease EXCEPT ![job[w]] = 0]
          /\ token' = [token EXCEPT ![job[w]] = NoToken]
     ELSE UNCHANGED <<state, wait, lease, token>>
  /\ Leave(w)
  /\ UNCHANGED <<attempts, copied, retried, events>>

Retry(w) ==
  /\ pc[w] = "write" /\ verdict[w] = "retry" /\ ~UsedUp(w)
  /\ Release(w, "pending", BACKOFF[tries[w]])

MarkFailed(w) ==
  /\ pc[w] = "write"
  /\ verdict[w] = "gone" \/ (verdict[w] = "retry" /\ UsedUp(w))
  /\ Release(w, "failed", wait[job[w]])

-----------------------------------------------------------------------------
(* Managers, the bus, crashes and time.                                    *)

(* retry_now: a failed job is due at once; its attempts stay.              *)
RetryNow(j) ==
  /\ state[j] = "failed"
  /\ state'   = [state EXCEPT ![j] = "pending"]
  /\ wait'    = [wait EXCEPT ![j] = 0]
  /\ lease'   = [lease EXCEPT ![j] = 0]
  /\ token'   = [token EXCEPT ![j] = NoToken]
  /\ retried' = [retried EXCEPT ![j] = TRUE]
  /\ UNCHANGED <<attempts, copied, worker, events>>

(* Deliveries of the event by emit and the sweepers, and retry_dead.       *)
Deliver(j) ==
  /\ Bus!Handle(j) \/ Bus!Process(j) \/ Bus!GiveUp(j) \/ Bus!Reopen(j)
  /\ UNCHANGED <<table, copied, retried, worker>>

Crash(w) ==
  /\ pc[w] # "idle"
  /\ Leave(w)
  /\ UNCHANGED <<table, copied, retried, events>>

Elapse(n) == IF n > 0 THEN n - 1 ELSE n

Tick ==
  /\ \E j \in Jobs : wait[j] > 0 \/ lease[j] > 0
  /\ Prompt => \A w \in Workers : pc[w] = "claimed" => lease[job[w]] # 1
  /\ wait'  = [j \in Jobs |-> Elapse(wait[j])]
  /\ lease' = [j \in Jobs |-> Elapse(lease[j])]
  /\ UNCHANGED <<state, attempts, token, copied, retried, worker, events>>

Step(w) ==
  \/ ReadBack(w) \/ Copy(w) \/ CopyFails(w) \/ Emit(w) \/ EmitFails(w) \/ Check(w)
  \/ Complete(w) \/ Retry(w) \/ MarkFailed(w)

Next ==
  \/ \E j \in Jobs : Approve(j) \/ RetryNow(j) \/ Deliver(j)
  \/ \E w \in Workers : Claim(w) \/ Step(w) \/ Crash(w)
  \/ Tick

Spec == Init /\ [][Next]_vars

(* The schedulers fire, a step that is begun ends, and time passes.        *)
Fairness ==
  /\ \A w \in Workers : WF_vars(Claim(w)) /\ WF_vars(Step(w))
  /\ WF_vars(Tick)

FairSpec == Spec /\ Fairness

-----------------------------------------------------------------------------
(* Properties.                                                             *)

TypeOK ==
  /\ state \in [Jobs -> {"absent", "pending", "running", "complete", "failed"}]
  /\ attempts \in [Jobs -> Nat] /\ token \in [Jobs -> Nat]
  /\ wait \in [Jobs -> Nat] /\ lease \in [Jobs -> Nat]
  /\ copied \in [Jobs -> BOOLEAN] /\ retried \in [Jobs -> BOOLEAN]
  /\ st \in [Jobs -> {"absent", "open", "processed", "dead"}] /\ handled \in [Jobs -> BOOLEAN]
  /\ pc \in [Workers -> {"idle", "claimed", "copy", "emit", "check", "write"}]
  /\ job \in [Workers -> Jobs \cup {NoJob}] /\ mine \in [Workers -> Nat] /\ tries \in [Workers -> Nat]
  /\ verdict \in [Workers -> {"none", "complete", "retry", "gone"}]
  /\ \A w \in Workers : pc[w] # "idle" => job[w] \in Jobs
  /\ \A j \in Jobs : state[j] = "running" => token[j] = attempts[j]

(* process_job L417-439: a job is complete only when its evidence is copied*)
(* and every handler of its event has completed, whichever of the workers  *)
(* that shared it did which part.                                          *)
CompleteMeansPublished ==
  \A j \in Jobs : state[j] = "complete" => copied[j] /\ handled[j]

(* _mark_failed L479-487: a worker whose lease was taken over does not undo*)
(* what the new one concluded; nothing reopens a complete job.             *)
CompleteIsFinal == [][\A j \in Jobs : state[j] = "complete" => state'[j] = "complete"]_vars

(* The token of a running job is one worker's, or that of a worker that    *)
(* died or was overtaken: no two of them act on one claim.                 *)
OneHolder ==
  \A w, v \in Workers : pc[w] # "idle" /\ pc[v] # "idle" /\ job[w] = job[v]
                        /\ Holds(w) /\ Holds(v) => w = v

(* _schedule_retry_or_fail: a job waits for another attempt only while it  *)
(* has some left, or a manager asked for one.                              *)
WaitingHasAttemptsLeft ==
  \A j \in Jobs : state[j] = "pending" => attempts[j] < MAX_ATTEMPTS \/ retried[j]

(* Lost workers only delay a job: once crashes and retries by hand stop, a *)
(* stored job ends complete, or failed for a manager to see.               *)
Quiet == <>[][~ (\E w \in Workers : Crash(w)) /\ ~ (\E j \in Jobs : RetryNow(j))]_vars
EveryJobEnds ==
  Quiet => \A j \in Jobs : state[j] \in {"pending", "running"} ~>
                             (state[j] \in {"complete", "failed"} \/ attempts[j] = MaxClaims)

(* process_job L428-430: a job that failed because of its event is one the *)
(* manual retry can still complete.                                        *)
ManualRetryWorks == \A j \in Jobs : state[j] = "failed" => st[j] # "dead"
=============================================================================
