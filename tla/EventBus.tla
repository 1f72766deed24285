------------------------------ MODULE EventBus ------------------------------
(***************************************************************************)
(* The cross-module event bus of oneforall/core/events.py and the sweeper  *)
(* of oneforall/core/event_sweeper.py.                                     *)
(*                                                                         *)
(* An event is a row of `events`; the outcome of each of its handlers is a *)
(* row of `event_deliveries`.  Callers write events (emit, enqueue) and    *)
(* deliver them themselves; sweepers lease the rows that are due and       *)
(* deliver those.  Every process is cut where it reads, commits or runs    *)
(* foreign code, because that is where the others get in between.          *)
(*                                                                         *)
(* Data abstracted: payloads, tenants, error texts.  next_attempt_at is    *)
(* kept as the time left until it (due), which Tick counts down: the code  *)
(* only compares it with the present.  attempts saturates at MAX_ATTEMPTS, *)
(* the largest value the code tells apart.                                 *)
(***************************************************************************)
EXTENDS Integers, FiniteSets

CONSTANTS
  Events,        \* rows the events table may come to hold
  NoEvent,       \* no event in a process's hands
  Keys,          \* dedup keys in use; {} when no caller passes one
  NoKey,         \* dedup_key=None
  Callers,       \* requests and jobs that emit or enqueue
  Sweepers,      \* event_sweeper schedulers, one per server process
  NHandlers,     \* handler keys of the event type; the last is "webhook"
  MAX_ATTEMPTS, LEASE, GRACE, BACKOFF,
  Timely,        \* TRUE: a delivery ends before the wait protecting it does
  BookkeepingMayFail  \* TRUE: a swallowed bookkeeping write may be lost

ASSUME BusAssumption ==
  /\ NoKey \notin Keys
  /\ NoEvent \notin Events
  /\ NHandlers \in Nat \ {0}
  /\ MAX_ATTEMPTS \in Nat \ {0}
  /\ LEASE \in Nat \ {0}
  /\ GRACE \in Nat \ {0}
  /\ BACKOFF \in [1 .. MAX_ATTEMPTS -> Nat \ {0}]
  /\ Timely \in BOOLEAN
  /\ BookkeepingMayFail \in BOOLEAN

VARIABLES
  status,    \* events.status; "absent" before the insert, "uncommitted" inside the caller's transaction
  due,       \* time left until events.next_attempt_at, or Unscheduled (NULL)
  deadAt,    \* events.dead_lettered_at IS NOT NULL
  key,       \* events.dedup_key
  delivery,  \* event_deliveries: status and attempts of each handler
  ran,       \* history: the handler has once completed for the event
  pc, ev, todo, outcome, verdict,  \* per process: where it is and what it holds in memory
  batch      \* per sweeper: the due rows its sweep selected and has not reached yet

rows  == <<status, due, deadAt, key, delivery, ran>>
local == <<pc, ev, todo, outcome, verdict, batch>>
vars  == <<status, due, deadAt, key, delivery, ran, pc, ev, todo, outcome, verdict, batch>>

Procs       == Callers \cup Sweepers
Handlers    == 1 .. NHandlers
Unscheduled == -1
AllKeys     == Keys \cup {NoKey}

Statuses    == {"absent", "uncommitted", "pending", "failed", "processed", "dead"}
Open        == {"pending", "failed"}
Visible(e)  == status[e] \notin {"absent", "uncommitted"}

(* A process is inside deliver() from its call to the write of _finish.    *)
Delivering(p) == pc[p] \in {"load", "run", "record", "write"}

Elapse(n)  == IF n > 0 THEN n - 1 ELSE n
(* One attempt more; beyond the maximum all counts are alike.              *)
OneMore(n) == IF n < MAX_ATTEMPTS THEN n + 1 ELSE n
NoRow      == [status |-> "none", attempts |-> 0]
NoVerdict  == [status |-> "none", wait |-> 0]

Init ==
  /\ status   = [e \in Events |-> "absent"]
  /\ due      = [e \in Events |-> Unscheduled]
  /\ deadAt   = [e \in Events |-> FALSE]
  /\ key      = [e \in Events |-> NoKey]
  /\ delivery = [e \in Events |-> [h \in Handlers |-> NoRow]]
  /\ ran      = [e \in Events |-> [h \in Handlers |-> FALSE]]
  /\ pc       = [p \in Procs |-> "idle"]
  /\ ev       = [p \in Procs |-> NoEvent]
  /\ todo     = [p \in Procs |-> {}]
  /\ outcome  = [p \in Procs |-> "none"]
  /\ verdict  = [p \in Procs |-> NoVerdict]
  /\ batch    = [s \in Sweepers |-> {}]

-----------------------------------------------------------------------------
(* Writing events.                                                         *)

Holder(k) == {e \in Events : Visible(e) /\ key[e] = k /\ k # NoKey}

(* A call that returns, raises or dies leaves nothing in memory.           *)
Return(p) ==
  /\ pc'      = [pc EXCEPT ![p] = "idle"]
  /\ ev'      = [ev EXCEPT ![p] = NoEvent]
  /\ todo'    = [todo EXCEPT ![p] = {}]
  /\ outcome' = [outcome EXCEPT ![p] = "none"]
  /\ verdict' = [verdict EXCEPT ![p] = NoVerdict]

(* deliver(e) is called: nothing is read yet.                              *)
StartDelivery(p, e) ==
  /\ pc' = [pc EXCEPT ![p] = "load"]
  /\ ev' = [ev EXCEPT ![p] = e]

InsertRow(e, k, s, wait) ==
  /\ status[e] = "absent"
  /\ status' = [status EXCEPT ![e] = s]
  /\ due'    = [due EXCEPT ![e] = wait]
  /\ key'    = [key EXCEPT ![e] = k]
  /\ UNCHANGED <<deadAt, delivery, ran>>

(* A second insert of a key waits for the transaction that holds it.       *)
KeyIsFree(k) == \A e \in Events : status[e] = "uncommitted" => key[e] # k \/ k = NoKey

(* emit: a replay of a key whose event is not processed goes straight to   *)
(* deliver, with no lease of its own.                                      *)
EmitReplay(p, k) ==
  /\ pc[p] = "idle"
  /\ \E e \in Holder(k) : status[e] # "processed" /\ StartDelivery(p, e)
  /\ UNCHANGED <<rows, todo, outcome, verdict, batch>>

(* emit: the dedup lookup found nothing; the insert is another statement.  *)
EmitLookup(p) ==
  /\ pc[p] = "idle"
  /\ pc' = [pc EXCEPT ![p] = "emit"]
  /\ UNCHANGED <<rows, ev, todo, outcome, verdict, batch>>

EmitInsert(p, e, k) ==
  /\ pc[p] = "emit"
  /\ KeyIsFree(k)
  /\ Holder(k) = {}
  /\ InsertRow(e, k, "pending", LEASE)
  /\ StartDelivery(p, e)
  /\ UNCHANGED <<todo, outcome, verdict, batch>>

(* emit: IntegrityError, another call won; its id is returned undelivered. *)
EmitLost(p, k) ==
  /\ pc[p] = "emit"
  /\ KeyIsFree(k)
  /\ Holder(k) # {}
  /\ Return(p)
  /\ UNCHANGED <<rows, batch>>

(* enqueue: the row joins the caller's open transaction.                   *)
Enqueue(p, e, k) ==
  /\ pc[p] = "idle"
  /\ KeyIsFree(k)
  /\ Holder(k) = {}
  /\ InsertRow(e, k, "uncommitted", GRACE)
  /\ pc' = [pc EXCEPT ![p] = "enqueued"]
  /\ ev' = [ev EXCEPT ![p] = e]
  /\ UNCHANGED <<todo, outcome, verdict, batch>>

(* enqueue: a repeated key returns the existing id, which the caller hands *)
(* to deliver_committed like a new one.                                    *)
EnqueueRepeat(p, k) ==
  /\ pc[p] = "idle"
  /\ \E e \in Holder(k) : StartDelivery(p, e)
  /\ UNCHANGED <<rows, todo, outcome, verdict, batch>>

(* The caller commits its change and delivers (deliver_committed), or      *)
(* commits and leaves the event to the sweeper, or rolls back.             *)
CommitSource(p) ==
  /\ pc[p] = "enqueued"
  /\ status' = [status EXCEPT ![ev[p]] = "pending"]
  /\ \/ StartDelivery(p, ev[p]) /\ UNCHANGED <<todo, outcome, verdict>>
     \/ Return(p)
  /\ UNCHANGED <<due, deadAt, key, delivery, ran, batch>>

UndoInsert(e) ==
  /\ status' = [status EXCEPT ![e] = "absent"]
  /\ due'    = [due EXCEPT ![e] = Unscheduled]
  /\ key'    = [key EXCEPT ![e] = NoKey]
  /\ UNCHANGED <<deadAt, delivery, ran>>

RollbackSource(p) ==
  /\ pc[p] = "enqueued"
  /\ UndoInsert(ev[p])
  /\ Return(p)
  /\ UNCHANGED batch

-----------------------------------------------------------------------------
(* deliver.                                                                *)

Succeeded(e) == {h \in Handlers : delivery[e][h].status = "ok"}

(* What a delivery has left to do.  (Slip: every handler, done or not.)     *)
Slip_Remaining(e) == Handlers
Remaining(e) == Handlers \ Succeeded(e)

(* The row and the handlers already done are read once, at the start.      *)
Load(p) ==
  /\ pc[p] = "load"
  /\ \/ /\ status[ev[p]] \in Open
        /\ pc'   = [pc EXCEPT ![p] = "run"]
        /\ todo' = [todo EXCEPT ![p] = Remaining(ev[p])]
        /\ UNCHANGED <<ev, outcome, verdict>>
     \/ status[ev[p]] \notin Open /\ Return(p)
  /\ UNCHANGED <<rows, batch>>

NextHandler(p, h) == h \in todo[p] /\ \A k \in todo[p] : h <= k

(* A handler runs in its own transactions, and completes or raises.        *)
RunHandler(p, o) ==
  /\ pc[p] = "run"
  /\ \E h \in todo[p] :
       /\ NextHandler(p, h)
       /\ ran' = [ran EXCEPT ![ev[p]][h] = @ \/ o = "ok"]
  /\ outcome' = [outcome EXCEPT ![p] = o]
  /\ pc' = [pc EXCEPT ![p] = "record"]
  /\ UNCHANGED <<status, due, deadAt, key, delivery, ev, todo, verdict, batch>>

(* _record_delivery: an upsert that overwrites whatever was there.         *)
RecordDelivery(p) ==
  /\ pc[p] = "record"
  /\ \E h \in todo[p] :
       /\ NextHandler(p, h)
       /\ delivery' = [delivery EXCEPT ![ev[p]][h] =
                         [status |-> outcome[p], attempts |-> OneMore(@.attempts)]]
       /\ todo' = [todo EXCEPT ![p] = @ \ {h}]
  /\ pc' = [pc EXCEPT ![p] = "run"]
  /\ outcome' = [outcome EXCEPT ![p] = "none"]
  /\ UNCHANGED <<status, due, deadAt, key, ran, ev, verdict, batch>>

(* _record_delivery: the write failed and the exception was swallowed.     *)
LoseRecord(p) ==
  /\ BookkeepingMayFail
  /\ pc[p] = "record"
  /\ \E h \in todo[p] : NextHandler(p, h) /\ todo' = [todo EXCEPT ![p] = @ \ {h}]
  /\ pc' = [pc EXCEPT ![p] = "run"]
  /\ outcome' = [outcome EXCEPT ![p] = "none"]
  /\ UNCHANGED <<rows, ev, verdict, batch>>

Failed(e)      == {h \in Handlers : delivery[e][h].status = "failed"}
MostAttempts(e) == CHOOSE n \in {delivery[e][h].attempts : h \in Failed(e)} :
                     \A h \in Failed(e) : delivery[e][h].attempts <= n

(* The wait after n failures; a row retry_dead has reset counts none, and   *)
(* index -1 of the table is its last entry.                                *)
Backoff(n) == BACKOFF[IF n \in 1 .. MAX_ATTEMPTS THEN n ELSE MAX_ATTEMPTS]

(* Slips: a success hides another handler's failure; the attempts of       *)
(* handlers that succeeded count; the retry is not scheduled.              *)
Slip_AnySuccess(e) ==
  IF Succeeded(e) # {} THEN [status |-> "processed", wait |-> Unscheduled]
                       ELSE [status |-> "failed", wait |-> Backoff(1)]
Slip_CountsSuccess(e) ==
  CASE \E h \in Handlers : delivery[e][h].attempts = MAX_ATTEMPTS
                          -> [status |-> "dead", wait |-> Unscheduled]
    [] Failed(e) = {}     -> [status |-> "processed", wait |-> Unscheduled]
    [] OTHER              -> [status |-> "failed", wait |-> Backoff(1)]
Slip_NoRetryTime(e) ==
  [status |-> IF Failed(e) = {} THEN "processed" ELSE "failed", wait |-> Unscheduled]

Verdict(e) ==
  CASE Failed(e) = {}                   -> [status |-> "processed", wait |-> Unscheduled]
    [] Failed(e) # {} /\ MostAttempts(e) >= MAX_ATTEMPTS
                                        -> [status |-> "dead", wait |-> Unscheduled]
    [] OTHER                            -> [status |-> "failed", wait |-> Backoff(MostAttempts(e))]

(* _finish: the failed rows are read ...                                   *)
FinishRead(p) ==
  /\ pc[p] = "run"
  /\ todo[p] = {}
  /\ verdict' = [verdict EXCEPT ![p] = Verdict(ev[p])]
  /\ pc' = [pc EXCEPT ![p] = "write"]
  /\ UNCHANGED <<rows, ev, todo, outcome, batch>>

(* ... and the status written, whatever the row holds by then.             *)
FinishWrite(p) ==
  /\ pc[p] = "write"
  /\ status' = [status EXCEPT ![ev[p]] = verdict[p].status]
  /\ due'    = [due EXCEPT ![ev[p]] = verdict[p].wait]
  /\ deadAt' = [deadAt EXCEPT ![ev[p]] = @ \/ verdict[p].status = "dead"]
  /\ Return(p)
  /\ UNCHANGED <<key, delivery, ran, batch>>

LoseFinish(p) ==
  /\ BookkeepingMayFail
  /\ pc[p] = "write"
  /\ Return(p)
  /\ UNCHANGED <<rows, batch>>

-----------------------------------------------------------------------------
(* The sweeper, the administrator, crashes and time.                       *)

(* deliver_pending selects the rows that are due.                          *)
Due(e) == status[e] \in Open /\ ~deadAt[e] /\ due[e] = 0

Sweep(s) ==
  /\ pc[s] = "idle"
  /\ batch[s] = {}
  /\ \E e \in Events : Due(e)
  /\ batch' = [batch EXCEPT ![s] = {e \in Events : Due(e)}]
  /\ UNCHANGED <<rows, pc, ev, todo, outcome, verdict>>

(* What the claim asks again of a selected row.  (Slip: only the status.)   *)
Slip_MayClaim(e) == status[e] \in Open
MayClaim(e) == status[e] \in Open /\ due[e] = 0

(* _claim: compare-and-set on a row of the sweep, which may be stale.      *)
Claim(s, e) ==
  /\ pc[s] = "idle"
  /\ e \in batch[s]
  /\ batch' = [batch EXCEPT ![s] = @ \ {e}]
  /\ IF MayClaim(e)
     THEN /\ due' = [due EXCEPT ![e] = LEASE]
          /\ StartDelivery(s, e)
     ELSE UNCHANGED <<due, pc, ev>>
  /\ UNCHANGED <<status, deadAt, key, delivery, ran, todo, outcome, verdict>>

(* The events retry_dead revives.  (Slip: any event.)                      *)
Slip_MayRevive(e) == Visible(e)
MayRevive(e) == status[e] = "dead"

(* dead_lettered_at after a retry.  (Slip: kept.)                          *)
Slip_MarkAfterRetry(e) == deadAt[e]
MarkAfterRetry(e) == FALSE

(* retry_dead: both updates run; only the first asks for a dead event.     *)
RetryDead(e) ==
  /\ Visible(e)
  /\ delivery' = [delivery EXCEPT ![e] =
                    [h \in Handlers |-> IF @[h].status = "failed"
                                        THEN [@[h] EXCEPT !.attempts = 0] ELSE @[h]]]
  /\ IF MayRevive(e)
     THEN /\ status' = [status EXCEPT ![e] = "pending"]
          /\ due'    = [due EXCEPT ![e] = 0]
          /\ deadAt' = [deadAt EXCEPT ![e] = MarkAfterRetry(e)]
     ELSE UNCHANGED <<status, due, deadAt>>
  /\ UNCHANGED <<key, ran, pc, ev, todo, outcome, verdict, batch>>

(* The process dies: its memory goes, its open transaction rolls back.     *)
Crash(p) ==
  /\ pc[p] # "idle"
  /\ Return(p)
  /\ batch' = [s \in Sweepers |-> IF s = p THEN {} ELSE batch[s]]
  /\ IF pc[p] = "enqueued" THEN UndoInsert(ev[p]) ELSE UNCHANGED rows

(* Under Timely, time does not pass the end of a wait that protects a      *)
(* delivery in progress.                                                   *)
Tick ==
  /\ \E e \in Events : due[e] > 0
  /\ Timely => \A p \in Procs : Delivering(p) \/ pc[p] = "enqueued" => due[ev[p]] # 1
  /\ due' = [e \in Events |-> Elapse(due[e])]
  /\ UNCHANGED <<status, deadAt, key, delivery, ran, local>>

(* A write of the books: what a handler returned, or what a dispatch found. *)
Bookkeep(p) ==
  /\ pc[p] \in {"record", "write"}
  /\ RecordDelivery(p) \/ LoseRecord(p) \/ FinishWrite(p) \/ LoseFinish(p)

Step(p) ==
  \/ CommitSource(p) \/ RollbackSource(p)
  \/ Load(p)
  \/ \E o \in {"ok", "failed"} : RunHandler(p, o)
  \/ FinishRead(p) \/ Bookkeep(p)

Write(p) ==
  \/ \E k \in Keys : EmitReplay(p, k) \/ EnqueueRepeat(p, k) \/ EmitLost(p, k)
  \/ EmitLookup(p)
  \/ \E e \in Events, k \in AllKeys : EmitInsert(p, e, k) \/ Enqueue(p, e, k)

Next ==
  \/ \E p \in Procs : Step(p) \/ Crash(p)
  \/ \E c \in Callers : Write(c)
  \/ \E s \in Sweepers : Sweep(s) \/ \E e \in Events : Claim(s, e)
  \/ \E e \in Events : RetryDead(e)
  \/ Tick

Spec == Init /\ [][Next]_vars

(* A process that is up goes on with what it does, each handler returns,   *)
(* the sweeper's job fires every minute, and time passes.                  *)
Fairness ==
  /\ \A p \in Procs : WF_vars(Step(p))
  /\ \A s \in Sweepers : WF_vars(Sweep(s)) /\ \A e \in Events : WF_vars(Claim(s, e))
  /\ WF_vars(Tick)

FairSpec == Spec /\ Fairness

-----------------------------------------------------------------------------
(* Properties.                                                             *)

RowsOK ==
  /\ status   \in [Events -> Statuses]
  /\ due      \in [Events -> Nat \cup {Unscheduled}]
  /\ deadAt   \in [Events -> BOOLEAN]
  /\ key      \in [Events -> AllKeys]
  /\ delivery \in [Events -> [Handlers -> [status : {"none", "ok", "failed"},
                                           attempts : 0 .. MAX_ATTEMPTS]]]
  /\ ran      \in [Events -> [Handlers -> BOOLEAN]]

MemoryOK ==
  /\ pc       \in [Procs -> {"idle", "emit", "enqueued", "load", "run", "record", "write"}]
  /\ ev       \in [Procs -> Events \cup {NoEvent}]
  /\ todo     \in [Procs -> SUBSET Handlers]
  /\ outcome  \in [Procs -> {"none", "ok", "failed"}]
  /\ verdict  \in [Procs -> [status : Statuses \cup {"none"}, wait : Nat \cup {Unscheduled}]]
  /\ batch    \in [Sweepers -> SUBSET Events]

(* Every variable keeps its type.                                          *)
TypeOK == RowsOK /\ MemoryOK

(* events.py L14-21: an event called processed has had every one of its    *)
(* handlers complete, however deliveries overlap, crash and retry.         *)
ProcessedMeansEveryHandlerRan ==
  \A e \in Events : status[e] = "processed" => \A h \in Handlers : ran[e][h]

(* _claim L324: while every delivery ends within its lease or grace, one   *)
(* process at a time is delivering an event.                               *)
OneDelivererAtATime ==
  \A p, q \in Procs : Delivering(p) /\ Delivering(q) /\ ev[p] = ev[q] => p = q

(* deliver L239: a handler whose success is recorded is not about to run   *)
(* again, on the retry of another handler or after a crash.                *)
RecordedSuccessIsNotRerun ==
  \A p \in Procs, h \in Handlers :
    pc[p] = "run" /\ NextHandler(p, h) => delivery[ev[p]][h].status # "ok"

(* events.py L19 "nothing is silently dropped": an event that still has to *)
(* be delivered is one that deliver_pending selects now or later.          *)
OpenEventsCanBeSelected ==
  \A e \in Events : status[e] \in Open => due[e] >= 0 /\ ~deadAt[e]

(* _finish: an event given up has a handler whose last outcome is a        *)
(* failure.  (Not that it counts MAX_ATTEMPTS: retry_dead resets the count *)
(* even of an event that is not dead, L395.)                               *)
DeadMeansAHandlerFailed ==
  \A e \in Events : status[e] = "dead" => Failed(e) # {}

(* emit L75: no step takes an event out of "processed".                    *)
ProcessedIsFinal ==
  [][\A e \in Events : status[e] = "processed" => status'[e] = "processed"]_vars

(* A crash or a lost write at any point only delays an event: once they and*)
(* an administrator's retries stop, what is stored ends processed, or dead *)
(* for an administrator to see.                                            *)
Quiet == <>[][\A p \in Procs, e \in Events :
                ~Crash(p) /\ ~LoseRecord(p) /\ ~LoseFinish(p) /\ ~RetryDead(e)]_vars
EveryEventSettles ==
  Quiet => \A e \in Events : status[e] \in Open ~> status[e] \in {"processed", "dead"}

(* What the bus promises whoever emits: EventLife, with pending and failed *)
(* both open and an uncommitted row not there yet.                         *)
Stage(e) ==
  CASE status[e] \in Open                  -> "open"
    [] status[e] \in {"processed", "dead"} -> status[e]
    [] OTHER                               -> "absent"
Done(e) == \A h \in Handlers : ran[e][h]

Promise == INSTANCE EventLife WITH st <- [e \in Events |-> Stage(e)],
                                   handled <- [e \in Events |-> Done(e)]

(* events.py L14-21, policy_publication.py L417-433: the bus keeps the     *)
(* promise the publisher relies on, in every overlap of deliveries, as long*)
(* as it can write its books.                                              *)
KeepsPromise == Promise!Spec
=============================================================================
