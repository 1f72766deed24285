---------------------------- MODULE EmailOutbox ----------------------------
(***************************************************************************)
(* The email outbox of oneforall/core/email_outbox.py: producers ask for   *)
(* messages, one worker in every server process (core/reminder_scheduler)  *)
(* passes over what is due once a minute, and administrators pause, requeue*)
(* and let old rows be purged.                                             *)
(*                                                                         *)
(* A worker is cut where it commits: after the selection, after each claim,*)
(* before the provider is called, and before the result is written.  Two   *)
(* values it keeps across those points matter: the time its pass started   *)
(* (`now`), which stamps every lease and retry of the pass, and the rows   *)
(* as they were selected.                                                  *)
(*                                                                         *)
(* Data abstracted: recipients, templates and records are the outcome of   *)
(* the checks on them (CheckStops, Postpone); the clock counts units within*)
(* one day and Tomorrow lies past its end.  One id is one dedupe key.      *)
(***************************************************************************)
EXTENDS Integers, FiniteSets

CONSTANTS
  Rows,          \* ids of deliveries, in the order they are given out
  Critical,      \* those whose priority is critical
  Workers,       \* one per server process
  LEASE, MAX_ATTEMPTS, BACKOFF, MAX_AGE, DAILY_CAP, CRITICAL_CEILING, PER_MINUTE, RETENTION,
  LATER,         \* wait after an unexpected error
  QUIET,         \* how long a person's quiet hours still last
  Answers,       \* what the provider may answer
  MaxTime,       \* bound on the clock
  Pace,          \* what bounds the time spent: "pass", "message" or "any"
  MayCrash,      \* a worker may die, and the write of a result may fail
  AdminActs      \* administrators requeue and pause

(* "refused" is a failure the provider calls permanent.                    *)
AllAnswers == {"accepted", "logged", "suppressed", "failed", "refused"}

ASSUME OutboxAssumption ==
  /\ Rows \subseteq Nat /\ IsFiniteSet(Rows) /\ Critical \subseteq Rows
  /\ IsFiniteSet(Workers) /\ Workers # {}
  /\ LEASE \in Nat \ {0} /\ MAX_ATTEMPTS \in Nat \ {0}
  /\ BACKOFF \in [1 .. MAX_ATTEMPTS -> Nat \ {0}]
  /\ MAX_AGE \in Nat /\ RETENTION \in Nat /\ LATER \in Nat \ {0} /\ QUIET \in Nat \ {0}
  /\ DAILY_CAP \in Nat /\ CRITICAL_CEILING \in Nat \ {0} /\ PER_MINUTE \in Nat
  /\ MaxTime \in Nat /\ Answers \subseteq AllAnswers
  /\ Pace \in {"pass", "message", "any"} /\ MayCrash \in BOOLEAN /\ AdminActs \in BOOLEAN

VARIABLES
  clock,
  row,       \* the email_outbox table
  paused,    \* settings.email_outbox_paused
  pc, start, batch, seen, held, result, budget,  \* a worker and its pass
  claimedAt, \* history, kept where Pace looks at it: when the held row was claimed
  past       \* history of a row since it was asked for or requeued

pass == <<start, batch, seen, budget>>
vars == <<clock, row, paused, pc, start, batch, seen, held, result, budget, claimedAt, past>>

NoTime  == -1
NoRow   == -1
Tomorrow == MaxTime + 1
Waiting == {"queued", "retry_due"}
Ended   == {"provider_accepted", "suppressed", "permanent_failure", "logged_only"}

Absent  == [status |-> "none", attempts |-> 0, nextAt |-> NoTime, leased |-> NoTime, created |-> 0]
Blank   == [handed |-> 0, accepted |-> 0, lost |-> 0]

Init ==
  /\ clock = 0
  /\ row = [r \in Rows |-> Absent]
  /\ paused = FALSE
  /\ pc = [w \in Workers |-> "idle"]
  /\ start = [w \in Workers |-> 0]
  /\ batch = [w \in Workers |-> {}]
  /\ seen = [w \in Workers |-> [r \in Rows |-> 0]]
  /\ held = [w \in Workers |-> NoRow]
  /\ result = [w \in Workers |-> "none"]
  /\ budget = [w \in Workers |-> 0]
  /\ claimedAt = [w \in Workers |-> 0]
  /\ past = [r \in Rows |-> Blank]

-----------------------------------------------------------------------------
(* Producers and administrators.                                           *)

(* enqueue: an INSERT that does nothing when the dedupe key is there; the  *)
(* producer may ask for a later moment (send_after).                       *)
Enqueue(r) ==
  /\ row[r].status = "none"
  /\ \E t \in {NoTime, clock + LATER} :
       row' = [row EXCEPT ![r] = [Absent EXCEPT !.status = "queued", !.created = clock, !.nextAt = t]]
  /\ UNCHANGED <<clock, paused, pc, held, result, claimedAt, pass, past>>

(* What an administrator may put back.                                     *)
MayRequeue(r) == row[r].status \in {"logged_only", "permanent_failure", "retry_due"}

Requeue(r) ==
  /\ AdminActs
  /\ MayRequeue(r)
  /\ row' = [row EXCEPT ![r] = [@ EXCEPT !.status = "queued", !.attempts = 0,
                                         !.nextAt = NoTime, !.leased = NoTime]]
  /\ past' = [past EXCEPT ![r] = [Blank EXCEPT !.accepted = past[r].accepted]]
  /\ UNCHANGED <<clock, paused, pc, held, result, claimedAt, pass>>

(* purge_old: only what has ended, once it is old.  The id is not used     *)
(* again: whoever asks once more gets a row of its own.                    *)
Purge(r) ==
  /\ row[r].status \in Ended
  /\ clock - row[r].created > RETENTION
  /\ row' = [row EXCEPT ![r] = [Absent EXCEPT !.status = "purged"]]
  /\ UNCHANGED <<clock, paused, pc, held, result, claimedAt, pass, past>>

SetPaused ==
  /\ AdminActs
  /\ paused' = ~paused
  /\ UNCHANGED <<clock, row, pc, held, result, claimedAt, pass, past>>

-----------------------------------------------------------------------------
(* deliver_due: the pass.                                                  *)

Rank(r) == IF r \in Critical THEN 0 ELSE 1
Before(r, k) == Rank(r) < Rank(k) \/ (Rank(r) = Rank(k) /\ r <= k)

(* Waiting rows whose time has come, and rows whose lease has run out.     *)
DueAt(r, t) ==
  \/ /\ row[r].status \in Waiting
     /\ row[r].nextAt <= t
     /\ row[r].leased < t
  \/ row[r].status = "sending" /\ row[r].leased < t

Selection == {r \in Rows : DueAt(r, clock) /\ (paused => r \in Critical)}

StartPass(w) ==
  /\ pc[w] = "idle"
  /\ Selection # {}
  /\ pc'     = [pc EXCEPT ![w] = "pass"]
  /\ start'  = [start EXCEPT ![w] = clock]
  /\ batch'  = [batch EXCEPT ![w] = Selection]
  /\ seen'   = [seen EXCEPT ![w] = [r \in Rows |-> IF r \in Selection THEN row[r].attempts ELSE 0]]
  /\ budget' = [budget EXCEPT ![w] = PER_MINUTE]
  /\ UNCHANGED <<clock, row, paused, held, result, claimedAt, past>>

Forget(w) ==
  /\ pc'     = [pc EXCEPT ![w] = "idle"]
  /\ start'  = [start EXCEPT ![w] = 0]
  /\ batch'  = [batch EXCEPT ![w] = {}]
  /\ seen'   = [seen EXCEPT ![w] = [r \in Rows |-> 0]]
  /\ budget' = [budget EXCEPT ![w] = 0]
  /\ held'   = [held EXCEPT ![w] = NoRow]
  /\ result' = [result EXCEPT ![w] = "none"]
  /\ claimedAt' = [claimedAt EXCEPT ![w] = 0]

NextInBatch(w, r) == r \in batch[w] /\ \A k \in batch[w] : Before(r, k)

(* Ordinary mail without budget.  (Slip: off by one.)                      *)
Slip_Unaffordable(w, r) == r \notin Critical /\ budget[w] < 0
Unaffordable(w, r) == r \notin Critical /\ budget[w] <= 0

(* The list is done, or what is left is ordinary mail without budget.      *)
EndPass(w) ==
  /\ pc[w] = "pass"
  /\ batch[w] = {} \/ \E r \in batch[w] : NextInBatch(w, r) /\ Unaffordable(w, r)
  /\ Forget(w)
  /\ UNCHANGED <<clock, row, paused, past>>

(* What the compare-and-set asks again of a selected row: not its time.    *)
(* (Slip: a row another worker holds is taken.)                            *)
Slip_MayClaim(w, r) == row[r].status \in Waiting \cup {"sending"}
MayClaim(w, r) ==
  row[r].status \in Waiting \/ (row[r].status = "sending" /\ row[r].leased < start[w])

Claim(w) ==
  /\ pc[w] = "pass"
  /\ \E r \in batch[w] :
       /\ NextInBatch(w, r)
       /\ ~Unaffordable(w, r)
       /\ batch' = [batch EXCEPT ![w] = @ \ {r}]
       /\ \/ /\ MayClaim(w, r)
             /\ row' = [row EXCEPT ![r] = [@ EXCEPT !.status = "sending",
                                                    !.leased = start[w] + LEASE]]
             /\ pc' = [pc EXCEPT ![w] = "check"]
             /\ held' = [held EXCEPT ![w] = r]
             /\ claimedAt' = [claimedAt EXCEPT ![w] = IF Pace = "message" THEN clock ELSE 0]
          \/ ~MayClaim(w, r) /\ UNCHANGED <<row, pc, held, claimedAt>>
  /\ UNCHANGED <<clock, paused, start, seen, budget, result, past>>

-----------------------------------------------------------------------------
(* _deliver_one.                                                           *)

(* done(): an update by id, whoever holds the row by now.                  *)
Done(w, status, attempts, nextAt) ==
  row' = IF row[held[w]].status = "purged" THEN row
         ELSE [row EXCEPT ![held[w]] = [@ EXCEPT !.status = status, !.leased = NoTime,
                                                 !.attempts = attempts, !.nextAt = nextAt]]

Kept(w) == row[held[w]]

NextMessage(w) ==
  /\ pc'     = [pc EXCEPT ![w] = "pass"]
  /\ held'   = [held EXCEPT ![w] = NoRow]
  /\ result' = [result EXCEPT ![w] = "none"]
  /\ claimedAt' = [claimedAt EXCEPT ![w] = 0]

AcceptedToday == Cardinality({r \in Rows : row[r].status = "provider_accepted"})
Ceiling(r) == IF r \in Critical THEN DAILY_CAP * CRITICAL_CEILING ELSE DAILY_CAP

(* Room under the cap.  (Slip: one too many.)                              *)
Slip_HasRoom(r) == AcceptedToday <= Ceiling(r)
HasRoom(r) == AcceptedToday < Ceiling(r)

(* The person left, turned mail off, has done the work, lost it to someone *)
(* else or may not open the record.                                        *)
Suppressed(w) == Done(w, "suppressed", Kept(w).attempts, Kept(w).nextAt)

(* The template no longer renders.                                         *)
Unrenderable(w) ==
  HasRoom(held[w]) /\ Done(w, "permanent_failure", Kept(w).attempts, Kept(w).nextAt)

CheckStops(w) ==
  /\ pc[w] = "check"
  /\ Suppressed(w) \/ Unrenderable(w)
  /\ NextMessage(w)
  /\ UNCHANGED <<clock, paused, pass, past>>

(* Ordinary mail waits for the end of the person's quiet hours,            *)
QuietHours(w) ==
  held[w] \notin Critical /\ Done(w, "retry_due", Kept(w).attempts, start[w] + QUIET)

(* and any mail, once the cap is reached, for the next day.                *)
CapReached(w) == ~HasRoom(held[w]) /\ Done(w, "retry_due", Kept(w).attempts, Tomorrow)

(* Neither counts as an attempt.                                           *)
Postpone(w) ==
  /\ pc[w] = "check"
  /\ QuietHours(w) \/ CapReached(w)
  /\ NextMessage(w)
  /\ UNCHANGED <<clock, paused, pass, past>>

(* The attempt this is, from the row as it was selected.                   *)
Attempt(w) == seen[w][held[w]] + 1

(* History: an answer of the provider that is not written.                 *)
Unheard(p) == [p EXCEPT !.lost = p.lost + 1]
LoseAnswer(w) ==
  past' = IF pc[w] = "write" THEN [past EXCEPT ![held[w]] = Unheard(past[held[w]])] ELSE past

(* An exception, in the checks or in the write of the result: rolled back  *)
(* and tried again later, an attempt counted.                              *)
Unexpected(w) ==
  /\ pc[w] = "check" \/ (pc[w] = "write" /\ MayCrash)
  /\ Done(w, "retry_due", Attempt(w), start[w] + LATER)
  /\ NextMessage(w)
  /\ LoseAnswer(w)
  /\ UNCHANGED <<clock, paused, pass>>

(* The checks pass and the read transaction ends.                          *)
Cleared(w) ==
  /\ pc[w] = "check"
  /\ HasRoom(held[w])
  /\ pc' = [pc EXCEPT ![w] = "send"]
  /\ UNCHANGED <<clock, row, paused, held, result, claimedAt, pass, past>>

(* The provider is called.                                                 *)
Handed(p, o) ==
  [p EXCEPT !.handed = p.handed + 1, !.accepted = p.accepted + (IF o = "accepted" THEN 1 ELSE 0)]

Send(w, o) ==
  /\ pc[w] = "send"
  /\ pc' = [pc EXCEPT ![w] = "write"]
  /\ result' = [result EXCEPT ![w] = o]
  /\ past' = [past EXCEPT ![held[w]] = Handed(past[held[w]], o)]
  /\ budget' = [budget EXCEPT ![w] = IF held[w] \in Critical THEN @ ELSE @ - 1]
  /\ UNCHANGED <<clock, row, paused, held, claimedAt, start, batch, seen>>

(* When a failure is the last one.  (Slip: one attempt too many.)          *)
Slip_GivesUp(w) ==
  \/ result[w] = "refused"
  \/ Attempt(w) > MAX_ATTEMPTS
  \/ start[w] - row[held[w]].created > MAX_AGE
GivesUp(w) ==
  \/ result[w] = "refused"
  \/ Attempt(w) >= MAX_ATTEMPTS
  \/ start[w] - row[held[w]].created > MAX_AGE

Wait(n) == BACKOFF[IF n < MAX_ATTEMPTS THEN n ELSE MAX_ATTEMPTS]

Ending(o) == CASE o = "accepted"   -> "provider_accepted"
               [] o = "logged"     -> "logged_only"
               [] o = "suppressed" -> "suppressed"

RecordEnd(w) ==
  /\ pc[w] = "write"
  /\ result[w] \in {"accepted", "logged", "suppressed"}
  /\ Done(w, Ending(result[w]), Attempt(w), Kept(w).nextAt)
  /\ NextMessage(w)
  /\ UNCHANGED <<clock, paused, pass, past>>

(* The notice a failed critical message gives administrators is left out.  *)
RecordFailure(w) ==
  /\ pc[w] = "write"
  /\ result[w] \in {"failed", "refused"}
  /\ \/ GivesUp(w) /\ Done(w, "permanent_failure", Attempt(w), Kept(w).nextAt)
     \/ ~GivesUp(w) /\ Done(w, "retry_due", Attempt(w), start[w] + Wait(Attempt(w)))
  /\ NextMessage(w)
  /\ UNCHANGED <<clock, paused, pass, past>>

Crash(w) ==
  /\ MayCrash
  /\ pc[w] # "idle"
  /\ Forget(w)
  /\ LoseAnswer(w)
  /\ UNCHANGED <<clock, row, paused>>

InTime(w) ==
  CASE Pace = "pass"    -> pc[w] # "idle" => clock < start[w] + LEASE
    [] Pace = "message" -> held[w] # NoRow => clock < claimedAt[w] + LEASE
    [] Pace = "any"     -> TRUE

Tick ==
  /\ clock < MaxTime
  /\ \A w \in Workers : InTime(w)
  /\ clock' = clock + 1
  /\ UNCHANGED <<row, paused, pc, held, result, claimedAt, pass, past>>

Next ==
  \/ \E r \in Rows : Enqueue(r) \/ Requeue(r) \/ Purge(r)
  \/ SetPaused
  \/ \E w \in Workers :
       \/ StartPass(w) \/ EndPass(w) \/ Claim(w)
       \/ CheckStops(w) \/ Postpone(w) \/ Unexpected(w) \/ Cleared(w)
       \/ \E o \in Answers : Send(w, o)
       \/ RecordEnd(w) \/ RecordFailure(w)
       \/ Crash(w)
  \/ Tick

Spec == Init /\ [][Next]_vars

-----------------------------------------------------------------------------
Statuses == {"none", "sending", "purged"} \cup Waiting \cup Ended
Times == Nat \cup {NoTime}
RowType  == [status : Statuses, attempts : Nat, nextAt : Times, leased : Times, created : Nat]
PastType == [handed : Nat, accepted : Nat, lost : Nat]

(* What the table, the workers' passes and the histories are made of; the  *)
(* attempt counter counts nothing but attempts.                            *)
TypeOK ==
  /\ clock \in 0 .. MaxTime /\ paused \in BOOLEAN
  /\ row \in [Rows -> RowType]
  /\ pc \in [Workers -> {"idle", "pass", "check", "send", "write"}]
  /\ start \in [Workers -> Nat] /\ claimedAt \in [Workers -> Nat] /\ budget \in [Workers -> Nat]
  /\ batch \in [Workers -> SUBSET Rows]
  /\ seen \in [Workers -> [Rows -> Nat]]
  /\ held \in [Workers -> Rows \cup {NoRow}]
  /\ result \in [Workers -> Answers \cup {"none"}]
  /\ past \in [Rows -> PastType]
  /\ \A w \in Workers : held[w] \in Rows <=> pc[w] \in {"check", "send", "write"}
  /\ \A w \in Workers : pc[w] = "write" <=> result[w] # "none"

(* A message the provider has accepted is accepted once, and the table says*)
(* so or is about to: `deliver_due` is safe to run from several workers.   *)
AcceptedOnce ==
  \A r \in Rows :
    /\ past[r].accepted <= 1
    /\ past[r].accepted = 1 =>
         \/ row[r].status \in {"provider_accepted", "purged"}
         \/ \E w \in Workers : held[w] = r /\ result[w] = "accepted"

(* No step of anyone, an administrator's requeue included, puts back a     *)
(* message the provider took; it stays until it is purged.                 *)
AcceptedIsFinal ==
  [][\A r \in Rows : row[r].status = "provider_accepted"
                       => row'[r].status \in {"provider_accepted", "purged"}]_vars

(* The daily caps are a count of the table, read before the send and not   *)
(* reserved, so workers can pass them together: ordinary mail its cap and  *)
(* all mail the critical ceiling, each by no more than one message for each*)
(* of the other workers.  Counted is what the provider really accepted,    *)
(* while passes end within their lease and no worker dies: an acceptance   *)
(* the table has lost is not counted by the code and lets one more through.*)
Taken == {r \in Rows : past[r].accepted > 0}
CapBound ==
  /\ Cardinality(Taken) <= DAILY_CAP * CRITICAL_CEILING + Cardinality(Workers) - 1
  /\ Cardinality(Taken \ Critical) <= DAILY_CAP + Cardinality(Workers) - 1

(* _deliver_one L350: until an administrator requeues a message, the       *)
(* provider is asked for it at most MAX_ATTEMPTS times, and once more for  *)
(* each answer lost to a worker's death or to a failed write.              *)
SendsWithinAttempts == \A r \in Rows : past[r].handed <= MAX_ATTEMPTS + past[r].lost
=============================================================================
