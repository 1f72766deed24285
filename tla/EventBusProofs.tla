--------------------------- MODULE EventBusProofs ---------------------------
(* Invariance proofs for the event bus.                                    *)
EXTENDS EventBus, TLAPS

(* The waits the bus writes are times, or NULL for an event that is settled.*)
LEMMA VerdictType ==
  ASSUME TypeOK, NEW e \in Events
  PROVE  /\ Verdict(e) \in [status : {"processed", "dead", "failed"}, wait : Nat \cup {Unscheduled}]
         /\ Verdict(e).status = "failed" => Verdict(e).wait \in Nat
         /\ Verdict(e).status = "processed" <=> Failed(e) = {}
<1>1. \A n : Backoff(n) \in Nat
  BY BusAssumption DEF Backoff
<1>2. CASE Failed(e) = {}
  BY <1>2 DEF Verdict
<1>3. CASE Failed(e) # {} /\ MostAttempts(e) >= MAX_ATTEMPTS
  BY <1>3 DEF Verdict
<1>4. CASE Failed(e) # {} /\ ~(MostAttempts(e) >= MAX_ATTEMPTS)
  <2>1. Verdict(e) = [status |-> "failed", wait |-> Backoff(MostAttempts(e))]
    BY <1>4 DEF Verdict
  <2> QED BY <1>1, <1>4, <2>1
<1> QED BY <1>2, <1>3, <1>4

(* Returning from a call, and entering deliver, keep the memory typed.      *)
LEMMA ReturnTypes ==
  ASSUME NEW p \in Procs, MemoryOK, Return(p), batch' \in [Sweepers -> SUBSET Events]
  PROVE  MemoryOK'
BY DEF MemoryOK, Return, NoVerdict

LEMMA StartTypes ==
  ASSUME NEW p \in Procs, NEW e \in Events \cup {NoEvent}, MemoryOK, StartDelivery(p, e),
         UNCHANGED <<todo, outcome, verdict>>, batch' \in [Sweepers -> SUBSET Events]
  PROVE  MemoryOK'
BY DEF MemoryOK, StartDelivery

LEMMA UndoTypes ==
  ASSUME RowsOK, NEW e, UndoInsert(e) PROVE RowsOK'
BY DEF RowsOK, UndoInsert, Statuses, AllKeys, Unscheduled

LEMMA InsertTypes ==
  ASSUME RowsOK, NEW e, NEW k \in AllKeys, NEW s \in Statuses, NEW w \in Nat, InsertRow(e, k, s, w)
  PROVE  RowsOK'
BY DEF RowsOK, InsertRow

(* What a process holds at each point of deliver.                          *)
PhaseOK ==
  \A p \in Procs :
    /\ Delivering(p) \/ pc[p] = "enqueued" => ev[p] \in Events
    /\ pc[p] = "record" => outcome[p] \in {"ok", "failed"}
    /\ pc[p] = "write"  => /\ verdict[p].status \in {"processed", "dead", "failed"}
                           /\ verdict[p].status = "failed" => verdict[p].wait \in Nat

LEMMA TypeStep ==
  ASSUME RowsOK, MemoryOK, PhaseOK, [Next]_vars
  PROVE  RowsOK' /\ MemoryOK'
<1> USE BusAssumption
<1>1. CASE UNCHANGED vars
  BY <1>1 DEF vars, RowsOK, MemoryOK
<1>2. ASSUME NEW p \in Procs, CommitSource(p) PROVE RowsOK' /\ MemoryOK'
  <2>1. RowsOK'
    BY <1>2 DEF CommitSource, RowsOK, Statuses
  <2>2. batch' \in [Sweepers -> SUBSET Events] /\ ev[p] \in Events \cup {NoEvent}
    BY <1>2 DEF CommitSource, MemoryOK
  <2>3. CASE Return(p)
    BY <2>1, <2>2, <2>3, ReturnTypes
  <2>4. CASE StartDelivery(p, ev[p]) /\ UNCHANGED <<todo, outcome, verdict>>
    BY <2>1, <2>2, <2>4, StartTypes
  <2> QED BY <1>2, <2>3, <2>4 DEF CommitSource
<1>3. ASSUME NEW p \in Procs, RollbackSource(p) PROVE RowsOK' /\ MemoryOK'
  <2>1. batch' \in [Sweepers -> SUBSET Events]
    BY <1>3 DEF RollbackSource, MemoryOK
  <2> QED BY <1>3, <2>1, UndoTypes, ReturnTypes DEF RollbackSource
<1>4. ASSUME NEW p \in Procs, Load(p) PROVE RowsOK' /\ MemoryOK'
  <2>1. RowsOK' /\ batch' \in [Sweepers -> SUBSET Events]
    BY <1>4 DEF Load, rows, RowsOK, MemoryOK
  <2>2. CASE Return(p)
    BY <2>1, <2>2, ReturnTypes
  <2>3. CASE ~Return(p)
    <3>1. /\ pc' = [pc EXCEPT ![p] = "run"]
          /\ todo' = [todo EXCEPT ![p] = Remaining(ev[p])]
          /\ UNCHANGED <<ev, outcome, verdict>>
      BY <1>4, <2>3 DEF Load
    <3>2. Remaining(ev[p]) \in SUBSET Handlers
      BY DEF Remaining
    <3> QED BY <2>1, <3>1, <3>2 DEF MemoryOK
  <2> QED BY <2>2, <2>3
<1>5. ASSUME NEW p \in Procs, NEW o \in {"ok", "failed"}, RunHandler(p, o) PROVE RowsOK' /\ MemoryOK'
  <2>1. PICK h \in todo[p] : ran' = [ran EXCEPT ![ev[p]][h] = @ \/ o = "ok"]
    BY <1>5 DEF RunHandler
  <2>2. h \in Handlers
    BY DEF MemoryOK
  <2>3. ran' \in [Events -> [Handlers -> BOOLEAN]]
    BY <2>1, <2>2 DEF RowsOK
  <2>4. RowsOK'
    BY <1>5, <2>3 DEF RunHandler, RowsOK
  <2> QED BY <1>5, <2>4 DEF RunHandler, MemoryOK
<1>6. ASSUME NEW p \in Procs, RecordDelivery(p) PROVE RowsOK' /\ MemoryOK'
  <2> DEFINE Row == [status : {"none", "ok", "failed"}, attempts : 0 .. MAX_ATTEMPTS]
  <2>1. PICK h \in todo[p] :
          /\ delivery' = [delivery EXCEPT ![ev[p]][h] =
                            [status |-> outcome[p], attempts |-> OneMore(@.attempts)]]
          /\ todo' = [todo EXCEPT ![p] = @ \ {h}]
    BY <1>6 DEF RecordDelivery
  <2>2. h \in Handlers /\ outcome[p] \in {"none", "ok", "failed"}
    BY DEF MemoryOK
  <2>3. delivery \in [Events -> [Handlers -> Row]]
    BY DEF RowsOK
  <2>4. \A r \in Row : [status |-> outcome[p], attempts |-> OneMore(r.attempts)] \in Row
    BY <2>2 DEF OneMore
  <2>5. delivery' \in [Events -> [Handlers -> Row]]
    <3> HIDE DEF Row
    <3>1. CASE ev[p] \in Events
      <4>1. delivery[ev[p]][h] \in Row
        BY <2>2, <2>3, <3>1
      <4> DEFINE new == [status |-> outcome[p], attempts |-> OneMore(delivery[ev[p]][h].attempts)]
      <4>2. new \in Row
        BY <2>4, <4>1
      <4>3. delivery' = [delivery EXCEPT ![ev[p]] = [delivery[ev[p]] EXCEPT ![h] = new]]
        BY <2>1
      <4> HIDE DEF new
      <4> QED BY <2>2, <2>3, <3>1, <4>2, <4>3
    <3>2. CASE ev[p] \notin Events
      BY <2>1, <2>3, <3>2
    <3> QED BY <3>1, <3>2
  <2>6. RowsOK'
    BY <1>6, <2>5 DEF RecordDelivery, RowsOK
  <2> QED BY <1>6, <2>1, <2>6 DEF RecordDelivery, MemoryOK
<1>7. ASSUME NEW p \in Procs, LoseRecord(p) PROVE RowsOK' /\ MemoryOK'
  BY <1>7 DEF LoseRecord, rows, RowsOK, MemoryOK
<1>8. ASSUME NEW p \in Procs, FinishRead(p) PROVE RowsOK' /\ MemoryOK'
  <2>1. RowsOK' /\ verdict' = [verdict EXCEPT ![p] = Verdict(ev[p])]
    BY <1>8 DEF FinishRead, rows, RowsOK
  <2>2. Verdict(ev[p]) \in [status : Statuses \cup {"none"}, wait : Nat \cup {Unscheduled}]
    BY <1>8, VerdictType DEF FinishRead, PhaseOK, Delivering, Statuses, TypeOK
  <2> QED BY <1>8, <2>1, <2>2 DEF FinishRead, MemoryOK
<1>9. ASSUME NEW p \in Procs, FinishWrite(p) PROVE RowsOK' /\ MemoryOK'
  <2>1. verdict[p].status \in Statuses
    BY <1>9 DEF FinishWrite, PhaseOK, Statuses
  <2>2. verdict[p].wait \in Nat \cup {Unscheduled}
    BY DEF MemoryOK
  <2>3. RowsOK' /\ batch' \in [Sweepers -> SUBSET Events]
    BY <1>9, <2>1, <2>2 DEF FinishWrite, RowsOK, MemoryOK
  <2> QED BY <1>9, <2>3, ReturnTypes DEF FinishWrite
<1>10. ASSUME NEW p \in Procs, LoseFinish(p) PROVE RowsOK' /\ MemoryOK'
  <2>1. RowsOK' /\ batch' \in [Sweepers -> SUBSET Events]
    BY <1>10 DEF LoseFinish, rows, RowsOK, MemoryOK
  <2> QED BY <1>10, <2>1, ReturnTypes DEF LoseFinish
<1>11. ASSUME NEW p \in Procs, Crash(p) PROVE RowsOK' /\ MemoryOK'
  <2>1. batch' \in [Sweepers -> SUBSET Events]
    BY <1>11 DEF Crash, MemoryOK
  <2>2. RowsOK'
    BY <1>11, UndoTypes DEF Crash, rows, RowsOK
  <2> QED BY <1>11, <2>1, <2>2, ReturnTypes DEF Crash
<1>12. ASSUME NEW p \in Callers, NEW k \in Keys, EmitReplay(p, k) \/ EnqueueRepeat(p, k)
       PROVE  RowsOK' /\ MemoryOK'
  <2>1. PICK e \in Events : StartDelivery(p, e)
    BY <1>12 DEF EmitReplay, EnqueueRepeat, Holder
  <2>2. RowsOK' /\ UNCHANGED <<todo, outcome, verdict>> /\ batch' \in [Sweepers -> SUBSET Events]
    BY <1>12 DEF EmitReplay, EnqueueRepeat, rows, RowsOK, MemoryOK
  <2> QED BY <2>1, <2>2, StartTypes DEF Procs
<1>13. ASSUME NEW p \in Callers, NEW k \in Keys, EmitLost(p, k) PROVE RowsOK' /\ MemoryOK'
  <2>1. RowsOK' /\ batch' \in [Sweepers -> SUBSET Events]
    BY <1>13 DEF EmitLost, rows, RowsOK, MemoryOK
  <2> QED BY <1>13, <2>1, ReturnTypes DEF EmitLost, Procs
<1>14. ASSUME NEW p \in Callers, EmitLookup(p) PROVE RowsOK' /\ MemoryOK'
  BY <1>14 DEF EmitLookup, rows, RowsOK, MemoryOK, Procs
<1>15. ASSUME NEW p \in Callers, NEW e \in Events, NEW k \in AllKeys, EmitInsert(p, e, k)
       PROVE  RowsOK' /\ MemoryOK'
  <2>1. RowsOK'
    BY <1>15, InsertTypes DEF EmitInsert, Statuses
  <2>2. batch' \in [Sweepers -> SUBSET Events]
    BY <1>15 DEF EmitInsert, MemoryOK
  <2> QED BY <1>15, <2>1, <2>2, StartTypes DEF EmitInsert, Procs
<1>16. ASSUME NEW p \in Callers, NEW e \in Events, NEW k \in AllKeys, Enqueue(p, e, k)
       PROVE  RowsOK' /\ MemoryOK'
  <2>1. RowsOK'
    BY <1>16, InsertTypes DEF Enqueue, Statuses
  <2> QED BY <1>16, <2>1 DEF Enqueue, MemoryOK, Procs
<1>17. ASSUME NEW s \in Sweepers, Sweep(s) PROVE RowsOK' /\ MemoryOK'
  BY <1>17 DEF Sweep, rows, RowsOK, MemoryOK
<1>18. ASSUME NEW s \in Sweepers, NEW e \in Events, Claim(s, e) PROVE RowsOK' /\ MemoryOK'
  <2>1. batch' \in [Sweepers -> SUBSET Events]
    BY <1>18 DEF Claim, MemoryOK
  <2>2. RowsOK'
    BY <1>18 DEF Claim, RowsOK
  <2> QED BY <1>18, <2>1, <2>2, StartTypes DEF Claim, MemoryOK, Procs
<1>19. ASSUME NEW e \in Events, RetryDead(e) PROVE RowsOK' /\ MemoryOK'
  <2> DEFINE Row == [status : {"none", "ok", "failed"}, attempts : 0 .. MAX_ATTEMPTS]
             reset == [h \in Handlers |-> IF delivery[e][h].status = "failed"
                                          THEN [delivery[e][h] EXCEPT !.attempts = 0]
                                          ELSE delivery[e][h]]
  <2>1. delivery' = [delivery EXCEPT ![e] = reset]
    BY <1>19 DEF RetryDead
  <2>2. reset \in [Handlers -> Row]
    <3>1. \A h \in Handlers : delivery[e][h] \in Row
      BY DEF RowsOK
    <3>2. \A r \in Row : [r EXCEPT !.attempts = 0] \in Row
      OBVIOUS
    <3> HIDE DEF Row
    <3> QED BY <3>1, <3>2
  <2>3. delivery' \in [Events -> [Handlers -> Row]]
    <3> HIDE DEF reset, Row
    <3>1. delivery \in [Events -> [Handlers -> Row]]
      BY DEF RowsOK, Row
    <3> QED BY <2>1, <2>2, <3>1
  <2>4. RowsOK'
    <3>1. CASE MayRevive(e)
      <4>1. /\ status' = [status EXCEPT ![e] = "pending"]
            /\ due' = [due EXCEPT ![e] = 0]
            /\ deadAt' = [deadAt EXCEPT ![e] = FALSE]
        BY <1>19, <3>1 DEF RetryDead, MarkAfterRetry
      <4>2. /\ status' \in [Events -> Statuses]
            /\ due' \in [Events -> Nat \cup {Unscheduled}]
            /\ deadAt' \in [Events -> BOOLEAN]
        BY <4>1 DEF RowsOK, Statuses
      <4> QED BY <1>19, <2>3, <4>2 DEF RetryDead, RowsOK
    <3>2. CASE ~MayRevive(e)
      BY <1>19, <2>3, <3>2 DEF RetryDead, RowsOK
    <3> QED BY <3>1, <3>2
  <2> QED BY <1>19, <2>4 DEF RetryDead, MemoryOK
<1>20. CASE Tick
  BY <1>20 DEF Tick, Elapse, RowsOK, MemoryOK, local, Unscheduled
<1> QED
  BY <1>1, <1>2, <1>3, <1>4, <1>5, <1>6, <1>7, <1>8, <1>9, <1>10, <1>11, <1>12, <1>13, <1>14, <1>15,
     <1>16, <1>17, <1>18, <1>19, <1>20 DEF Next, Step, Bookkeep, Write

(* A step changes what one process holds.                                  *)
LEMMA PhaseStep ==
  ASSUME TypeOK, PhaseOK, [Next]_vars
  PROVE  PhaseOK'
<1> DEFINE Good(q) == /\ Delivering(q) \/ pc[q] = "enqueued" => ev[q] \in Events
                      /\ pc[q] = "record" => outcome[q] \in {"ok", "failed"}
                      /\ pc[q] = "write"  => /\ verdict[q].status \in {"processed", "dead", "failed"}
                                             /\ verdict[q].status = "failed" => verdict[q].wait \in Nat
<1> SUFFICES ASSUME NEW q \in Procs PROVE Good(q)'
  BY DEF PhaseOK
<1>0. Good(q)
  BY DEF PhaseOK
<1> USE DEF TypeOK, MemoryOK, Delivering
<1>1. CASE UNCHANGED <<pc, ev, outcome, verdict>>
  BY <1>0, <1>1
<1>2. ASSUME NEW p \in Procs, Return(p) PROVE Good(q)'
  BY <1>0, <1>2 DEF Return
<1>3. ASSUME NEW p \in Procs, NEW e \in Events, StartDelivery(p, e), UNCHANGED <<outcome, verdict>>
      PROVE  Good(q)'
  BY <1>0, <1>3 DEF StartDelivery
<1>4. ASSUME NEW p \in Procs, CommitSource(p) PROVE Good(q)'
  <2>1. ev[p] \in Events
    BY <1>4 DEF CommitSource, PhaseOK
  <2> QED BY <1>2, <1>3, <1>4, <2>1 DEF CommitSource
<1>5. ASSUME NEW p \in Procs, RollbackSource(p) \/ LoseFinish(p) \/ FinishWrite(p) \/ Crash(p)
             \/ \E k \in Keys : EmitLost(p, k)
      PROVE  Good(q)'
  BY <1>2, <1>5 DEF RollbackSource, LoseFinish, FinishWrite, Crash, EmitLost
<1>6. ASSUME NEW p \in Procs, Load(p) PROVE Good(q)'
  <2>1. CASE Return(p)
    BY <1>2, <2>1
  <2>2. CASE pc[p] = "load" /\ pc' = [pc EXCEPT ![p] = "run"] /\ UNCHANGED <<ev, outcome, verdict>>
    BY <1>0, <2>2
  <2> QED BY <1>6, <2>1, <2>2 DEF Load
<1>7. ASSUME NEW p \in Procs, NEW o \in {"ok", "failed"}, RunHandler(p, o) PROVE Good(q)'
  BY <1>0, <1>7 DEF RunHandler
<1>8. ASSUME NEW p \in Procs, RecordDelivery(p) \/ LoseRecord(p) PROVE Good(q)'
  BY <1>0, <1>8 DEF RecordDelivery, LoseRecord
<1>9. ASSUME NEW p \in Procs, FinishRead(p) PROVE Good(q)'
  <2>1. ev[p] \in Events
    BY <1>9 DEF FinishRead, PhaseOK
  <2>2. /\ Verdict(ev[p]).status \in {"processed", "dead", "failed"}
        /\ Verdict(ev[p]).status = "failed" => Verdict(ev[p]).wait \in Nat
    BY <2>1, VerdictType
  <2> QED BY <1>0, <1>9, <2>1, <2>2 DEF FinishRead
<1>10. ASSUME NEW p \in Callers, NEW k \in Keys, EmitReplay(p, k) \/ EnqueueRepeat(p, k) PROVE Good(q)'
  BY <1>3, <1>10 DEF EmitReplay, EnqueueRepeat, Holder, Procs
<1>11. ASSUME NEW p \in Callers, EmitLookup(p) PROVE Good(q)'
  BY <1>0, <1>11 DEF EmitLookup, Procs
<1>12. ASSUME NEW p \in Callers, NEW e \in Events, NEW k \in AllKeys, EmitInsert(p, e, k) PROVE Good(q)'
  BY <1>3, <1>12 DEF EmitInsert, Procs
<1>13. ASSUME NEW p \in Callers, NEW e \in Events, NEW k \in AllKeys, Enqueue(p, e, k) PROVE Good(q)'
  BY <1>0, <1>13 DEF Enqueue, Procs
<1>14. ASSUME NEW s \in Sweepers, NEW e \in Events, Claim(s, e) PROVE Good(q)'
  BY <1>1, <1>3, <1>14 DEF Claim, Procs
<1>15. ASSUME NEW s \in Sweepers, Sweep(s) PROVE Good(q)'
  BY <1>1, <1>15 DEF Sweep
<1>16. ASSUME NEW e \in Events, RetryDead(e) PROVE Good(q)'
  BY <1>1, <1>16 DEF RetryDead
<1>17. CASE Tick \/ UNCHANGED vars
  BY <1>1, <1>17 DEF Tick, vars, local
<1> HIDE DEF Good
<1> QED
  BY <1>4, <1>5, <1>6, <1>7, <1>8, <1>9, <1>10, <1>11, <1>12, <1>13, <1>14, <1>15, <1>16, <1>17
  DEF Next, Step, Bookkeep, Write, Procs

(* Every variable keeps its type, and a process at a point of deliver holds *)
(* what that point needs.                                                  *)
THEOREM TypeInv == Spec => [](TypeOK /\ PhaseOK)
<1>1. Init => TypeOK /\ PhaseOK
  BY BusAssumption DEF Init, TypeOK, RowsOK, MemoryOK, Statuses, AllKeys, NoRow, NoVerdict, Procs,
                       PhaseOK, Delivering
<1>2. TypeOK /\ PhaseOK /\ [Next]_vars => (TypeOK /\ PhaseOK)'
  BY TypeStep, PhaseStep DEF TypeOK
<1> QED BY <1>1, <1>2, PTL DEF Spec

-----------------------------------------------------------------------------
(* Processed means delivered, however deliveries overlap.  What carries it:*)
(* a row says ok only of a handler that completed, and a delivery has a row *)
(* for every handler it has passed; rows are never deleted.                *)
(* The invariant of one process's memory, and that a step of others, which  *)
(* only adds outcomes, keeps it.                                           *)
RanMemory(q) ==
  /\ pc[q] = "record" => \A h \in todo[q] : NextHandler(q, h) /\ outcome[q] = "ok" => ran[ev[q]][h]
  /\ pc[q] \in {"run", "record"} => \A h \in Handlers \ todo[q] : delivery[ev[q]][h].status # "none"
  /\ pc[q] = "write" /\ verdict[q].status = "processed" => \A h \in Handlers : ran[ev[q]][h]

RowsRan == \A e \in Events, h \in Handlers : delivery[e][h].status = "ok" => ran[e][h]

Keeps ==
  \A e \in Events, h \in Handlers :
    /\ ran[e][h] => ran'[e][h]
    /\ delivery[e][h].status # "none" => delivery'[e][h].status # "none"

RanInv == RowsRan /\ (\A q \in Procs : RanMemory(q)) /\ ProcessedMeansEveryHandlerRan

SameMemory(q) == UNCHANGED <<pc[q], ev[q], todo[q], outcome[q], verdict[q]>>

LEMMA RanFrame ==
  ASSUME Keeps, PhaseOK, TypeOK, NEW q \in Procs, SameMemory(q), RanMemory(q)
  PROVE  RanMemory(q)'
<1>1. Delivering(q) => ev[q] \in Events
  BY DEF PhaseOK
<1>2. todo[q] \in SUBSET Handlers
  BY DEF TypeOK, MemoryOK
<1> QED BY <1>1, <1>2 DEF Keeps, SameMemory, RanMemory, Delivering, NextHandler

LEMMA RanIdle ==
  ASSUME NEW q \in Procs, pc'[q] \in {"idle", "emit", "enqueued", "load"}
  PROVE  RanMemory(q)'
BY DEF RanMemory

(* Steps that leave deliveries and history alone and take one process to a *)
(* point where it holds nothing yet.                                       *)
LEMMA RanOutside ==
  ASSUME TypeOK, PhaseOK, RowsRan, \A q \in Procs : RanMemory(q),
         UNCHANGED <<delivery, ran>>, NEW p \in Procs,
         pc'[p] \in {"idle", "emit", "enqueued", "load"},
         \A q \in Procs \ {p} : SameMemory(q)
  PROVE  RowsRan' /\ \A q \in Procs : RanMemory(q)'
<1>1. RowsRan' /\ Keeps
  BY DEF RowsRan, Keeps
<1>2. \A q \in Procs \ {p} : RanMemory(q)'
  BY <1>1, RanFrame
<1>3. RanMemory(p)'
  BY RanIdle
<1> QED BY <1>1, <1>2, <1>3

LEMMA OthersSame ==
  ASSUME TypeOK, NEW p \in Procs
  PROVE  /\ Return(p) => pc'[p] = "idle" /\ \A q \in Procs \ {p} : SameMemory(q)
         /\ \A e : StartDelivery(p, e) /\ UNCHANGED <<todo, outcome, verdict>>
              => pc'[p] = "load" /\ \A q \in Procs \ {p} : SameMemory(q)
BY DEF TypeOK, MemoryOK, Return, StartDelivery, SameMemory

(* retry_dead resets counts, never outcomes.                               *)
LEMMA RetryKeepsOutcomes ==
  ASSUME TypeOK, NEW e \in Events, RetryDead(e)
  PROVE  \A f \in Events, h \in Handlers : delivery'[f][h].status = delivery[f][h].status
<1>1. delivery' = [delivery EXCEPT ![e] =
                     [h \in Handlers |-> IF delivery[e][h].status = "failed"
                                         THEN [delivery[e][h] EXCEPT !.attempts = 0]
                                         ELSE delivery[e][h]]]
  BY DEF RetryDead
<1>2. ASSUME NEW h \in Handlers
      PROVE  [delivery[e][h] EXCEPT !.attempts = 0].status = delivery[e][h].status
  <2>1. delivery[e][h] \in [status : {"none", "ok", "failed"}, attempts : 0 .. MAX_ATTEMPTS]
    BY DEF TypeOK, RowsOK
  <2> QED BY <2>1
<1>3. \A h \in Handlers : delivery'[e][h].status = delivery[e][h].status
  BY <1>1, <1>2 DEF TypeOK, RowsOK
<1>4. \A f \in Events \ {e} : delivery'[f] = delivery[f]
  BY <1>1 DEF TypeOK, RowsOK
<1> QED BY <1>3, <1>4

(* Only running a handler changes the history, and it only adds to it.     *)
LEMMA RanIsHistory ==
  ASSUME TypeOK, [Next]_vars, NEW f \in Events, NEW h \in Handlers, ran[f][h]
  PROVE  ran'[f][h]
<1>1. ASSUME NEW p \in Procs, NEW o \in {"ok", "failed"}, RunHandler(p, o) PROVE ran'[f][h]
  <2>1. PICK k \in todo[p] : ran' = [ran EXCEPT ![ev[p]][k] = @ \/ o = "ok"]
    BY <1>1 DEF RunHandler
  <2>2. ran \in [Events -> [Handlers -> BOOLEAN]]
    BY DEF TypeOK, RowsOK
  <2>3. CASE f = ev[p] /\ h = k
    BY <2>1, <2>2, <2>3
  <2>4. CASE ~(f = ev[p] /\ h = k)
    BY <2>1, <2>2, <2>4
  <2> QED BY <2>3, <2>4
<1>2. ASSUME NEW p \in Procs,
             \/ CommitSource(p) \/ RollbackSource(p) \/ Crash(p) \/ Load(p) \/ RecordDelivery(p)
             \/ LoseRecord(p) \/ FinishRead(p) \/ FinishWrite(p) \/ LoseFinish(p)
      PROVE  ran' = ran
  BY <1>2 DEF CommitSource, RollbackSource, UndoInsert, Crash, Load, RecordDelivery, LoseRecord,
              FinishRead, FinishWrite, LoseFinish, rows
<1>3. ASSUME NEW p \in Callers, Write(p) PROVE ran' = ran
  BY <1>3 DEF Write, EmitReplay, EnqueueRepeat, EmitLost, EmitLookup, EmitInsert, Enqueue, InsertRow, rows
<1>4. ASSUME NEW e \in Events, RetryDead(e) \/ \E s \in Sweepers : Sweep(s) \/ Claim(s, e)
      PROVE  ran' = ran
  BY <1>4 DEF RetryDead, Sweep, Claim, rows
<1>5. CASE Tick \/ UNCHANGED vars
  BY <1>5 DEF Tick, vars
<1>6. ASSUME NEW s \in Sweepers, Sweep(s) PROVE ran' = ran
  BY <1>6 DEF Sweep, rows
<1> QED BY <1>1, <1>2, <1>3, <1>4, <1>5, <1>6 DEF Next, Step, Bookkeep

(* Only _finish makes an event processed.                                  *)
LEMMA BecomesProcessed ==
  ASSUME TypeOK, [Next]_vars, NEW e \in Events, status[e] # "processed", status'[e] = "processed"
  PROVE  \E p \in Procs : FinishWrite(p) /\ e = ev[p] /\ verdict[p].status = "processed"
<1> USE DEF TypeOK, RowsOK
<1>1. ASSUME NEW p \in Procs, FinishWrite(p)
      PROVE  e = ev[p] /\ verdict[p].status = "processed"
  BY <1>1 DEF FinishWrite
<1>2. ASSUME NEW f \in Events, RetryDead(f) PROVE FALSE
  BY <1>2 DEF RetryDead
<1>3. ASSUME NEW p \in Procs, CommitSource(p) \/ RollbackSource(p) \/ Crash(p) PROVE FALSE
  BY <1>3 DEF CommitSource, RollbackSource, Crash, UndoInsert, rows
<1>4. ASSUME NEW p, NEW f \in Events, NEW k, EmitInsert(p, f, k) \/ Enqueue(p, f, k) PROVE FALSE
  BY <1>4 DEF EmitInsert, Enqueue, InsertRow
<1> QED
  BY <1>1, <1>2, <1>3, <1>4
  DEF Next, Step, Bookkeep, Write, vars, rows, Load, RunHandler, RecordDelivery, LoseRecord, FinishRead,
      LoseFinish, EmitReplay, EnqueueRepeat, EmitLost, EmitLookup, Sweep, Claim, Tick

LEMMA RanStep ==
  ASSUME BookkeepingMayFail = FALSE, TypeOK, PhaseOK, RanInv, [Next]_vars
  PROVE  RanInv'
<1> DEFINE MemoryRan == RowsRan /\ \A q \in Procs : RanMemory(q)
<1> USE DEF RanInv
<1>1. ASSUME NEW p \in Procs, CommitSource(p) \/ RollbackSource(p) \/ LoseFinish(p) \/ Crash(p)
             \/ (\E k \in Keys : EmitLost(p, k) \/ EmitReplay(p, k) \/ EnqueueRepeat(p, k))
             \/ (\E e \in Events, k \in AllKeys : EmitInsert(p, e, k))
      PROVE  MemoryRan'
  <2>1. UNCHANGED <<delivery, ran>>
    BY <1>1 DEF CommitSource, RollbackSource, LoseFinish, Crash, EmitLost, EmitReplay, EnqueueRepeat,
                EmitInsert, InsertRow, UndoInsert, rows
  <2>2. Return(p) \/ \E e : StartDelivery(p, e) /\ UNCHANGED <<todo, outcome, verdict>>
    BY <1>1 DEF CommitSource, RollbackSource, LoseFinish, Crash, EmitLost, EmitReplay, EnqueueRepeat,
                EmitInsert
  <2>3. pc'[p] \in {"idle", "load"} /\ \A q \in Procs \ {p} : SameMemory(q)
    BY <2>2, OthersSame
  <2> QED BY <2>1, <2>3, RanOutside
<1>2. ASSUME NEW p \in Procs,
             EmitLookup(p) \/ (\E e \in Events, k \in AllKeys : Enqueue(p, e, k))
      PROVE  MemoryRan'
  <2>1. UNCHANGED <<delivery, ran>> /\ pc'[p] \in {"emit", "enqueued"}
        /\ \A q \in Procs \ {p} : SameMemory(q)
    BY <1>2 DEF EmitLookup, Enqueue, InsertRow, rows, SameMemory, TypeOK, MemoryOK
  <2> QED BY <2>1, RanOutside
<1>3. ASSUME NEW p \in Procs, Load(p) PROVE MemoryRan'
  <2>1. CASE Return(p)
    <3>1. UNCHANGED <<delivery, ran>>
      BY <1>3 DEF Load, rows
    <3> QED BY <2>1, <3>1, OthersSame, RanOutside
  <2>2. CASE /\ pc[p] = "load"
             /\ pc' = [pc EXCEPT ![p] = "run"]
             /\ todo' = [todo EXCEPT ![p] = Remaining(ev[p])]
             /\ UNCHANGED <<ev, outcome, verdict, delivery, ran>>
    <3>1. Keeps /\ RowsRan'
      BY <2>2 DEF Keeps, RowsRan
    <3>2. \A q \in Procs \ {p} : SameMemory(q)
      BY <2>2 DEF SameMemory, TypeOK, MemoryOK
    <3>3. \A q \in Procs \ {p} : RanMemory(q)'
      BY <3>1, <3>2, RanFrame
    <3>4. pc'[p] = "run" /\ todo'[p] = Remaining(ev[p])
      BY <2>2 DEF TypeOK, MemoryOK
    <3>5. \A h \in Handlers \ Remaining(ev[p]) : delivery[ev[p]][h].status = "ok"
      BY DEF Remaining, Succeeded
    <3>6. RanMemory(p)'
      BY <2>2, <3>4, <3>5 DEF RanMemory
    <3> QED BY <3>1, <3>3, <3>6
  <2> QED BY <1>3, <2>1, <2>2 DEF Load, rows
<1>4. ASSUME NEW p \in Procs, NEW o \in {"ok", "failed"}, RunHandler(p, o) PROVE MemoryRan'
  <2>1. PICK h \in todo[p] : NextHandler(p, h) /\ ran' = [ran EXCEPT ![ev[p]][h] = @ \/ o = "ok"]
    BY <1>4 DEF RunHandler
  <2>2. /\ ev[p] \in Events /\ h \in Handlers
        /\ todo[p] \in SUBSET Handlers
        /\ ran \in [Events -> [Handlers -> BOOLEAN]]
    BY <1>4, <2>1 DEF RunHandler, PhaseOK, Delivering, TypeOK, MemoryOK, RowsOK
  <2>3. \A e \in Events, k \in Handlers : ran[e][k] => ran'[e][k]
    BY <2>1, <2>2
  <2>4. o = "ok" => ran'[ev[p]][h]
    BY <2>1, <2>2
  <2>5. Keeps /\ RowsRan'
    BY <1>4, <2>3 DEF RunHandler, Keeps, RowsRan
  <2>6. \A q \in Procs \ {p} : SameMemory(q)
    BY <1>4 DEF RunHandler, SameMemory, TypeOK, MemoryOK
  <2>7. \A q \in Procs \ {p} : RanMemory(q)'
    BY <2>5, <2>6, RanFrame
  <2>8. \A k \in todo[p] : NextHandler(p, k) => k = h
    BY <2>1, <2>2 DEF NextHandler, Handlers
  <2>9. RanMemory(p)'
    BY <1>4, <2>2, <2>4, <2>8 DEF RunHandler, RanMemory, NextHandler, TypeOK, MemoryOK
  <2> QED BY <2>5, <2>7, <2>9
<1>5. ASSUME NEW p \in Procs, RecordDelivery(p) PROVE MemoryRan'
  <2>1. PICK h \in todo[p] :
          /\ NextHandler(p, h)
          /\ delivery' = [delivery EXCEPT ![ev[p]][h] =
                            [status |-> outcome[p], attempts |-> OneMore(@.attempts)]]
          /\ todo' = [todo EXCEPT ![p] = @ \ {h}]
    BY <1>5 DEF RecordDelivery
  <2>2. /\ ev[p] \in Events /\ h \in Handlers
        /\ outcome[p] \in {"ok", "failed"}
        /\ UNCHANGED <<ran, ev, verdict>>
        /\ pc[p] = "record"
    BY <1>5, <2>1 DEF RecordDelivery, PhaseOK, Delivering, TypeOK, MemoryOK
  <2>3. \A e \in Events, k \in Handlers :
          delivery'[e][k].status = IF e = ev[p] /\ k = h THEN outcome[p] ELSE delivery[e][k].status
    BY <2>1, <2>2 DEF TypeOK, RowsOK
  <2>4. RowsRan'
    BY <2>1, <2>2, <2>3 DEF RowsRan, RanMemory
  <2>5. Keeps
    BY <2>2, <2>3 DEF Keeps
  <2>6. \A q \in Procs \ {p} : SameMemory(q)
    BY <1>5, <2>1 DEF RecordDelivery, SameMemory, TypeOK, MemoryOK
  <2>7. \A q \in Procs \ {p} : RanMemory(q)'
    BY <2>5, <2>6, RanFrame
  <2>8. pc'[p] = "run" /\ todo'[p] = todo[p] \ {h}
    BY <1>5, <2>1 DEF RecordDelivery, TypeOK, MemoryOK
  <2>9. RanMemory(p)'
    BY <2>2, <2>3, <2>8 DEF RanMemory
  <2> QED BY <2>4, <2>7, <2>9
<1>6. ASSUME NEW p \in Procs, FinishRead(p) PROVE MemoryRan'
  <2>1. UNCHANGED <<delivery, ran, ev>> /\ pc'[p] = "write" /\ verdict'[p] = Verdict(ev[p])
    BY <1>6 DEF FinishRead, rows, TypeOK, MemoryOK
  <2>2. ev[p] \in Events /\ pc[p] = "run" /\ todo[p] = {}
    BY <1>6 DEF FinishRead, PhaseOK, Delivering
  <2>3. Verdict(ev[p]).status = "processed" => Failed(ev[p]) = {}
    BY <2>2, VerdictType
  <2>4. \A h \in Handlers : delivery[ev[p]][h].status \in {"none", "ok", "failed"}
    BY <2>2 DEF TypeOK, RowsOK
  <2>5. Failed(ev[p]) = {} => \A h \in Handlers : ran[ev[p]][h]
    BY <2>2, <2>4 DEF RanMemory, RowsRan, Failed
  <2>6. RanMemory(p)'
    BY <2>1, <2>3, <2>5 DEF RanMemory
  <2>7. \A q \in Procs \ {p} : SameMemory(q)
    BY <1>6 DEF FinishRead, SameMemory, TypeOK, MemoryOK
  <2>8. Keeps /\ RowsRan'
    BY <2>1 DEF Keeps, RowsRan
  <2>9. \A q \in Procs \ {p} : RanMemory(q)'
    BY <2>7, <2>8, RanFrame
  <2> QED BY <2>6, <2>8, <2>9
<1>7. ASSUME NEW p \in Procs, FinishWrite(p) PROVE MemoryRan'
  <2>1. UNCHANGED <<delivery, ran>> /\ pc'[p] = "idle" /\ \A q \in Procs \ {p} : SameMemory(q)
    BY <1>7, OthersSame DEF FinishWrite
  <2> QED BY <2>1, RanOutside
<1>8. ASSUME NEW s \in Sweepers, NEW e \in Events, Claim(s, e) PROVE MemoryRan'
  <2>1. s \in Procs /\ UNCHANGED <<delivery, ran>> /\ UNCHANGED <<todo, outcome, verdict>>
    BY <1>8 DEF Claim, Procs
  <2>2. pc'[s] \in {"idle", "load"} /\ \A q \in Procs \ {s} : SameMemory(q)
    BY <1>8, <2>1, OthersSame DEF Claim, SameMemory
  <2> QED BY <2>1, <2>2, RanOutside
<1>9. ASSUME NEW e \in Events, RetryDead(e) PROVE MemoryRan'
  <2>1. \A f \in Events, h \in Handlers : delivery'[f][h].status = delivery[f][h].status
    BY <1>9, RetryKeepsOutcomes
  <2>2. UNCHANGED <<ran, pc, ev, todo, outcome, verdict>>
    BY <1>9 DEF RetryDead
  <2>3. Keeps /\ RowsRan'
    BY <2>1, <2>2 DEF Keeps, RowsRan
  <2>4. \A q \in Procs : SameMemory(q)
    BY <2>2 DEF SameMemory
  <2> QED BY <2>3, <2>4, RanFrame
<1>10. ASSUME UNCHANGED <<delivery, ran, pc, ev, todo, outcome, verdict>> PROVE MemoryRan'
  <2>1. Keeps /\ RowsRan'
    BY <1>10 DEF Keeps, RowsRan
  <2>3. \A q \in Procs : SameMemory(q)
    BY <1>10 DEF SameMemory
  <2>2. \A q \in Procs : RanMemory(q)'
    BY <2>1, <2>3, RanFrame
  <2> QED BY <2>1, <2>2
<1>11. MemoryRan'
  <2>1. ASSUME NEW s \in Sweepers, Sweep(s) PROVE MemoryRan'
    BY <1>10, <2>1 DEF Sweep, rows
  <2>2. CASE Tick \/ UNCHANGED vars
    BY <1>10, <2>2 DEF Tick, local, vars
  <2>3. ASSUME NEW p \in Procs, LoseRecord(p) PROVE FALSE
    BY <2>3 DEF LoseRecord
  <2> HIDE DEF MemoryRan
  <2> QED BY <1>1, <1>2, <1>3, <1>4, <1>5, <1>6, <1>7, <1>8, <1>9, <2>1, <2>2, <2>3
          DEF Next, Step, Bookkeep, Write, Procs
<1>12. ASSUME NEW e \in Events, status'[e] = "processed" PROVE \A h \in Handlers : ran'[e][h]
  <2>1. \A f \in Events, h \in Handlers : ran[f][h] => ran'[f][h]
    BY RanIsHistory
  <2>2. CASE status[e] = "processed"
    BY <2>1, <2>2 DEF ProcessedMeansEveryHandlerRan
  <2>3. CASE status[e] # "processed"
    <3>1. PICK p \in Procs : FinishWrite(p) /\ e = ev[p] /\ verdict[p].status = "processed"
      BY <1>12, <2>3, BecomesProcessed
    <3> QED BY <2>1, <3>1 DEF RanMemory, FinishWrite
  <2> QED BY <2>2, <2>3
<1>13. ProcessedMeansEveryHandlerRan'
  BY <1>12 DEF ProcessedMeansEveryHandlerRan
<1> QED BY <1>11, <1>13

(* A processed event has had every handler complete, when no bookkeeping   *)
(* write is lost: with any overlap of deliveries, replay, retry and crash. *)
THEOREM ProcessedInv ==
  ASSUME BookkeepingMayFail = FALSE
  PROVE  Spec => []ProcessedMeansEveryHandlerRan
<1>1. Init => RanInv
  BY DEF Init, RanInv, RowsRan, RanMemory, NoRow, ProcessedMeansEveryHandlerRan
<1>2. TypeOK /\ PhaseOK /\ RanInv /\ [Next]_vars => RanInv'
  BY RanStep
<1>3. RanInv => ProcessedMeansEveryHandlerRan
  BY DEF RanInv
<1> QED BY <1>1, <1>2, <1>3, TypeInv, PTL DEF Spec

-----------------------------------------------------------------------------
(* The lease.  While a delivery ends before the wait that protects it, and  *)
(* no caller replays a key, whoever is between claim and _finish (or has    *)
(* the row in an open transaction) is alone with the event.                *)
Holding(p) == Delivering(p) \/ pc[p] = "enqueued"

(* What a holder knows of its event's row.                                 *)
Protected(q) ==
  /\ Delivering(q) => status[ev[q]] \in Open /\ due[ev[q]] > 0
  /\ pc[q] = "enqueued" => status[ev[q]] = "uncommitted" /\ due[ev[q]] > 0
  /\ pc[q] \in {"run", "record"} => \A h \in todo[q] : delivery[ev[q]][h].status # "ok"

Alone == \A p, q \in Procs : Holding(p) /\ Holding(q) /\ ev[p] = ev[q] => p = q

Findable == \A e \in Events : /\ status[e] \in Open => due[e] >= 0
                              /\ deadAt[e] => status[e] = "dead"

LeaseInv == Alone /\ Findable /\ \A q \in Procs : Protected(q)

LEMMA ProtectedFrame ==
  ASSUME TypeOK, PhaseOK, NEW q \in Procs, SameMemory(q), Protected(q),
         Holding(q) => /\ status'[ev[q]] = status[ev[q]]
                       /\ due'[ev[q]] > 0
                       /\ \A h \in Handlers : delivery'[ev[q]][h].status = delivery[ev[q]][h].status
  PROVE  Protected(q)'
<1>1. todo[q] \in SUBSET Handlers
  BY DEF TypeOK, MemoryOK
<1> QED BY <1>1 DEF Protected, SameMemory, Holding, Delivering

LEMMA AloneFrame ==
  ASSUME Alone, \A q \in Procs : Holding(q)' => Holding(q) /\ ev'[q] = ev[q]
  PROVE  Alone'
BY DEF Alone

(* A process that starts to hold an event nobody holds.                    *)
LEMMA AloneAcquire ==
  ASSUME Alone, NEW p \in Procs, NEW e,
         ev'[p] = e, \A q \in Procs \ {p} : SameMemory(q),
         \A q \in Procs \ {p} : Holding(q) => ev[q] # e
  PROVE  Alone'
BY DEF Alone, Holding, Delivering, SameMemory

(* A step that touches no row's status, time or outcomes, and takes a      *)
(* process out of the call it was in.                                      *)
LEMMA LeaseRelease ==
  ASSUME TypeOK, PhaseOK, LeaseInv, NEW p \in Procs, pc'[p] \in {"idle", "emit"},
         \A q \in Procs \ {p} : SameMemory(q),
         \A q \in Procs \ {p} : Holding(q) =>
            /\ status'[ev[q]] = status[ev[q]]
            /\ due'[ev[q]] > 0
            /\ \A h \in Handlers : delivery'[ev[q]][h].status = delivery[ev[q]][h].status
  PROVE  Alone' /\ \A q \in Procs : Protected(q)'
<1>1. \A q \in Procs \ {p} : Protected(q)'
  BY ProtectedFrame DEF LeaseInv
<1>2. Protected(p)' /\ ~Holding(p)'
  BY DEF Protected, Holding, Delivering
<1>3. Alone'
  BY <1>2, AloneFrame DEF LeaseInv, SameMemory, Holding, Delivering
<1> QED BY <1>1, <1>2, <1>3

LEMMA LeaseStep ==
  ASSUME Timely = TRUE, Keys = {}, TypeOK, PhaseOK, LeaseInv, [Next]_vars
  PROVE  LeaseInv'
<1> DEFINE Safe == Alone' /\ \A q \in Procs : Protected(q)'
<1>0. /\ Alone /\ Findable /\ \A q \in Procs : Protected(q)
      /\ \A q \in Procs : Holding(q) => ev[q] \in Events
  BY DEF LeaseInv, PhaseOK, Holding
<1>d. \A q \in Procs : Holding(q) => due[ev[q]] > 0 /\ status[ev[q]] \in {"pending", "failed", "uncommitted"}
  BY <1>0 DEF Protected, Holding, Open
<1>t. /\ status \in [Events -> Statuses]
      /\ due \in [Events -> Nat \cup {Unscheduled}]
      /\ deadAt \in [Events -> BOOLEAN]
      /\ pc \in [Procs -> {"idle", "emit", "enqueued", "load", "run", "record", "write"}]
      /\ ev \in [Procs -> Events \cup {NoEvent}]
      /\ todo \in [Procs -> SUBSET Handlers]
  BY DEF TypeOK, RowsOK, MemoryOK
<1>1. ASSUME NEW p \in Procs, RollbackSource(p) \/ Crash(p) PROVE LeaseInv'
  <2>1. pc'[p] = "idle" /\ \A q \in Procs \ {p} : SameMemory(q)
    BY <1>1, OthersSame DEF RollbackSource, Crash
  <2>2. UNCHANGED rows \/ (Holding(p) /\ pc[p] = "enqueued" /\ UndoInsert(ev[p]))
    BY <1>1 DEF RollbackSource, Crash, Holding
  <2>3. \A e \in Events :
          \/ status'[e] = status[e] /\ due'[e] = due[e] /\ (deadAt'[e] => deadAt[e])
          \/ Holding(p) /\ e = ev[p] /\ status'[e] = "absent" /\ ~deadAt'[e]
    <3>1. CASE UNCHANGED rows
      BY <3>1 DEF rows
    <3>2. CASE Holding(p) /\ pc[p] = "enqueued" /\ UndoInsert(ev[p])
      <4>1. ~deadAt[ev[p]]
        BY <1>0, <1>d, <3>2 DEF Findable
      <4> QED BY <1>t, <3>2, <4>1 DEF UndoInsert
    <3> QED BY <2>2, <3>1, <3>2
  <2>3a. UNCHANGED delivery
    BY <1>1 DEF RollbackSource, Crash, UndoInsert, rows
  <2>4. \A q \in Procs \ {p} : Holding(q) => status'[ev[q]] = status[ev[q]] /\ due'[ev[q]] > 0
    BY <1>0, <1>d, <2>3 DEF Alone
  <2>5. Alone' /\ \A q \in Procs : Protected(q)'
    BY <2>1, <2>3a, <2>4, LeaseRelease
  <2>6. Findable'
    BY <1>0, <2>3 DEF Findable, Open
  <2> QED BY <2>5, <2>6 DEF LeaseInv
<1>2. ASSUME NEW p \in Procs, CommitSource(p) PROVE LeaseInv'
  <2>1. /\ pc[p] = "enqueued" /\ Holding(p)
        /\ status' = [status EXCEPT ![ev[p]] = "pending"]
        /\ UNCHANGED <<due, deadAt, delivery>>
        /\ pc'[p] \in {"load", "idle"}
        /\ pc'[p] = "load" => ev'[p] = ev[p]
        /\ \A q \in Procs \ {p} : SameMemory(q)
    BY <1>2, <1>t, OthersSame DEF CommitSource, Holding, Return, StartDelivery
  <2>2. ~deadAt[ev[p]] /\ due[ev[p]] > 0 /\ status[ev[p]] = "uncommitted" /\ ev[p] \in Events
    BY <1>0, <1>d, <2>1 DEF Protected, Findable
  <2>3. Findable'
    <3>1. /\ \A e \in Events \ {ev[p]} : status'[e] = status[e]
          /\ status'[ev[p]] = "pending"
          /\ due' = due /\ deadAt' = deadAt
      BY <1>t, <2>1, <2>2
    <3>2. due[ev[p]] >= 0
      BY <1>t, <2>2 DEF Unscheduled
    <3> QED BY <1>0, <2>2, <3>1, <3>2 DEF Findable, Open
  <2>4. \A q \in Procs \ {p} : Protected(q)'
    BY <1>0, <1>d, <1>t, <2>1, ProtectedFrame DEF Alone
  <2>5. Protected(p)'
    BY <1>t, <2>1, <2>2 DEF Protected, Delivering, Open
  <2>6. Alone'
    BY <1>0, <2>1, AloneFrame DEF Holding, Delivering, SameMemory
  <2> QED BY <2>3, <2>4, <2>5, <2>6 DEF LeaseInv
<1>3. ASSUME NEW p \in Procs, Load(p) PROVE LeaseInv'
  <2>1. UNCHANGED <<status, due, deadAt, delivery>> /\ \A q \in Procs \ {p} : SameMemory(q)
    BY <1>3, <1>t, OthersSame DEF Load, rows, SameMemory
  <2>2. Findable'
    BY <1>0, <2>1 DEF Findable
  <2>3. CASE Return(p)
    <3>1. pc'[p] = "idle"
      BY <1>t, <2>3 DEF Return
    <3> QED BY <1>d, <2>1, <2>2, <3>1, LeaseRelease DEF LeaseInv
  <2>4. CASE /\ status[ev[p]] \in Open
             /\ pc' = [pc EXCEPT ![p] = "run"]
             /\ todo' = [todo EXCEPT ![p] = Remaining(ev[p])]
             /\ UNCHANGED ev
    <3>1. pc[p] = "load" /\ pc'[p] = "run" /\ todo'[p] = Remaining(ev[p]) /\ ev'[p] = ev[p]
      BY <1>3, <1>t, <2>4 DEF Load
    <3>2. \A q \in Procs \ {p} : Protected(q)'
      BY <1>0, <1>d, <2>1, ProtectedFrame
    <3>3. \A h \in Remaining(ev[p]) : delivery[ev[p]][h].status # "ok"
      BY DEF Remaining, Succeeded
    <3>4. Protected(p)'
      BY <1>0, <2>1, <3>1, <3>3 DEF Protected, Delivering
    <3>5. Alone'
      BY <1>0, <2>1, <3>1, AloneFrame DEF Holding, Delivering, SameMemory
    <3> QED BY <2>2, <3>2, <3>4, <3>5 DEF LeaseInv
  <2> QED BY <1>3, <2>3, <2>4 DEF Load
<1>4. ASSUME NEW p \in Procs, NEW o \in {"ok", "failed"}, RunHandler(p, o) PROVE LeaseInv'
  <2>1. /\ UNCHANGED <<status, due, deadAt, delivery, ev, todo>>
        /\ pc[p] = "run" /\ pc'[p] = "record"
        /\ \A q \in Procs \ {p} : SameMemory(q)
    BY <1>4, <1>t DEF RunHandler, SameMemory, TypeOK, MemoryOK
  <2>2. Findable'
    BY <1>0, <2>1 DEF Findable
  <2>3. \A q \in Procs \ {p} : Protected(q)'
    BY <1>0, <1>d, <2>1, ProtectedFrame
  <2>4. Protected(p)'
    BY <1>0, <2>1 DEF Protected, Delivering
  <2>5. Alone'
    BY <1>0, <2>1, AloneFrame DEF Holding, Delivering, SameMemory
  <2> QED BY <2>2, <2>3, <2>4, <2>5 DEF LeaseInv
<1>5. ASSUME NEW p \in Procs, RecordDelivery(p) \/ LoseRecord(p) PROVE LeaseInv'
  <2>1. /\ UNCHANGED <<status, due, deadAt, ev>>
        /\ pc[p] = "record" /\ pc'[p] = "run"
        /\ \A q \in Procs \ {p} : SameMemory(q)
    BY <1>5, <1>t DEF RecordDelivery, LoseRecord, SameMemory, TypeOK, MemoryOK, rows
  <2>2. PICK h \in todo[p] : todo'[p] = todo[p] \ {h}
                             /\ \A e \in Events, k \in Handlers : ~(e = ev[p] /\ k = h)
                                  => delivery'[e][k].status = delivery[e][k].status
    <3>1. CASE LoseRecord(p)
      BY <3>1, <1>t DEF LoseRecord, rows
    <3>2. CASE RecordDelivery(p)
      BY <3>2, <1>t DEF RecordDelivery, TypeOK, RowsOK
    <3> QED BY <1>5, <3>1, <3>2
  <2>3. Findable'
    BY <1>0, <2>1 DEF Findable
  <2>4. Holding(p)
    BY <2>1 DEF Holding, Delivering
  <2>5. \A q \in Procs \ {p} : Protected(q)'
    BY <1>0, <1>d, <2>1, <2>2, <2>4, ProtectedFrame DEF Alone
  <2>6. Protected(p)'
    BY <1>0, <1>t, <2>1, <2>2, <2>4 DEF Protected, Delivering
  <2>7. Alone'
    BY <1>0, <2>1, AloneFrame DEF Holding, Delivering, SameMemory
  <2> QED BY <2>3, <2>5, <2>6, <2>7 DEF LeaseInv
<1>6. ASSUME NEW p \in Procs, FinishRead(p) PROVE LeaseInv'
  <2>1. /\ UNCHANGED <<status, due, deadAt, delivery, ev>>
        /\ pc[p] = "run" /\ pc'[p] = "write"
        /\ \A q \in Procs \ {p} : SameMemory(q)
    BY <1>6, <1>t DEF FinishRead, SameMemory, TypeOK, MemoryOK, rows
  <2>2. Findable'
    BY <1>0, <2>1 DEF Findable
  <2>3. \A q \in Procs \ {p} : Protected(q)'
    BY <1>0, <1>d, <2>1, ProtectedFrame
  <2>4. Protected(p)'
    BY <1>0, <2>1 DEF Protected, Delivering
  <2>5. Alone'
    BY <1>0, <2>1, AloneFrame DEF Holding, Delivering, SameMemory
  <2> QED BY <2>2, <2>3, <2>4, <2>5 DEF LeaseInv
<1>7. ASSUME NEW p \in Procs, FinishWrite(p) PROVE LeaseInv'
  <2>1. /\ Holding(p) /\ pc'[p] = "idle" /\ UNCHANGED delivery
        /\ \A q \in Procs \ {p} : SameMemory(q)
    BY <1>7, OthersSame DEF FinishWrite, Holding, Delivering
  <2>2. /\ status' = [status EXCEPT ![ev[p]] = verdict[p].status]
        /\ due'    = [due EXCEPT ![ev[p]] = verdict[p].wait]
        /\ deadAt' = [deadAt EXCEPT ![ev[p]] = deadAt[ev[p]] \/ verdict[p].status = "dead"]
    BY <1>7 DEF FinishWrite
  <2>3. /\ verdict[p].status \in {"processed", "dead", "failed"}
        /\ verdict[p].status = "failed" => verdict[p].wait \in Nat
        /\ ev[p] \in Events
    BY <1>7 DEF FinishWrite, PhaseOK, Delivering
  <2>4. ~deadAt[ev[p]]
    BY <1>0, <1>d, <2>1, <2>3 DEF Findable
  <2>5. Findable'
    <3>1. ASSUME NEW e \in Events, e # ev[p]
          PROVE  status'[e] = status[e] /\ due'[e] = due[e] /\ deadAt'[e] = deadAt[e]
      BY <1>t, <2>2, <3>1
    <3>2. /\ status'[ev[p]] = verdict[p].status
          /\ due'[ev[p]] = verdict[p].wait
          /\ deadAt'[ev[p]] => verdict[p].status = "dead"
      BY <1>t, <2>2, <2>3, <2>4
    <3> QED BY <1>0, <2>3, <3>1, <3>2 DEF Findable, Open
  <2>6. \A q \in Procs \ {p} : Holding(q) => ev[q] # ev[p]
    BY <1>0, <2>1 DEF Alone
  <2>7. \A q \in Procs \ {p} : Holding(q) =>
           status'[ev[q]] = status[ev[q]] /\ due'[ev[q]] > 0
    BY <1>0, <1>d, <1>t, <2>2, <2>6
  <2>8. Alone' /\ \A q \in Procs : Protected(q)'
    BY <2>1, <2>7, LeaseRelease
  <2> QED BY <2>5, <2>8 DEF LeaseInv
<1>8. ASSUME NEW p \in Procs, LoseFinish(p) \/ EmitLookup(p) PROVE LeaseInv'
  <2>1. UNCHANGED <<status, due, deadAt, delivery>> /\ pc'[p] \in {"idle", "emit"}
        /\ \A q \in Procs \ {p} : SameMemory(q)
    BY <1>8, <1>t, OthersSame DEF LoseFinish, EmitLookup, rows, SameMemory
  <2>2. Findable'
    BY <1>0, <2>1 DEF Findable
  <2> QED BY <1>d, <2>1, <2>2, LeaseRelease DEF LeaseInv
<1>9. ASSUME NEW p \in Procs, NEW e \in Events, NEW k \in AllKeys, EmitInsert(p, e, k) \/ Enqueue(p, e, k)
      PROVE  LeaseInv'
  <2>1. /\ status[e] = "absent" /\ status'[e] \in {"pending", "uncommitted"}
        /\ due'[e] > 0 /\ due'[e] >= 0
        /\ \A f \in Events \ {e} : status'[f] = status[f] /\ due'[f] = due[f]
        /\ UNCHANGED <<deadAt, delivery>>
    BY <1>9, <1>t, BusAssumption DEF EmitInsert, Enqueue, InsertRow
  <2>2. /\ ev'[p] = e
        /\ \/ pc'[p] = "load" /\ status'[e] = "pending"
           \/ pc'[p] = "enqueued" /\ status'[e] = "uncommitted"
        /\ \A q \in Procs \ {p} : SameMemory(q)
    <3>1. CASE EmitInsert(p, e, k)
      <4>1. pc'[p] = "load" /\ \A q \in Procs \ {p} : SameMemory(q)
        BY <3>1, OthersSame DEF EmitInsert
      <4>2. ev'[p] = e /\ status'[e] = "pending"
        BY <1>t, <3>1 DEF EmitInsert, InsertRow, StartDelivery
      <4> QED BY <4>1, <4>2
    <3>2. CASE Enqueue(p, e, k)
      <4>1. /\ pc' = [pc EXCEPT ![p] = "enqueued"]
            /\ ev' = [ev EXCEPT ![p] = e]
            /\ status' = [status EXCEPT ![e] = "uncommitted"]
            /\ UNCHANGED <<todo, outcome, verdict>>
        BY <3>2 DEF Enqueue, InsertRow
      <4> QED BY <1>t, <4>1 DEF SameMemory
    <3> QED BY <1>9, <3>1, <3>2
  <2>3. \A q \in Procs : Holding(q) => ev[q] # e
    BY <1>d, <2>1
  <2>4. Findable'
    BY <1>0, <2>1 DEF Findable, Open
  <2>5. \A q \in Procs \ {p} : Protected(q)'
    BY <1>0, <1>d, <2>1, <2>2, <2>3, ProtectedFrame
  <2>6. Protected(p)'
    BY <2>1, <2>2 DEF Protected, Delivering, Open
  <2>7. Alone'
    BY <1>0, <2>2, <2>3, AloneAcquire
  <2> QED BY <2>4, <2>5, <2>6, <2>7 DEF LeaseInv
<1>10. ASSUME NEW s \in Sweepers, NEW e \in Events, Claim(s, e) PROVE LeaseInv'
  <2>1. s \in Procs /\ pc[s] = "idle" /\ UNCHANGED <<status, deadAt, delivery, todo, outcome, verdict>>
    BY <1>10 DEF Claim, Procs
  <2>2. CASE ~MayClaim(e)
    <3>1. UNCHANGED <<due, pc, ev>>
      BY <1>10, <2>2 DEF Claim
    <3>2. \A q \in Procs : SameMemory(q)
      BY <2>1, <3>1 DEF SameMemory
    <3>3. Findable'
      BY <1>0, <2>1, <3>1 DEF Findable
    <3> QED BY <1>d, <2>1, <3>1, <3>2, <3>3, LeaseRelease DEF LeaseInv
  <2>3. CASE MayClaim(e)
    <3>1. /\ status[e] \in Open /\ due[e] = 0
          /\ due' = [due EXCEPT ![e] = LEASE] /\ StartDelivery(s, e)
      BY <1>10, <2>3 DEF Claim, MayClaim
    <3>2. pc'[s] = "load" /\ ev'[s] = e /\ \A q \in Procs \ {s} : SameMemory(q)
      BY <1>t, <2>1, <3>1, OthersSame DEF StartDelivery
    <3>3. \A q \in Procs : Holding(q) => ev[q] # e
      BY <1>d, <3>1
    <3>4. due'[e] > 0 /\ due'[e] >= 0 /\ \A f \in Events \ {e} : due'[f] = due[f]
      BY <1>t, <3>1, BusAssumption
    <3>5. Findable'
      BY <1>0, <2>1, <3>4 DEF Findable
    <3>6. \A q \in Procs \ {s} : Protected(q)'
      BY <1>0, <1>d, <2>1, <3>2, <3>3, <3>4, ProtectedFrame
    <3>7. Protected(s)'
      BY <2>1, <3>1, <3>2, <3>4 DEF Protected, Delivering
    <3>8. Alone'
      BY <1>0, <2>1, <3>2, <3>3, AloneAcquire
    <3> QED BY <3>5, <3>6, <3>7, <3>8 DEF LeaseInv
  <2> QED BY <2>2, <2>3
<1>11. ASSUME NEW e \in Events, RetryDead(e) PROVE LeaseInv'
  <2>1. UNCHANGED <<pc, ev, todo, outcome, verdict>>
    BY <1>11 DEF RetryDead
  <2>2. \A f \in Events, h \in Handlers : delivery'[f][h].status = delivery[f][h].status
    BY <1>11, RetryKeepsOutcomes
  <2>3. \A f \in Events :
          \/ status'[f] = status[f] /\ due'[f] = due[f] /\ deadAt'[f] = deadAt[f]
          \/ f = e /\ status[e] = "dead" /\ status'[e] = "pending" /\ due'[e] = 0 /\ deadAt'[e] = FALSE
    <3>1. CASE status[e] = "dead"
      <4>1. /\ status' = [status EXCEPT ![e] = "pending"]
            /\ due' = [due EXCEPT ![e] = 0]
            /\ deadAt' = [deadAt EXCEPT ![e] = FALSE]
        BY <1>11, <3>1 DEF RetryDead, MayRevive, MarkAfterRetry
      <4> QED BY <1>t, <3>1, <4>1
    <3>2. CASE status[e] # "dead"
      BY <1>11, <3>2 DEF RetryDead, MayRevive
    <3> QED BY <3>1, <3>2
  <2>4. Findable'
    BY <1>0, <2>3 DEF Findable
  <2>5. \A q \in Procs : Holding(q) => status'[ev[q]] = status[ev[q]] /\ due'[ev[q]] = due[ev[q]]
    BY <1>0, <1>d, <2>3
  <2>6. \A q \in Procs : SameMemory(q)
    BY <2>1 DEF SameMemory
  <2>7. \A q \in Procs : Protected(q)'
    BY <1>0, <1>d, <2>2, <2>5, <2>6, ProtectedFrame
  <2>8. Alone'
    BY <1>0, <2>1, AloneFrame DEF Holding, Delivering
  <2> QED BY <2>4, <2>7, <2>8 DEF LeaseInv
<1>12. CASE Tick
  <2>1. UNCHANGED <<status, deadAt, delivery, pc, ev, todo, outcome, verdict>>
    BY <1>12 DEF Tick, local
  <2>2. \A e \in Events : due'[e] = Elapse(due[e])
    BY <1>12 DEF Tick
  <2>3. \A q \in Procs : Holding(q) => due[ev[q]] # 1
    BY <1>12 DEF Tick, Holding
  <2>4. Findable'
    BY <1>0, <1>t, <2>1, <2>2 DEF Findable, Elapse, Unscheduled
  <2>5. \A q \in Procs : Holding(q) => due'[ev[q]] > 0
    BY <1>0, <1>d, <1>t, <2>2, <2>3 DEF Elapse, Unscheduled
  <2>6. \A q \in Procs : SameMemory(q)
    BY <2>1 DEF SameMemory
  <2>7. \A q \in Procs : Protected(q)'
    BY <1>0, <2>1, <2>5, <2>6, ProtectedFrame
  <2>8. Alone'
    BY <1>0, <2>1, AloneFrame DEF Holding, Delivering
  <2> QED BY <2>4, <2>7, <2>8 DEF LeaseInv
<1>13. CASE UNCHANGED vars \/ \E s \in Sweepers : Sweep(s)
  <2>1. UNCHANGED <<status, due, deadAt, delivery, pc, ev, todo, outcome, verdict>>
    BY <1>13 DEF vars, Sweep, rows
  <2> QED BY <1>0, <2>1 DEF LeaseInv, Findable, Alone, Protected, Holding, Delivering
<1> QED
  BY <1>1, <1>2, <1>3, <1>4, <1>5, <1>6, <1>7, <1>8, <1>9, <1>10, <1>11, <1>12, <1>13
  DEF Next, Step, Bookkeep, Write, Procs

(* With deliveries that end in time and no replayed key: one deliverer at  *)
(* a time, no recorded success rerun, nothing stranded.                    *)
THEOREM LeaseTheorem ==
  ASSUME Timely = TRUE, Keys = {}
  PROVE  Spec => [](OneDelivererAtATime /\ RecordedSuccessIsNotRerun /\ OpenEventsCanBeSelected)
<1>1. Init => LeaseInv
  BY DEF Init, LeaseInv, Alone, Findable, Protected, Holding, Delivering, Open, NoRow
<1>2. TypeOK /\ PhaseOK /\ LeaseInv /\ [Next]_vars => LeaseInv'
  BY LeaseStep
<1>3. LeaseInv => OneDelivererAtATime /\ RecordedSuccessIsNotRerun /\ OpenEventsCanBeSelected
  BY DEF LeaseInv, Alone, Findable, Protected, Holding, Open, OneDelivererAtATime,
         RecordedSuccessIsNotRerun, OpenEventsCanBeSelected, NextHandler
<1> QED BY <1>1, <1>2, <1>3, TypeInv, PTL DEF Spec

(* Under the same conditions an event once processed stays processed.      *)
THEOREM FinalTheorem ==
  ASSUME Timely = TRUE, Keys = {}
  PROVE  Spec => ProcessedIsFinal
<1>1. Init => LeaseInv
  BY DEF Init, LeaseInv, Alone, Findable, Protected, Holding, Delivering, Open, NoRow
<1>2. TypeOK /\ PhaseOK /\ LeaseInv /\ [Next]_vars => LeaseInv'
  BY LeaseStep
<1>3. TypeOK /\ PhaseOK /\ LeaseInv /\ [Next]_vars
        => (\A e \in Events : status[e] = "processed" => status'[e] = "processed")
  <2> SUFFICES ASSUME TypeOK, PhaseOK, LeaseInv, [Next]_vars,
                      NEW e \in Events, status[e] = "processed"
               PROVE  status'[e] = "processed"
    OBVIOUS
  <2> USE DEF TypeOK, RowsOK
  <2>1. \A p \in Procs : Holding(p) => ev[p] # e
    BY DEF LeaseInv, Protected, Holding, Open
  <2>2. ASSUME NEW p \in Procs, CommitSource(p) \/ RollbackSource(p) \/ Crash(p) \/ FinishWrite(p)
        PROVE  status'[e] = status[e]
    <3>1. status' = status \/ (Holding(p) /\ \E x : status' = [status EXCEPT ![ev[p]] = x])
      BY <2>2 DEF CommitSource, RollbackSource, Crash, FinishWrite, UndoInsert, Holding, Delivering, rows
    <3> QED BY <2>1, <3>1
  <2>3. ASSUME NEW p \in Callers, NEW f \in Events, NEW k \in AllKeys, EmitInsert(p, f, k) \/ Enqueue(p, f, k)
        PROVE  status'[e] = status[e]
    BY <2>3 DEF EmitInsert, Enqueue, InsertRow
  <2>4. ASSUME NEW f \in Events, RetryDead(f) PROVE status'[e] = status[e]
    BY <2>4 DEF RetryDead, MayRevive
  <2>5. ASSUME NEW p \in Procs, Load(p) \/ RecordDelivery(p) \/ LoseRecord(p) \/ FinishRead(p) \/ LoseFinish(p)
               \/ EmitLookup(p) \/ \E o \in {"ok", "failed"} : RunHandler(p, o)
        PROVE  status'[e] = status[e]
    BY <2>5 DEF Load, RecordDelivery, LoseRecord, FinishRead, LoseFinish, EmitLookup, RunHandler, rows
  <2>6. ASSUME NEW s \in Sweepers, Sweep(s) \/ \E f \in Events : Claim(s, f)
        PROVE  status'[e] = status[e]
    BY <2>6 DEF Sweep, Claim, rows
  <2>7. CASE Tick \/ UNCHANGED vars
    BY <2>7 DEF Tick, vars
  <2> QED BY <2>2, <2>3, <2>4, <2>5, <2>6, <2>7 DEF Next, Step, Bookkeep, Write, Procs
<1> QED BY <1>1, <1>2, <1>3, TypeInv, PTL DEF Spec, ProcessedIsFinal

(* The parts of LeaseTheorem that are about handlers and about the sweep.  *)
(* No handler whose success is recorded is run again.                      *)
THEOREM RerunTheorem ==
  ASSUME Timely = TRUE, Keys = {}
  PROVE  Spec => []RecordedSuccessIsNotRerun
BY LeaseTheorem, PTL

(* Every open event is one that a sweep selects, now or later.             *)
THEOREM SelectTheorem ==
  ASSUME Timely = TRUE, Keys = {}
  PROVE  Spec => []OpenEventsCanBeSelected
BY LeaseTheorem, PTL

-----------------------------------------------------------------------------
(* Given up means failed.  Who has decided to give an event up holds it    *)
(* alone, so the outcomes it decided on are still those of the rows.       *)
DeadInv ==
  /\ DeadMeansAHandlerFailed
  /\ \A q \in Procs : pc[q] = "write" /\ verdict[q].status = "dead" => Failed(ev[q]) # {}

(* The outcomes of an event change only in the hands of who records them.  *)
LEMMA OutcomesKept ==
  ASSUME TypeOK, [Next]_vars, NEW f \in Events,
         \A p \in Procs : pc[p] = "record" => ev[p] # f
  PROVE  Failed(f)' = Failed(f)
<1> USE DEF TypeOK, RowsOK
<1> SUFFICES \A h \in Handlers : delivery'[f][h].status = delivery[f][h].status
  BY DEF Failed
<1>1. ASSUME NEW p \in Procs, RecordDelivery(p)
      PROVE  \A h \in Handlers : delivery'[f][h].status = delivery[f][h].status
  <2>1. PICK h \in todo[p] : delivery' = [delivery EXCEPT ![ev[p]][h] =
                                [status |-> outcome[p], attempts |-> OneMore(@.attempts)]]
    BY <1>1 DEF RecordDelivery
  <2>2. ev[p] # f
    BY <1>1 DEF RecordDelivery
  <2>3. delivery'[f] = delivery[f]
    BY <2>1, <2>2
  <2> QED BY <2>3
<1>2. ASSUME NEW p \in Procs,
             \/ CommitSource(p) \/ RollbackSource(p) \/ Crash(p) \/ Load(p) \/ LoseRecord(p) \/ FinishRead(p)
             \/ FinishWrite(p) \/ LoseFinish(p) \/ \E o \in {"ok", "failed"} : RunHandler(p, o)
      PROVE  delivery' = delivery
  BY <1>2 DEF CommitSource, RollbackSource, UndoInsert, Crash, Load, LoseRecord, FinishRead, FinishWrite,
              LoseFinish, RunHandler, rows
<1>3. ASSUME NEW p \in Callers, Write(p) PROVE delivery' = delivery
  BY <1>3 DEF Write, EmitReplay, EnqueueRepeat, EmitLost, EmitLookup, EmitInsert, Enqueue, InsertRow, rows
<1>4. ASSUME NEW s \in Sweepers, Sweep(s) \/ \E e \in Events : Claim(s, e) PROVE delivery' = delivery
  BY <1>4 DEF Sweep, Claim, rows
<1>5. ASSUME NEW e \in Events, RetryDead(e)
      PROVE  \A h \in Handlers : delivery'[f][h].status = delivery[f][h].status
  BY <1>5, RetryKeepsOutcomes
<1>6. Tick \/ UNCHANGED vars => delivery' = delivery
  BY DEF Tick, vars
<1> QED BY <1>1, <1>2, <1>3, <1>4, <1>5, <1>6 DEF Next, Step, Bookkeep

(* Only _finish gives an event up, on the verdict its process holds.       *)
LEMMA BecomesDead ==
  ASSUME TypeOK, [Next]_vars, NEW f \in Events, status'[f] = "dead", status[f] # "dead"
  PROVE  \E p \in Procs : pc[p] = "write" /\ ev[p] = f /\ verdict[p].status = "dead"
<1> USE DEF TypeOK, RowsOK
<1>1. ASSUME NEW p \in Procs, FinishWrite(p)
      PROVE  \E q \in Procs : pc[q] = "write" /\ ev[q] = f /\ verdict[q].status = "dead"
  BY <1>1 DEF FinishWrite
<1>2. ASSUME NEW p \in Procs, CommitSource(p) \/ RollbackSource(p) \/ Crash(p) PROVE FALSE
  BY <1>2 DEF CommitSource, RollbackSource, Crash, UndoInsert, rows
<1>3. ASSUME NEW p \in Procs, Load(p) \/ RecordDelivery(p) \/ LoseRecord(p) \/ FinishRead(p) \/ LoseFinish(p)
             \/ \E o \in {"ok", "failed"} : RunHandler(p, o)
      PROVE  FALSE
  BY <1>3 DEF Load, RecordDelivery, LoseRecord, FinishRead, LoseFinish, RunHandler, rows
<1>4. ASSUME NEW p \in Callers, Write(p) PROVE FALSE
  BY <1>4 DEF Write, EmitReplay, EnqueueRepeat, EmitLost, EmitLookup, EmitInsert, Enqueue, InsertRow, rows
<1>5. ASSUME NEW s \in Sweepers, Sweep(s) \/ \E e \in Events : Claim(s, e) PROVE FALSE
  BY <1>5 DEF Sweep, Claim, rows
<1>6. ASSUME NEW e \in Events, RetryDead(e) PROVE FALSE
  BY <1>6 DEF RetryDead, MayRevive
<1>7. ~(Tick \/ UNCHANGED vars)
  BY DEF Tick, vars
<1> QED BY <1>1, <1>2, <1>3, <1>4, <1>5, <1>6, <1>7 DEF Next, Step, Bookkeep

(* Who decides to give an event up has seen a failure.                     *)
LEMMA DecidesDead ==
  ASSUME TypeOK, [Next]_vars, NEW q \in Procs, pc'[q] = "write", verdict'[q].status = "dead"
  PROVE  /\ ev'[q] = ev[q] /\ pc[q] # "record"
         /\ (pc[q] = "write" /\ verdict[q].status = "dead") \/ (Failed(ev[q]) # {} /\ pc[q] = "run")
<1> DEFINE Goal == /\ ev'[q] = ev[q] /\ pc[q] # "record"
                   /\ (pc[q] = "write" /\ verdict[q].status = "dead") \/ (Failed(ev[q]) # {} /\ pc[q] = "run")
<1> USE DEF TypeOK, MemoryOK
<1>1. UNCHANGED <<pc, ev, verdict>> => Goal
  OBVIOUS
<1>2. ASSUME NEW p \in Procs, FinishRead(p) PROVE Goal
  <2>1. CASE p = q
    <3>1. verdict'[q] = Verdict(ev[q]) /\ pc[q] = "run" /\ ev' = ev
      BY <1>2, <2>1 DEF FinishRead
    <3>2. Verdict(ev[q]).status = "dead" => Failed(ev[q]) # {}
      BY DEF Verdict
    <3> QED BY <3>1, <3>2
  <2>2. CASE p # q
    BY <1>2, <2>2 DEF FinishRead
  <2> QED BY <2>1, <2>2
<1>3. ASSUME NEW p \in Procs, \/ CommitSource(p) \/ RollbackSource(p) \/ Crash(p) \/ Load(p) \/ RecordDelivery(p)
             \/ LoseRecord(p) \/ FinishWrite(p) \/ LoseFinish(p) \/ \E o \in {"ok", "failed"} : RunHandler(p, o)
      PROVE  Goal
  <2>1. pc'[p] # "write" /\ (p # q => pc'[q] = pc[q] /\ ev'[q] = ev[q] /\ verdict'[q] = verdict[q])
    BY <1>3 DEF CommitSource, RollbackSource, Crash, Load, RecordDelivery, LoseRecord, FinishWrite, LoseFinish,
                RunHandler, Return, StartDelivery
  <2> QED BY <2>1
<1>4. ASSUME NEW p \in Callers, Write(p) PROVE Goal
  <2>1. pc'[p] # "write" /\ (p # q => pc'[q] = pc[q] /\ ev'[q] = ev[q] /\ verdict'[q] = verdict[q])
    BY <1>4 DEF Write, EmitReplay, EnqueueRepeat, EmitLost, EmitLookup, EmitInsert, Enqueue, Return,
                StartDelivery, Procs
  <2> QED BY <2>1
<1>5. ASSUME NEW s \in Sweepers, Sweep(s) \/ \E e \in Events : Claim(s, e) PROVE Goal
  <2>1. \/ UNCHANGED <<pc, ev, verdict>>
        \/ pc'[s] # "write" /\ (s # q => pc'[q] = pc[q] /\ ev'[q] = ev[q] /\ verdict'[q] = verdict[q])
    BY <1>5 DEF Sweep, Claim, StartDelivery, Procs
  <2> QED BY <1>1, <2>1
<1>6. ASSUME NEW e \in Events, RetryDead(e) PROVE Goal
  BY <1>1, <1>6 DEF RetryDead
<1>7. Tick \/ UNCHANGED vars => Goal
  BY <1>1 DEF Tick, vars, local
<1> HIDE DEF Goal
<1>8. Goal
  BY <1>2, <1>3, <1>4, <1>5, <1>6, <1>7 DEF Next, Step, Bookkeep
<1> QED BY <1>8 DEF Goal

LEMMA DeadStep ==
  ASSUME TypeOK, PhaseOK, LeaseInv, DeadInv, [Next]_vars
  PROVE  DeadInv'
<1>1. ASSUME NEW f \in Events, status[f] = "dead" PROVE Failed(f)' # {}
  <2>1. \A p \in Procs : pc[p] = "record" => ev[p] # f
    BY <1>1 DEF LeaseInv, Protected, Delivering, Open
  <2> QED BY <1>1, <2>1, OutcomesKept DEF DeadInv, DeadMeansAHandlerFailed
<1>2. ASSUME NEW q \in Procs, pc[q] \in {"run", "write"}, Failed(ev[q]) # {} PROVE Failed(ev[q])' # {} \/ ev'[q] # ev[q]
  <2>1. ev[q] \in Events
    BY <1>2 DEF PhaseOK, Delivering
  <2>2. \A p \in Procs : pc[p] = "record" => ev[p] # ev[q]
    BY <1>2 DEF LeaseInv, Alone, Holding, Delivering
  <2>3. \A f \in Events : f = ev[q] => Failed(f)' = Failed(f)
    BY <2>2, OutcomesKept
  <2> QED BY <1>2, <2>1, <2>3 DEF Failed
<1>3. ASSUME NEW q \in Procs, (pc[q] = "write" /\ verdict[q].status = "dead")'
      PROVE  Failed(ev[q])' # {}
  BY <1>2, <1>3, DecidesDead DEF DeadInv
<1>4. ASSUME NEW f \in Events, status'[f] = "dead", status[f] # "dead" PROVE Failed(f)' # {}
  <2>1. PICK p \in Procs : pc[p] = "write" /\ ev[p] = f /\ verdict[p].status = "dead"
    BY <1>4, BecomesDead
  <2>2. Failed(f) # {}
    BY <2>1 DEF DeadInv
  <2>3. \A r \in Procs : pc[r] = "record" => ev[r] # f
    BY <2>1 DEF LeaseInv, Alone, Holding, Delivering
  <2> QED BY <2>2, <2>3, OutcomesKept
<1> QED BY <1>1, <1>3, <1>4 DEF DeadInv, DeadMeansAHandlerFailed

(* With deliveries that end in time and no replayed key, an event given up *)
(* has a handler that failed.                                              *)
THEOREM DeadTheorem ==
  ASSUME Timely = TRUE, Keys = {}
  PROVE  Spec => []DeadMeansAHandlerFailed
<1>1. Init => LeaseInv /\ DeadInv
  BY DEF Init, LeaseInv, Alone, Findable, Protected, Holding, Delivering, Open, NoRow, DeadInv,
         DeadMeansAHandlerFailed
<1>2. TypeOK /\ PhaseOK /\ LeaseInv /\ DeadInv /\ [Next]_vars => LeaseInv' /\ DeadInv'
  BY LeaseStep, DeadStep
<1>3. DeadInv => DeadMeansAHandlerFailed
  BY DEF DeadInv
<1> QED BY <1>1, <1>2, <1>3, TypeInv, PTL DEF Spec

-----------------------------------------------------------------------------
(* The promise.  A row is visible as long as somebody delivers it, and an  *)
(* uncommitted one is in one caller's hands.                               *)
SourceInv ==
  /\ \A p \in Procs : Delivering(p) => Visible(ev[p])
  /\ \A p \in Procs : pc[p] = "enqueued" => status[ev[p]] = "uncommitted"
  /\ \A p, q \in Procs : pc[p] = "enqueued" /\ pc[q] = "enqueued" /\ ev[p] = ev[q] => p = q

(* A step of the bus that leaves visible rows visible and uncommitted ones *)
(* alone, and whose process p holds a visible row or none.                 *)
LEMMA SourceFrame ==
  ASSUME SourceInv, NEW p \in Procs, pc'[p] # "enqueued",
         \A q \in Procs \ {p} : pc'[q] = pc[q] /\ ev'[q] = ev[q],
         \A q \in Procs \ {p} : Delivering(q) => Visible(ev[q])',
         \A q \in Procs \ {p} : pc[q] = "enqueued" => status'[ev[q]] = status[ev[q]],
         Delivering(p)' => Visible(ev[p])'
  PROVE  SourceInv'
BY DEF SourceInv, Delivering

LEMMA SourceStep ==
  ASSUME TypeOK, PhaseOK, SourceInv, [Next]_vars
  PROVE  SourceInv'
<1> USE DEF TypeOK, RowsOK, MemoryOK
<1>1. CASE UNCHANGED vars
  BY <1>1 DEF vars, SourceInv, Delivering, Visible
<1>2. ASSUME NEW p \in Procs, CommitSource(p) PROVE SourceInv'
  <2>1. \A q \in Procs \ {p} : Visible(ev[q]) => Visible(ev[q])'
    BY <1>2 DEF CommitSource, StartDelivery, Return, Visible, PhaseOK
  <2>2. \A q \in Procs \ {p} : pc'[q] = pc[q] /\ ev'[q] = ev[q]
    BY <1>2 DEF CommitSource, StartDelivery, Return
  <2>3. pc'[p] # "enqueued" /\ (Delivering(p)' => Visible(ev[p])')
    BY <1>2 DEF CommitSource, StartDelivery, Return, Visible, Delivering, PhaseOK
  <2>4. \A q \in Procs \ {p} : pc[q] = "enqueued" => ev[q] # ev[p]
    BY <1>2 DEF CommitSource, SourceInv
  <2>5. \A q \in Procs \ {p} : pc[q] = "enqueued" => status'[ev[q]] = status[ev[q]]
    BY <1>2, <2>4 DEF CommitSource, PhaseOK
  <2> QED BY <2>1, <2>2, <2>3, <2>5, SourceFrame DEF SourceInv, Delivering
<1>3. ASSUME NEW p \in Procs, pc[p] = "enqueued", UndoInsert(ev[p]), Return(p) PROVE SourceInv'
  <2>1. ev[p] \in Events /\ status[ev[p]] = "uncommitted"
    BY <1>3 DEF PhaseOK, SourceInv
  <2>2. \A q \in Procs \ {p} : Delivering(q) => Visible(ev[q])'
    BY <1>3, <2>1 DEF UndoInsert, Return, SourceInv, Visible, PhaseOK
  <2>3. \A q \in Procs \ {p} : pc[q] = "enqueued" => status'[ev[q]] = status[ev[q]]
    BY <1>3, <2>1 DEF UndoInsert, SourceInv, PhaseOK
  <2> QED BY <1>3, <2>2, <2>3, SourceFrame DEF Return, Delivering
<1>4. ASSUME NEW p \in Procs, status' = status, pc'[p] # "enqueued",
             \A q \in Procs \ {p} : pc'[q] = pc[q] /\ ev'[q] = ev[q],
             Delivering(p)' => Visible(ev'[p])
      PROVE  SourceInv'
  <2>1. \A q \in Procs : Visible(ev[q])' <=> Visible(ev'[q])
    BY <1>4 DEF Visible
  <2> QED BY <1>4, <2>1, SourceFrame DEF SourceInv, Visible, Delivering
<1>5. ASSUME NEW p \in Procs, Load(p) \/ RecordDelivery(p) \/ LoseRecord(p) \/ FinishRead(p)
                              \/ \E o \in {"ok", "failed"} : RunHandler(p, o)
      PROVE  SourceInv'
  <2>1. Delivering(p)
    BY <1>5 DEF Load, RecordDelivery, LoseRecord, FinishRead, RunHandler, Delivering
  <2>2. status' = status /\ pc'[p] # "enqueued"
        /\ (\A q \in Procs \ {p} : pc'[q] = pc[q] /\ ev'[q] = ev[q])
        /\ (Delivering(p)' => ev'[p] = ev[p])
    BY <1>5 DEF Load, RecordDelivery, LoseRecord, FinishRead, RunHandler, Delivering, Return, rows
  <2> QED BY <1>4, <2>1, <2>2 DEF SourceInv
<1>6. ASSUME NEW p \in Procs, FinishWrite(p) PROVE SourceInv'
  <2>1. /\ ev[p] \in Events /\ Visible(ev[p])
        /\ verdict[p].status \in {"processed", "dead", "failed"}
    BY <1>6 DEF FinishWrite, PhaseOK, SourceInv, Delivering
  <2>2. \A q \in Procs \ {p} : Delivering(q) => Visible(ev[q])'
    BY <1>6, <2>1 DEF FinishWrite, Return, SourceInv, Visible, PhaseOK
  <2>3. \A q \in Procs \ {p} : pc[q] = "enqueued" => status'[ev[q]] = status[ev[q]]
    BY <1>6, <2>1 DEF FinishWrite, SourceInv, PhaseOK, Visible
  <2> QED BY <1>6, <2>2, <2>3, SourceFrame DEF FinishWrite, Return, Delivering
<1>7. ASSUME NEW p \in Procs, LoseFinish(p) PROVE SourceInv'
  BY <1>4, <1>7 DEF LoseFinish, Return, Delivering, rows
<1>8. ASSUME NEW p \in Procs, Crash(p) PROVE SourceInv'
  <2>1. CASE pc[p] = "enqueued"
    BY <1>3, <1>8, <2>1 DEF Crash
  <2>2. CASE pc[p] # "enqueued"
    BY <1>4, <1>8, <2>2 DEF Crash, Return, Delivering, rows
  <2> QED BY <2>1, <2>2
<1>9. ASSUME NEW c \in Callers, NEW k, EmitReplay(c, k) \/ EnqueueRepeat(c, k) \/ EmitLost(c, k)
                                       \/ EmitLookup(c)
      PROVE  SourceInv'
  BY <1>4, <1>9 DEF EmitReplay, EnqueueRepeat, EmitLost, EmitLookup, StartDelivery, Return, Holder,
                    Delivering, Procs, rows
<1>10. ASSUME NEW c \in Callers, NEW e \in Events, NEW k, EmitInsert(c, e, k) PROVE SourceInv'
  <2>1. \A q \in Procs \ {c} : Delivering(q) => Visible(ev[q])'
    BY <1>10 DEF EmitInsert, InsertRow, StartDelivery, SourceInv, Visible, PhaseOK
  <2>2. \A q \in Procs \ {c} : pc[q] = "enqueued" => status'[ev[q]] = status[ev[q]]
    BY <1>10 DEF EmitInsert, InsertRow, SourceInv, PhaseOK
  <2> QED BY <1>10, <2>1, <2>2, SourceFrame DEF EmitInsert, InsertRow, StartDelivery, Visible, Procs
<1>11. ASSUME NEW c \in Callers, NEW e \in Events, NEW k, Enqueue(c, e, k) PROVE SourceInv'
  <2>1. \A q \in Procs : /\ Delivering(q) => Visible(ev[q]) /\ ev[q] \in Events /\ ev[q] # e
                         /\ pc[q] = "enqueued" => ev[q] \in Events /\ ev[q] # e
    BY <1>11 DEF Enqueue, InsertRow, SourceInv, Visible, PhaseOK
  <2>2. /\ \A d \in Events \ {e} : status'[d] = status[d]
        /\ status'[e] = "uncommitted"
    BY <1>11 DEF Enqueue, InsertRow
  <2>3. /\ \A q \in Procs \ {c} : pc'[q] = pc[q] /\ ev'[q] = ev[q]
        /\ pc'[c] = "enqueued" /\ ev'[c] = e
    BY <1>11 DEF Enqueue, Procs
  <2>4. \A q \in Procs : Delivering(q)' => Visible(ev[q])'
    BY <2>1, <2>2, <2>3 DEF Delivering, Visible
  <2>5. \A q \in Procs : pc'[q] = "enqueued" => status'[ev'[q]] = "uncommitted"
    BY <2>1, <2>2, <2>3 DEF SourceInv
  <2>6. \A p, q \in Procs : pc'[p] = "enqueued" /\ pc'[q] = "enqueued" /\ ev'[p] = ev'[q] => p = q
    <3> SUFFICES ASSUME NEW p \in Procs, NEW q \in Procs, p # q,
                        pc'[p] = "enqueued", pc'[q] = "enqueued"
                 PROVE  ev'[p] # ev'[q]
      OBVIOUS
    <3>1. CASE p = c
      BY <2>1, <2>3, <3>1
    <3>2. CASE q = c
      BY <2>1, <2>3, <3>2
    <3>3. CASE p # c /\ q # c
      BY <2>3, <3>3 DEF SourceInv
    <3> QED BY <3>1, <3>2, <3>3
  <2> QED BY <2>4, <2>5, <2>6 DEF SourceInv
<1>12. ASSUME NEW s \in Sweepers, Sweep(s) PROVE SourceInv'
  BY <1>12 DEF Sweep, rows, SourceInv, Delivering, Visible
<1>13. ASSUME NEW s \in Sweepers, NEW e \in Events, Claim(s, e) PROVE SourceInv'
  <2>1. CASE MayClaim(e)
    BY <1>4, <1>13, <2>1 DEF Claim, StartDelivery, MayClaim, Open, Visible, Procs
  <2>2. CASE ~MayClaim(e)
    BY <1>13, <2>2 DEF Claim, SourceInv, Delivering, Visible
  <2> QED BY <2>1, <2>2
<1>14. ASSUME NEW e \in Events, RetryDead(e) PROVE SourceInv'
  BY <1>14 DEF RetryDead, SourceInv, Delivering, Visible, PhaseOK, MayRevive
<1>15. CASE Tick
  BY <1>15 DEF Tick, local, SourceInv, Delivering, Visible
<1> QED
  BY <1>1, <1>2, <1>3, <1>5, <1>6, <1>7, <1>8, <1>9, <1>10, <1>11, <1>12, <1>13, <1>14, <1>15
  DEF Next, Step, Bookkeep, Write, RollbackSource

(* A step that changes at most one event, in one of the ways EventLife has.*)
LEMMA OneEvent ==
  ASSUME NEW e \in Events,
         \A d \in Events \ {e} : Stage(d)' = Stage(d) /\ (Done(d)' <=> Done(d)),
         \/ Stage(e)' = Stage(e) /\ (Done(e)' <=> Done(e))
         \/ Stage(e) = "absent" /\ Stage(e)' = "open" /\ (Done(e)' <=> Done(e))
         \/ Stage(e) # "absent" /\ Stage(e)' = Stage(e) /\ ~Done(e) /\ Done(e)'
         \/ /\ Stage(e) # "absent" /\ Stage(e)' \in {"open", "processed", "dead"}
            /\ Stage(e)' = "processed" => Done(e)
            /\ Done(e)' <=> Done(e)
  PROVE  [Promise!Next]_(Promise!vars)
<1> DEFINE S  == [d \in Events |-> Stage(d)]
           S1 == [d \in Events |-> Stage(d)']
           H  == [d \in Events |-> Done(d)]
           H1 == [d \in Events |-> Done(d)']
<1>1. S' = S1 /\ H' = H1
  OBVIOUS
<1>2. /\ S1 = [S EXCEPT ![e] = Stage(e)']
      /\ (Done(e)' <=> Done(e)) => H1 = H
  <2>1. S1 = [S EXCEPT ![e] = Stage(e)']
    OBVIOUS
  <2>2. ASSUME Done(e)' <=> Done(e) PROVE H1 = H
    <3>1. \A d \in Events : Done(d)' <=> Done(d)
      BY <2>2
    <3>2. \A d \in Events : Done(d) \in BOOLEAN /\ Done(d)' \in BOOLEAN
      BY DEF Done
    <3>3. \A d \in Events : Done(d)' = Done(d)
      BY <3>1, <3>2
    <3> QED BY <3>3
  <2> QED BY <2>1, <2>2
<1>3. CASE Stage(e)' = Stage(e) /\ (Done(e)' <=> Done(e))
  <2>1. S1 = S /\ H1 = H
    BY <1>2, <1>3
  <2> QED BY <1>1, <2>1 DEF Promise!vars
<1>4. CASE Stage(e) = "absent" /\ Stage(e)' = "open" /\ (Done(e)' <=> Done(e))
  <2>1. Promise!Store(e)
    BY <1>1, <1>2, <1>4 DEF Promise!Store
  <2> QED BY <2>1 DEF Promise!Next
<1>5. CASE Stage(e) # "absent" /\ Stage(e)' = Stage(e) /\ ~Done(e) /\ Done(e)'
  <2>1. S1 = S
    BY <1>2, <1>5
  <2>2. H1 = [H EXCEPT ![e] = TRUE]
    <3>1. \A d \in Events \ {e} : H1[d] = H[d]
      <4>1. \A d \in Events : Done(d) \in BOOLEAN /\ Done(d)' \in BOOLEAN
        BY DEF Done
      <4>2. \A d \in Events \ {e} : Done(d)' = Done(d)
        BY <4>1
      <4> QED BY <4>2
    <3>2. H1[e] = TRUE
      <4>1. Done(e)' = TRUE
        BY <1>5 DEF Done
      <4> QED BY <4>1
    <3> QED BY <3>1, <3>2
  <2>3. Promise!Handle(e)
    BY <1>1, <1>5, <2>1, <2>2 DEF Promise!Handle
  <2> QED BY <2>3 DEF Promise!Next
<1>6. CASE /\ Stage(e) # "absent" /\ Stage(e)' \in {"open", "processed", "dead"}
           /\ Stage(e)' = "processed" => Done(e)
           /\ Done(e)' <=> Done(e)
           /\ Stage(e)' # Stage(e)
  <2>1. Promise!Conclude(e, Stage(e)')
    BY <1>1, <1>2, <1>6 DEF Promise!Conclude
  <2>2. Promise!Process(e) \/ Promise!GiveUp(e) \/ Promise!Reopen(e)
    BY <1>6, <2>1 DEF Promise!Process, Promise!GiveUp, Promise!Reopen
  <2> QED BY <2>2 DEF Promise!Next
<1> QED BY <1>3, <1>4, <1>5, <1>6

(* Every write of a status is one of those ways, or none.                  *)
LEMMA StatusWrite ==
  ASSUME TypeOK, NEW e \in Events, NEW s \in Statuses,
         ran' = ran, status' = [status EXCEPT ![e] = s],
         s \in {"absent", "uncommitted"} => ~Visible(e),
         s \in {"processed", "dead"} => Visible(e),
         s = "processed" => Done(e)
  PROVE  [Promise!Next]_(Promise!vars)
<1>1. status'[e] = s /\ \A d \in Events \ {e} : status'[d] = status[d]
  BY DEF TypeOK, RowsOK
<1>2. \A d \in Events : Done(d)' <=> Done(d)
  BY DEF Done
<1>3. \A d \in Events \ {e} : Stage(d)' = Stage(d)
  BY <1>1 DEF Stage
<1>4. status[e] \in Statuses
  BY DEF TypeOK, RowsOK
<1>5. Visible(e) => Stage(e) # "absent"
  BY <1>4 DEF Visible, Stage, Statuses, Open
<1>6. ~Visible(e) => Stage(e) = "absent"
  BY DEF Visible, Stage, Open
<1>7. CASE s \in {"absent", "uncommitted"}
  <2>1. Stage(e)' = "absent"
    BY <1>1, <1>7 DEF Stage, Open
  <2> QED BY <1>2, <1>3, <1>6, <1>7, <2>1, OneEvent
<1>8. CASE s \in {"processed", "dead"}
  <2>1. Stage(e)' = s
    BY <1>1, <1>8 DEF Stage, Open
  <2> QED BY <1>2, <1>3, <1>5, <1>8, <2>1, OneEvent
<1>9. CASE s \in Open
  <2>1. Stage(e)' = "open"
    BY <1>1, <1>9 DEF Stage, Open
  <2> QED BY <1>2, <1>3, <1>5, <1>6, <2>1, OneEvent
<1> QED BY <1>7, <1>8, <1>9 DEF Statuses, Open

LEMMA NoWrite ==
  ASSUME status' = status, ran' = ran
  PROVE  UNCHANGED Promise!vars
<1>1. \A d : Stage(d)' = Stage(d)
  BY DEF Stage
<1>2. \A d : Done(d)' = Done(d)
  BY DEF Done
<1> QED BY <1>1, <1>2 DEF Promise!vars

LEMMA PromiseStep ==
  ASSUME TypeOK, PhaseOK, SourceInv, ProcessedMeansEveryHandlerRan', [Next]_vars
  PROVE  [Promise!Next]_(Promise!vars)
<1>1. CASE UNCHANGED vars
  BY <1>1, NoWrite DEF vars
<1>2. ASSUME NEW p \in Procs, CommitSource(p) PROVE [Promise!Next]_(Promise!vars)
  <2>1. ev[p] \in Events
    BY <1>2 DEF CommitSource, PhaseOK
  <2>2. status' = [status EXCEPT ![ev[p]] = "pending"] /\ ran' = ran
    BY <1>2 DEF CommitSource
  <2> QED BY <2>1, <2>2, StatusWrite DEF Statuses
<1>3. ASSUME NEW p \in Procs, pc[p] = "enqueued", UndoInsert(ev[p]) PROVE [Promise!Next]_(Promise!vars)
  <2>1. ev[p] \in Events /\ ~Visible(ev[p])
    BY <1>3 DEF PhaseOK, SourceInv, Visible
  <2>2. status' = [status EXCEPT ![ev[p]] = "absent"] /\ ran' = ran
    BY <1>3 DEF UndoInsert
  <2> QED BY <2>1, <2>2, StatusWrite DEF Statuses
<1>4. ASSUME NEW p \in Procs, NEW o \in {"ok", "failed"}, RunHandler(p, o)
      PROVE  [Promise!Next]_(Promise!vars)
  <2>1. ev[p] \in Events /\ Visible(ev[p])
    BY <1>4 DEF RunHandler, PhaseOK, SourceInv, Delivering
  <2>2. PICK h \in todo[p] : ran' = [ran EXCEPT ![ev[p]][h] = @ \/ o = "ok"]
    BY <1>4 DEF RunHandler
  <2>3. status' = status
    BY <1>4 DEF RunHandler
  <2>4. \A d : Stage(d)' = Stage(d)
    BY <2>3 DEF Stage
  <2>5. \A d \in Events \ {ev[p]} : ran'[d] = ran[d]
    BY <2>1, <2>2 DEF TypeOK, RowsOK
  <2>6. \A d \in Events \ {ev[p]} : Done(d)' <=> Done(d)
    BY <2>5 DEF Done
  <2>7. Done(ev[p]) => \A k \in Handlers : ran'[ev[p]][k]
    BY <2>1, <2>2 DEF Done, TypeOK, RowsOK
  <2>8. status[ev[p]] \in Statuses \ {"absent", "uncommitted"}
    BY <2>1 DEF Visible, TypeOK, RowsOK
  <2>9. Stage(ev[p]) # "absent"
    BY <2>8 DEF Stage, Statuses, Open
  <2>10. PICK e \in Events : e = ev[p]
    BY <2>1
  <2>11. Done(e) => Done(e)'
    BY <2>7, <2>10 DEF Done
  <2> QED BY <2>4, <2>6, <2>9, <2>10, <2>11, OneEvent
<1>5. ASSUME NEW p \in Procs, FinishWrite(p) PROVE [Promise!Next]_(Promise!vars)
  <2>1. /\ ev[p] \in Events /\ Visible(ev[p])
        /\ verdict[p].status \in {"processed", "dead", "failed"}
    BY <1>5 DEF FinishWrite, PhaseOK, SourceInv, Delivering
  <2>2. status' = [status EXCEPT ![ev[p]] = verdict[p].status] /\ ran' = ran
    BY <1>5 DEF FinishWrite
  <2>3. verdict[p].status = "processed" => Done(ev[p])
    <3>1. verdict[p].status = "processed" => status'[ev[p]] = "processed"
      BY <2>1, <2>2 DEF TypeOK, RowsOK
    <3> QED BY <2>1, <2>2, <3>1 DEF ProcessedMeansEveryHandlerRan, Done
  <2> QED BY <2>1, <2>2, <2>3, StatusWrite DEF Statuses
<1>6. ASSUME NEW c, NEW e \in Events, NEW k, EmitInsert(c, e, k) PROVE [Promise!Next]_(Promise!vars)
  <2>1. status' = [status EXCEPT ![e] = "pending"] /\ ran' = ran
    BY <1>6 DEF EmitInsert, InsertRow
  <2> QED BY <2>1, StatusWrite DEF Statuses
<1>7. ASSUME NEW c, NEW e \in Events, NEW k, Enqueue(c, e, k) PROVE [Promise!Next]_(Promise!vars)
  <2>1. status' = [status EXCEPT ![e] = "uncommitted"] /\ ran' = ran /\ ~Visible(e)
    BY <1>7 DEF Enqueue, InsertRow, Visible
  <2> QED BY <2>1, StatusWrite DEF Statuses
<1>8. ASSUME NEW e \in Events, RetryDead(e) PROVE [Promise!Next]_(Promise!vars)
  <2>1. CASE MayRevive(e)
    <3>1. status' = [status EXCEPT ![e] = "pending"] /\ ran' = ran
      BY <1>8, <2>1 DEF RetryDead
    <3> QED BY <3>1, StatusWrite DEF Statuses
  <2>2. CASE ~MayRevive(e)
    BY <1>8, <2>2, NoWrite DEF RetryDead
  <2> QED BY <2>1, <2>2
<1>9. ASSUME NEW p \in Procs, Load(p) \/ RecordDelivery(p) \/ LoseRecord(p) \/ FinishRead(p) \/ LoseFinish(p)
      PROVE  status' = status /\ ran' = ran
  BY <1>9 DEF Load, RecordDelivery, LoseRecord, FinishRead, LoseFinish, rows
<1>10. ASSUME NEW p \in Procs, Crash(p) PROVE [Promise!Next]_(Promise!vars)
  <2>1. CASE pc[p] = "enqueued"
    BY <1>3, <1>10, <2>1 DEF Crash
  <2>2. CASE pc[p] # "enqueued"
    BY <1>10, <2>2, NoWrite DEF Crash, rows
  <2> QED BY <2>1, <2>2
<1>11. ASSUME NEW c, NEW k, EmitReplay(c, k) \/ EnqueueRepeat(c, k) \/ EmitLost(c, k) \/ EmitLookup(c)
       PROVE  status' = status /\ ran' = ran
  BY <1>11 DEF EmitReplay, EnqueueRepeat, EmitLost, EmitLookup, rows
<1>12. ASSUME NEW s, Sweep(s) \/ (\E e \in Events : Claim(s, e)) \/ Tick
       PROVE  status' = status /\ ran' = ran
  BY <1>12 DEF Sweep, Claim, Tick, rows
<1> QED
  BY <1>1, <1>2, <1>3, <1>4, <1>5, <1>6, <1>7, <1>8, <1>9, <1>10, <1>11, <1>12, NoWrite
  DEF Next, Step, Bookkeep, Write, RollbackSource

(* As long as the bus can write its books it keeps its promise, EventLife, *)
(* whatever overlaps, is replayed, retried or dies: what a publisher may   *)
(* conclude from the status of its event (policy_publication.py L417-433). *)
THEOREM PromiseTheorem ==
  ASSUME BookkeepingMayFail = FALSE
  PROVE  Spec => KeepsPromise
<1>1. Init => Promise!Init
  <2>1. 1 \in Handlers
    BY BusAssumption DEF Handlers
  <2>2. ASSUME Init PROVE \A e \in Events : Stage(e) = "absent" /\ Done(e) = FALSE
    BY <2>1, <2>2 DEF Init, Stage, Done, Open
  <2> QED BY <2>2 DEF Promise!Init
<1>2. Init => SourceInv
  BY DEF Init, SourceInv, Delivering
<1>3. TypeOK /\ PhaseOK /\ SourceInv /\ [Next]_vars => SourceInv'
  BY SourceStep
<1>4. TypeOK /\ PhaseOK /\ SourceInv /\ ProcessedMeansEveryHandlerRan' /\ [Next]_vars
        => [Promise!Next]_(Promise!vars)
  BY PromiseStep
<1> QED BY <1>1, <1>2, <1>3, <1>4, TypeInv, ProcessedInv, PTL DEF Spec, KeepsPromise, Promise!Spec
=============================================================================
