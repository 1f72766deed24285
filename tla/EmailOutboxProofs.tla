------------------------- MODULE EmailOutboxProofs -------------------------
(* Invariance proofs for the email outbox: types, what is accepted once,   *)
(* what the daily caps let through, and how often the provider is asked.   *)
EXTENDS EmailOutbox, FiniteSetTheorems, FunctionTheorems, TLAPS

(* A worker that holds ordinary mail it has not handed over has budget.    *)
BudgetOK ==
  \A w \in Workers :
    pc[w] \in {"check", "send"} /\ held[w] \notin Critical => budget[w] > 0

Typed == TypeOK /\ BudgetOK

LEMMA Constants ==
  /\ Nat \subseteq Times /\ NoTime \in Times /\ NoRow \notin Rows /\ Tomorrow \in Times
  /\ {"none", "sending", "purged", "queued", "retry_due", "provider_accepted", "suppressed",
      "permanent_failure", "logged_only"} \subseteq Statuses
BY OutboxAssumption DEF Times, NoTime, NoRow, Tomorrow, Statuses, Waiting, Ended

(* A change to one row, whatever it is.                                    *)
LEMMA RowUpdate ==
  ASSUME NEW rows \in [Rows -> RowType], NEW r \in Rows, NEW s \in Statuses, NEW a \in Nat,
         NEW t \in Times, NEW l \in Times, NEW c \in Nat
  PROVE  /\ [rows EXCEPT ![r] = [@ EXCEPT !.status = s, !.attempts = a, !.nextAt = t, !.leased = l]]
               \in [Rows -> RowType]
         /\ [rows EXCEPT ![r] = [@ EXCEPT !.status = s, !.leased = l]] \in [Rows -> RowType]
         /\ [Absent EXCEPT !.status = s, !.created = c, !.nextAt = t] \in RowType
         /\ [Absent EXCEPT !.status = s] \in RowType
<1>1. rows[r] \in RowType
  OBVIOUS
<1>2. [rows[r] EXCEPT !.status = s, !.attempts = a, !.nextAt = t, !.leased = l] \in RowType
  BY <1>1 DEF RowType
<1>3. [rows[r] EXCEPT !.status = s, !.leased = l] \in RowType
  BY <1>1 DEF RowType
<1>4. /\ [Absent EXCEPT !.status = s, !.created = c, !.nextAt = t] \in RowType
      /\ [Absent EXCEPT !.status = s] \in RowType
  BY Constants DEF RowType, Absent
<1> QED BY <1>2, <1>3, <1>4

(* Writing the result of a held row, and the end of a message or a pass.   *)
LEMMA DoneTypes ==
  ASSUME TypeOK, NEW w \in Workers, held[w] \in Rows,
         NEW s \in Statuses, NEW a \in Nat, NEW t \in Times, Done(w, s, a, t)
  PROVE  row' \in [Rows -> RowType]
<1> DEFINE new == [row[held[w]] EXCEPT !.status = s, !.leased = NoTime, !.attempts = a, !.nextAt = t]
<1>1. row \in [Rows -> RowType]
  BY DEF TypeOK
<1>2. NoTime \in Times
  BY Constants
<1>3. new \in RowType
  BY <1>1, <1>2 DEF RowType
<1>4. row' = row \/ row' = [row EXCEPT ![held[w]] = new]
  BY DEF Done
<1> QED BY <1>1, <1>3, <1>4

LEMMA NextMessageTypes ==
  ASSUME Typed, NEW w \in Workers, pc[w] \in {"check", "write"}, NextMessage(w),
         row' \in [Rows -> RowType], past' \in [Rows -> PastType],
         clock' = clock, paused' = paused, start' = start, batch' = batch, seen' = seen, budget' = budget
  PROVE  Typed'
<1>1. NoRow \notin Rows
  BY Constants
<1> QED BY <1>1 DEF Typed, TypeOK, BudgetOK, NextMessage

LEMMA ForgetTypes ==
  ASSUME Typed, NEW w \in Workers, Forget(w),
         clock' = clock, paused' = paused, row' = row, past' \in [Rows -> PastType]
  PROVE  Typed'
<1>1. NoRow \notin Rows
  BY Constants
<1> QED BY <1>1 DEF Typed, TypeOK, BudgetOK, Forget

LEMMA AttemptType ==
  ASSUME TypeOK, NEW w \in Workers, held[w] \in Rows
  PROVE  /\ Attempt(w) \in Nat \ {0}
         /\ Wait(Attempt(w)) \in Nat
         /\ Kept(w) \in RowType /\ row[held[w]] \in RowType
<1>1. Attempt(w) \in Nat \ {0}
  BY DEF TypeOK, Attempt
<1>2. Wait(Attempt(w)) \in Nat
  BY <1>1, OutboxAssumption DEF Wait
<1>3. Kept(w) \in RowType /\ row[held[w]] \in RowType
  BY DEF TypeOK, Kept
<1> QED BY <1>1, <1>2, <1>3

LEMMA HistoryTypes ==
  ASSUME NEW p \in PastType, NEW o
  PROVE  Handed(p, o) \in PastType
<1>1. p.handed + 1 \in Nat /\ p.accepted + (IF o = "accepted" THEN 1 ELSE 0) \in Nat
  BY DEF PastType
<1> QED BY <1>1 DEF PastType, Handed

(* What is written down of a lost answer, and what is not touched by it.   *)
LEMMA LostTypes ==
  ASSUME TypeOK, NEW w \in Workers, LoseAnswer(w)
  PROVE  past' \in [Rows -> PastType]
<1>1. CASE pc[w] = "write"
  <2>1. held[w] \in Rows /\ past[held[w]] \in PastType
    BY <1>1 DEF TypeOK
  <2>2. Unheard(past[held[w]]) \in PastType
    BY <2>1 DEF PastType, Unheard
  <2> QED BY <1>1, <2>1, <2>2 DEF TypeOK, LoseAnswer
<1>2. CASE pc[w] # "write"
  BY <1>2 DEF LoseAnswer, TypeOK
<1> QED BY <1>1, <1>2

LEMMA LostKeeps ==
  ASSUME TypeOK, NEW w \in Workers, LoseAnswer(w), NEW r \in Rows
  PROVE  past'[r].accepted = past[r].accepted /\ (r # held[w] => past'[r] = past[r])
<1>1. CASE pc[w] = "write" /\ r = held[w]
  <2>1. past[r] \in PastType /\ past'[r] = Unheard(past[r])
    BY <1>1 DEF TypeOK, LoseAnswer
  <2> QED BY <1>1, <2>1 DEF PastType, Unheard
<1>2. CASE pc[w] # "write" \/ r # held[w]
  BY <1>2 DEF LoseAnswer, TypeOK
<1> QED BY <1>1, <1>2

LEMMA InitTyped == ASSUME Init PROVE Typed
<1>1. Absent \in RowType /\ Blank \in PastType
  BY Constants DEF Absent, Blank, RowType, PastType
<1>2. 0 \in 0 .. MaxTime
  BY OutboxAssumption
<1> QED BY <1>1, <1>2, Constants DEF Init, Typed, TypeOK, BudgetOK

LEMMA NextTyped == ASSUME Typed, [Next]_vars PROVE Typed'
<1> USE OutboxAssumption
<1>0. NoRow \notin Rows
  BY Constants
<1>1. ASSUME NEW r \in Rows, Enqueue(r) PROVE Typed'
  <2>1. clock \in Nat
    BY DEF Typed, TypeOK
  <2>2. row' \in [Rows -> RowType]
    <3>1. PICK t \in {NoTime, clock + LATER} :
            row' = [row EXCEPT ![r] = [Absent EXCEPT !.status = "queued", !.created = clock, !.nextAt = t]]
      BY <1>1 DEF Enqueue
    <3>2. t \in Times
      BY <2>1, Constants
    <3>3. [Absent EXCEPT !.status = "queued", !.created = clock, !.nextAt = t] \in RowType
      BY <2>1, <3>2, Constants, RowUpdate DEF Typed, TypeOK
    <3> QED BY <3>1, <3>3 DEF Typed, TypeOK
  <2> QED BY <1>1, <2>2 DEF Enqueue, pass, Typed, TypeOK, BudgetOK
<1>2. ASSUME NEW r \in Rows, Requeue(r) PROVE Typed'
  <2>1. row' \in [Rows -> RowType]
    <3>1. row' = [row EXCEPT ![r] = [@ EXCEPT !.status = "queued", !.attempts = 0,
                                              !.nextAt = NoTime, !.leased = NoTime]]
      BY <1>2 DEF Requeue
    <3>2. [row[r] EXCEPT !.status = "queued", !.attempts = 0, !.nextAt = NoTime, !.leased = NoTime] \in RowType
      <4>1. row[r] \in RowType
        BY DEF Typed, TypeOK
      <4> QED BY <4>1, Constants DEF RowType
    <3> QED BY <3>1, <3>2 DEF Typed, TypeOK
  <2>2. past' \in [Rows -> PastType]
    <3>1. [Blank EXCEPT !.accepted = past[r].accepted] \in PastType
      <4>1. past[r] \in PastType
        BY DEF Typed, TypeOK
      <4> QED BY <4>1 DEF PastType, Blank
    <3> QED BY <1>2, <3>1 DEF Requeue, Typed, TypeOK
  <2> QED BY <1>2, <2>1, <2>2 DEF Requeue, pass, Typed, TypeOK, BudgetOK
<1>3. ASSUME NEW r \in Rows, Purge(r) PROVE Typed'
  <2>1. row' \in [Rows -> RowType]
    <3>1. [Absent EXCEPT !.status = "purged"] \in RowType
      BY Constants DEF Absent, RowType
    <3> QED BY <1>3, <3>1 DEF Purge, Typed, TypeOK
  <2> QED BY <1>3, <2>1 DEF Purge, pass, Typed, TypeOK, BudgetOK
<1>4. CASE SetPaused
  BY <1>4 DEF SetPaused, pass, Typed, TypeOK, BudgetOK
<1>5. ASSUME NEW w \in Workers, StartPass(w) PROVE Typed'
  <2>1. seen' \in [Workers -> [Rows -> Nat]]
    <3>1. \A r \in Rows : row[r].attempts \in Nat
      BY DEF Typed, TypeOK, RowType
    <3>2. [r \in Rows |-> IF r \in Selection THEN row[r].attempts ELSE 0] \in [Rows -> Nat]
      BY <3>1
    <3>3. seen' = [seen EXCEPT ![w] = [r \in Rows |-> IF r \in Selection THEN row[r].attempts ELSE 0]]
      BY <1>5 DEF StartPass
    <3>4. seen \in [Workers -> [Rows -> Nat]]
      BY DEF Typed, TypeOK
    <3> QED BY <3>2, <3>3, <3>4
  <2>2. Selection \in SUBSET Rows
    BY DEF Selection
  <2>3. batch' \in [Workers -> SUBSET Rows] /\ start' \in [Workers -> Nat] /\ budget' \in [Workers -> Nat]
    BY <1>5, <2>2 DEF StartPass, Typed, TypeOK
  <2>4. /\ pc[w] = "idle" /\ pc' = [pc EXCEPT ![w] = "pass"]
        /\ budget' = [budget EXCEPT ![w] = PER_MINUTE]
        /\ UNCHANGED <<clock, row, paused, held, result, claimedAt, past>>
    BY <1>5 DEF StartPass
  <2>5. TypeOK'
    BY <2>1, <2>3, <2>4 DEF Typed, TypeOK
  <2>6. BudgetOK'
    BY <2>4 DEF Typed, TypeOK, BudgetOK
  <2> QED BY <2>5, <2>6 DEF Typed
<1>6. ASSUME NEW w \in Workers, EndPass(w) PROVE Typed'
  <2>1. past' \in [Rows -> PastType]
    BY <1>6 DEF EndPass, Typed, TypeOK
  <2> QED BY <1>6, <2>1, ForgetTypes DEF EndPass
<1>7. ASSUME NEW w \in Workers, Claim(w) PROVE Typed'
  <2>1. PICK r \in batch[w] :
          /\ ~Unaffordable(w, r)
          /\ batch' = [batch EXCEPT ![w] = @ \ {r}]
          /\ \/ /\ row' = [row EXCEPT ![r] = [@ EXCEPT !.status = "sending", !.leased = start[w] + LEASE]]
                /\ pc' = [pc EXCEPT ![w] = "check"]
                /\ held' = [held EXCEPT ![w] = r]
                /\ claimedAt' = [claimedAt EXCEPT ![w] = IF Pace = "message" THEN clock ELSE 0]
             \/ UNCHANGED <<row, pc, held, claimedAt>>
    BY <1>7 DEF Claim
  <2>2. r \in Rows /\ pc[w] = "pass" /\ start[w] + LEASE \in Nat
    <3>1. pc[w] = "pass" /\ r \in Rows /\ start[w] \in Nat
      BY <1>7, <2>1 DEF Claim, Typed, TypeOK
    <3>2. start[w] + LEASE \in Nat
      BY <3>1
    <3> QED BY <3>1, <3>2
  <2>3. UNCHANGED <<clock, paused, start, seen, budget, result, past>>
    BY <1>7 DEF Claim
  <2>4. CASE UNCHANGED <<row, pc, held, claimedAt>>
    BY <2>1, <2>3, <2>4 DEF Typed, TypeOK, BudgetOK
  <2>5. CASE /\ row' = [row EXCEPT ![r] = [@ EXCEPT !.status = "sending", !.leased = start[w] + LEASE]]
             /\ pc' = [pc EXCEPT ![w] = "check"]
             /\ held' = [held EXCEPT ![w] = r]
             /\ claimedAt' = [claimedAt EXCEPT ![w] = IF Pace = "message" THEN clock ELSE 0]
    <3>1. row' \in [Rows -> RowType]
      <4>1. start[w] + LEASE \in Times /\ "sending" \in Statuses
        BY <2>2, Constants
      <4>2. [row[r] EXCEPT !.status = "sending", !.leased = start[w] + LEASE] \in RowType
        <5>1. row[r] \in RowType
          BY <2>2 DEF Typed, TypeOK
        <5> QED BY <4>1, <5>1 DEF RowType
      <4> QED BY <2>5, <4>2 DEF Typed, TypeOK
    <3>2. r \notin Critical => budget[w] > 0
      BY <2>1 DEF Unaffordable, Typed, TypeOK
    <3>3. BudgetOK'
      BY <2>2, <2>3, <2>5, <3>2 DEF Typed, TypeOK, BudgetOK
    <3>4. /\ batch' \in [Workers -> SUBSET Rows] /\ held' \in [Workers -> Rows \cup {NoRow}]
          /\ claimedAt' \in [Workers -> Nat]
          /\ pc' \in [Workers -> {"idle", "pass", "check", "send", "write"}]
      <4>1. batch[w] \in SUBSET Rows /\ batch \in [Workers -> SUBSET Rows] /\ clock \in Nat
        BY DEF Typed, TypeOK
      <4>2. batch' \in [Workers -> SUBSET Rows]
        BY <2>1, <4>1
      <4>3. held' \in [Workers -> Rows \cup {NoRow}] /\ claimedAt' \in [Workers -> Nat]
        BY <2>2, <2>5, <4>1 DEF Typed, TypeOK
      <4>4. pc' \in [Workers -> {"idle", "pass", "check", "send", "write"}]
        BY <2>5 DEF Typed, TypeOK
      <4> QED BY <4>2, <4>3, <4>4
    <3>5. result[w] = "none"
      BY <2>2 DEF Typed, TypeOK
    <3>6. TypeOK'
      BY <2>2, <2>3, <2>5, <3>1, <3>4, <3>5 DEF Typed, TypeOK
    <3> QED BY <3>3, <3>6 DEF Typed
  <2> QED BY <2>1, <2>4, <2>5
<1>8. ASSUME NEW w \in Workers, CheckStops(w) \/ Postpone(w) \/ Unexpected(w) \/ RecordEnd(w) PROVE Typed'
  <2>1. /\ pc[w] \in {"check", "write"} /\ NextMessage(w)
        /\ UNCHANGED <<clock, paused, pass>> /\ (past' = past \/ LoseAnswer(w))
    BY <1>8 DEF CheckStops, Postpone, Unexpected, RecordEnd
  <2>2. held[w] \in Rows
    BY <2>1 DEF Typed, TypeOK
  <2>3. \E s \in Statuses, a \in Nat, t \in Times : Done(w, s, a, t)
    <3>1. /\ Kept(w).attempts \in Nat /\ Kept(w).nextAt \in Times
          /\ Attempt(w) \in Nat /\ start[w] + QUIET \in Times
          /\ start[w] + LATER \in Times /\ Tomorrow \in Times
      <4>1. Kept(w).attempts \in Nat /\ Kept(w).nextAt \in Times /\ Attempt(w) \in Nat
        BY <2>2, AttemptType DEF Typed, RowType
      <4>2. start[w] + QUIET \in Nat /\ start[w] + LATER \in Nat
        BY DEF Typed, TypeOK
      <4> QED BY <4>1, <4>2, Constants
    <3>2. {"suppressed", "permanent_failure", "retry_due", "provider_accepted", "logged_only"} \subseteq Statuses
      BY DEF Statuses, Waiting, Ended
    <3>3. CASE CheckStops(w)
      BY <3>1, <3>2, <3>3 DEF CheckStops, Suppressed, Unrenderable
    <3>4. CASE Postpone(w)
      BY <3>1, <3>2, <3>4 DEF Postpone, QuietHours, CapReached
    <3>5. CASE Unexpected(w)
      BY <3>1, <3>2, <3>5 DEF Unexpected
    <3>6. CASE RecordEnd(w)
      <4>1. Ending(result[w]) \in Statuses
        BY <3>2, <3>6 DEF RecordEnd, Ending
      <4> QED BY <3>1, <3>6, <4>1 DEF RecordEnd
    <3> QED BY <1>8, <3>3, <3>4, <3>5, <3>6
  <2>4. row' \in [Rows -> RowType]
    BY <2>2, <2>3, DoneTypes DEF Typed
  <2>5. past' \in [Rows -> PastType]
    BY <2>1, LostTypes DEF Typed, TypeOK
  <2> QED BY <2>1, <2>4, <2>5, NextMessageTypes DEF pass
<1>9. ASSUME NEW w \in Workers, Cleared(w) PROVE Typed'
  BY <1>9 DEF Cleared, pass, Typed, TypeOK, BudgetOK
<1>10. ASSUME NEW w \in Workers, NEW o \in Answers, Send(w, o) PROVE Typed'
  <2>1. pc[w] = "send" /\ held[w] \in Rows
    BY <1>10 DEF Send, Typed, TypeOK
  <2>2. past' \in [Rows -> PastType]
    <3>1. past[held[w]] \in PastType
      BY <2>1 DEF Typed, TypeOK
    <3>2. past' = [past EXCEPT ![held[w]] = Handed(past[held[w]], o)]
      BY <1>10 DEF Send
    <3> QED BY <2>1, <3>1, <3>2, HistoryTypes DEF Typed, TypeOK
  <2>3. budget' \in [Workers -> Nat]
    <3>1. held[w] \notin Critical => budget[w] - 1 \in Nat
      BY <2>1 DEF Typed, TypeOK, BudgetOK
    <3> QED BY <1>10, <3>1 DEF Send, Typed, TypeOK
  <2>4. o # "none"
    BY DEF AllAnswers
  <2>5. TypeOK'
    BY <1>10, <2>1, <2>2, <2>3, <2>4 DEF Send, Typed, TypeOK
  <2>6. BudgetOK'
    BY <1>10 DEF Send, Typed, TypeOK, BudgetOK
  <2> QED BY <2>5, <2>6 DEF Typed
<1>11. ASSUME NEW w \in Workers, RecordFailure(w) PROVE Typed'
  <2>1. pc[w] = "write" /\ held[w] \in Rows /\ NextMessage(w)
        /\ UNCHANGED <<clock, paused, pass, past>>
    BY <1>11 DEF RecordFailure, Typed, TypeOK
  <2>2. row' \in [Rows -> RowType]
    <3>1. /\ Kept(w).nextAt \in Times /\ Attempt(w) \in Nat
          /\ start[w] + Wait(Attempt(w)) \in Times
      <4>1. Kept(w).nextAt \in Times /\ Attempt(w) \in Nat /\ Wait(Attempt(w)) \in Nat
        BY <2>1, AttemptType DEF Typed, RowType
      <4>2. start[w] + Wait(Attempt(w)) \in Nat
        BY <4>1 DEF Typed, TypeOK
      <4> QED BY <4>1, <4>2, Constants
    <3>2. {"permanent_failure", "retry_due"} \subseteq Statuses
      BY DEF Statuses, Waiting, Ended
    <3>3. \E s \in Statuses, t \in Times : Done(w, s, Attempt(w), t)
      BY <1>11, <3>1, <3>2 DEF RecordFailure
    <3> QED BY <2>1, <3>1, <3>3, DoneTypes DEF Typed
  <2>3. past' \in [Rows -> PastType]
    BY <2>1 DEF Typed, TypeOK
  <2> QED BY <2>1, <2>2, <2>3, NextMessageTypes DEF pass
<1>12. ASSUME NEW w \in Workers, Crash(w) PROVE Typed'
  BY <1>12, ForgetTypes, LostTypes DEF Crash, Typed
<1>13. CASE Tick
  BY <1>13 DEF Tick, pass, Typed, TypeOK, BudgetOK
<1>14. CASE UNCHANGED vars
  BY <1>14 DEF vars, pass, Typed, TypeOK, BudgetOK
<1> QED BY <1>1, <1>2, <1>3, <1>4, <1>5, <1>6, <1>7, <1>8, <1>9, <1>10, <1>11, <1>12, <1>13, <1>14 DEF Next

(* The table, the passes and the histories are well formed, and no pass    *)
(* spends more than the budget of ordinary mail it was given.              *)
THEOREM OutboxTypes == Spec => [](TypeOK /\ BudgetOK)
<1>1. Typed /\ [Next]_vars => Typed'
  BY NextTyped
<1> QED BY InitTyped, <1>1, PTL DEF Spec, Typed

-----------------------------------------------------------------------------
(* The daily cap.                                                          *)
(* For a set S of rows: what the table shows as accepted and what is in    *)
(* the provider's hands exceed the cap C on S by one for each other worker.*)
AcceptedOf(S) == {r \in S : row[r].status = "provider_accepted"}
InFlightOf(S) ==
  {w \in Workers : held[w] \in S /\ (pc[w] = "send" \/ (pc[w] = "write" /\ result[w] = "accepted"))}
TableBound(S, C) ==
  Cardinality(AcceptedOf(S)) + Cardinality(InFlightOf(S)) <= C + Cardinality(Workers) - 1

(* The two caps: of all mail, and of ordinary mail.                        *)
Cap(S, C) ==
  \/ S = Rows /\ C = DAILY_CAP * CRITICAL_CEILING
  \/ S = Rows \ Critical /\ C = DAILY_CAP

LEMMA Finite ==
  ASSUME NEW S \in SUBSET Rows
  PROVE
  /\ IsFiniteSet(AcceptedOf(S)) /\ Cardinality(AcceptedOf(S)) \in Nat
  /\ IsFiniteSet(InFlightOf(S)) /\ Cardinality(InFlightOf(S)) \in Nat
  /\ Cardinality(Workers) \in Nat /\ DAILY_CAP * CRITICAL_CEILING \in Nat
<1>1. AcceptedOf(S) \subseteq S /\ InFlightOf(S) \subseteq Workers
  BY DEF AcceptedOf, InFlightOf
<1>2. IsFiniteSet(AcceptedOf(S)) /\ IsFiniteSet(InFlightOf(S))
  BY <1>1, OutboxAssumption, FS_Subset
<1> QED BY <1>2, OutboxAssumption, FS_CardinalityType

(* A step that adds nothing to either set keeps the bound.                 *)
LEMMA NothingAdded ==
  ASSUME NEW S \in SUBSET Rows, NEW C \in Nat, TableBound(S, C),
         AcceptedOf(S)' \subseteq AcceptedOf(S), InFlightOf(S)' \subseteq InFlightOf(S)
  PROVE  TableBound(S, C)'
<1>1. /\ Cardinality(AcceptedOf(S)') \in Nat /\ Cardinality(AcceptedOf(S)') <= Cardinality(AcceptedOf(S))
      /\ Cardinality(InFlightOf(S)') \in Nat /\ Cardinality(InFlightOf(S)') <= Cardinality(InFlightOf(S))
  BY Finite, FS_Subset, FS_CardinalityType
<1>2. TableBound(S, C)' <=> Cardinality(AcceptedOf(S)') + Cardinality(InFlightOf(S)') <= C + Cardinality(Workers) - 1
  BY DEF TableBound
<1>3. TableBound(S, C) <=> Cardinality(AcceptedOf(S)) + Cardinality(InFlightOf(S)) <= C + Cardinality(Workers) - 1
  BY DEF TableBound
<1> QED BY <1>1, <1>2, <1>3, Finite

(* Any other result written puts nothing among the accepted.               *)
LEMMA WriteOther ==
  ASSUME TypeOK, NEW S \in SUBSET Rows, NEW w \in Workers, held[w] \in Rows, NEW s, s # "provider_accepted", NEW a, NEW t,
         Done(w, s, a, t)
  PROVE  AcceptedOf(S)' \subseteq AcceptedOf(S)
<1> DEFINE new == [row[held[w]] EXCEPT !.status = s, !.leased = NoTime, !.attempts = a, !.nextAt = t]
<1>1. row' = row \/ row' = [row EXCEPT ![held[w]] = new]
  BY DEF Done
<1>2. new.status = s
  BY DEF TypeOK, RowType
<1> HIDE DEF new
<1>3. \A r \in Rows : row'[r] = row[r] \/ (row'[r] = new /\ r = held[w])
  BY <1>1 DEF TypeOK
<1> QED BY <1>2, <1>3 DEF AcceptedOf

LEMMA LeaveFlight ==
  ASSUME TypeOK, NEW S \in SUBSET Rows, NEW w \in Workers, NextMessage(w) \/ Forget(w)
  PROVE  InFlightOf(S)' \subseteq InFlightOf(S) /\ w \notin InFlightOf(S)'
BY DEF TypeOK, InFlightOf, NextMessage, Forget

(* A check that is passed finds room under each cap the message counts for.*)
LEMMA Room ==
  ASSUME TypeOK, NEW S \in SUBSET Rows, NEW C \in Nat, Cap(S, C), NEW w \in Workers, Cleared(w), held[w] \in S
  PROVE  Cardinality(AcceptedOf(S)) < C
<1>1. Cardinality(AcceptedOf(Rows)) < Ceiling(held[w])
  BY DEF Cleared, HasRoom, AcceptedToday, AcceptedOf
<1>2. CASE S = Rows /\ C = DAILY_CAP * CRITICAL_CEILING
  <2>1. DAILY_CAP \in Nat /\ CRITICAL_CEILING \in Nat /\ CRITICAL_CEILING >= 1
    BY OutboxAssumption
  <2>2. DAILY_CAP * (CRITICAL_CEILING - 1) >= 0
    BY <2>1
  <2>3. DAILY_CAP * CRITICAL_CEILING = DAILY_CAP * (CRITICAL_CEILING - 1) + DAILY_CAP
    BY <2>1
  <2>4. Ceiling(held[w]) <= C /\ Ceiling(held[w]) \in Nat
    BY <1>2, <2>1, <2>2, <2>3, Finite DEF Ceiling
  <2> QED BY <1>1, <1>2, <2>4, Finite
<1>3. CASE S = Rows \ Critical /\ C = DAILY_CAP
  <2>1. Ceiling(held[w]) = C
    BY <1>3 DEF Ceiling
  <2>2. AcceptedOf(S) \subseteq AcceptedOf(Rows)
    BY DEF AcceptedOf
  <2>3. IsFiniteSet(AcceptedOf(Rows)) /\ Cardinality(AcceptedOf(Rows)) \in Nat /\ Cardinality(AcceptedOf(S)) \in Nat
    BY Finite
  <2>4. Cardinality(AcceptedOf(S)) <= Cardinality(AcceptedOf(Rows))
    BY <2>2, <2>3, FS_Subset
  <2> QED BY <1>1, <2>1, <2>3, <2>4
<1> QED BY <1>2, <1>3 DEF Cap

LEMMA ClearedCap ==
  ASSUME TypeOK, NEW S \in SUBSET Rows, NEW C \in Nat, Cap(S, C), TableBound(S, C),
         NEW w \in Workers, Cleared(w)
  PROVE  TableBound(S, C)'
<1>1. held[w] \in Rows /\ pc[w] = "check" /\ AcceptedOf(S)' = AcceptedOf(S)
  BY DEF Cleared, TypeOK, AcceptedOf
<1>2. CASE held[w] \notin S
  <2>1. InFlightOf(S)' \subseteq InFlightOf(S)
    BY <1>2 DEF Cleared, InFlightOf, TypeOK
  <2> QED BY <1>1, <2>1, NothingAdded
<1>3. CASE held[w] \in S
  <2>1. Cardinality(AcceptedOf(S)) < C
    BY <1>3, Room
  <2>2. w \notin InFlightOf(S) /\ InFlightOf(S) \subseteq Workers \ {w}
        /\ InFlightOf(S)' = InFlightOf(S) \cup {w}
    BY <1>1, <1>3 DEF Cleared, InFlightOf, TypeOK
  <2>3. Cardinality(InFlightOf(S)) <= Cardinality(Workers) - 1
    <3>1. IsFiniteSet(Workers \ {w}) /\ Cardinality(Workers \ {w}) = Cardinality(Workers) - 1
      BY OutboxAssumption, FS_RemoveElement
    <3> QED BY <2>2, <3>1, FS_Subset
  <2>4. Cardinality(InFlightOf(S)') = Cardinality(InFlightOf(S)) + 1
    BY <2>2, Finite, FS_AddElement
  <2>5. TableBound(S, C)' <=> Cardinality(AcceptedOf(S)') + Cardinality(InFlightOf(S)')
                                <= C + Cardinality(Workers) - 1
    BY DEF TableBound
  <2>6. Cardinality(AcceptedOf(S)') = Cardinality(AcceptedOf(S))
    BY <1>1
  <2> QED BY <2>1, <2>3, <2>4, <2>5, <2>6, Finite
<1> QED BY <1>2, <1>3

LEMMA RecordCap ==
  ASSUME TypeOK, NEW S \in SUBSET Rows, NEW C \in Nat, TableBound(S, C),
         NEW w \in Workers, RecordEnd(w)
  PROVE  TableBound(S, C)'
<1>1. pc[w] = "write" /\ held[w] \in Rows /\ NextMessage(w)
  BY DEF RecordEnd, TypeOK
<1>2. InFlightOf(S)' \subseteq InFlightOf(S) /\ w \notin InFlightOf(S)'
  BY <1>1, LeaveFlight
<1>3. CASE result[w] = "accepted" /\ held[w] \in S
  <2>1. w \in InFlightOf(S) /\ InFlightOf(S)' \subseteq InFlightOf(S) \ {w}
    BY <1>1, <1>2, <1>3 DEF InFlightOf
  <2>2. IsFiniteSet(InFlightOf(S) \ {w}) /\ Cardinality(InFlightOf(S) \ {w}) = Cardinality(InFlightOf(S)) - 1
    BY <2>1, Finite, FS_RemoveElement
  <2>3. Cardinality(InFlightOf(S)') <= Cardinality(InFlightOf(S)) - 1 /\ Cardinality(InFlightOf(S)') \in Nat
    BY <2>1, <2>2, FS_Subset, FS_CardinalityType
  <2>4. AcceptedOf(S)' \subseteq AcceptedOf(S) \cup {held[w]}
    <3>1. \A r \in Rows : r # held[w] => row'[r] = row[r]
      BY DEF RecordEnd, Done, TypeOK
    <3> QED BY <3>1 DEF AcceptedOf
  <2>5. IsFiniteSet(AcceptedOf(S) \cup {held[w]}) /\ Cardinality(AcceptedOf(S) \cup {held[w]}) <= Cardinality(AcceptedOf(S)) + 1
    <3> DEFINE h == held[w]
    <3>1. IsFiniteSet(AcceptedOf(S) \cup {h}) /\ Cardinality(AcceptedOf(S) \cup {h}) =
            IF h \in AcceptedOf(S) THEN Cardinality(AcceptedOf(S)) ELSE Cardinality(AcceptedOf(S)) + 1
      BY Finite, FS_AddElement
    <3> QED BY <3>1, Finite
  <2>6. Cardinality(AcceptedOf(S)') <= Cardinality(AcceptedOf(S)) + 1 /\ Cardinality(AcceptedOf(S)') \in Nat
    <3>1. IsFiniteSet(AcceptedOf(S)') /\ Cardinality(AcceptedOf(S)') <= Cardinality(AcceptedOf(S) \cup {held[w]})
      BY <2>4, <2>5, FS_Subset
    <3>2. Cardinality(AcceptedOf(S) \cup {held[w]}) \in Nat /\ Cardinality(AcceptedOf(S)') \in Nat
      BY <2>5, <3>1, FS_CardinalityType
    <3> QED BY <2>5, <3>1, <3>2, Finite
  <2>7. TableBound(S, C)' <=> Cardinality(AcceptedOf(S)') + Cardinality(InFlightOf(S)') <= C + Cardinality(Workers) - 1
    BY DEF TableBound
  <2>8. TableBound(S, C) <=> Cardinality(AcceptedOf(S)) + Cardinality(InFlightOf(S)) <= C + Cardinality(Workers) - 1
    BY DEF TableBound
  <2> QED BY <2>3, <2>6, <2>7, <2>8, Finite
<1>4. CASE result[w] # "accepted"
  <2>1. Ending(result[w]) # "provider_accepted"
    BY <1>4 DEF RecordEnd, Ending
  <2>2. AcceptedOf(S)' \subseteq AcceptedOf(S)
    BY <1>1, <2>1, WriteOther DEF RecordEnd
  <2> QED BY <1>2, <2>2, NothingAdded
<1>5. CASE held[w] \notin S
  <2>1. \A r \in Rows : r # held[w] => row'[r] = row[r]
    BY DEF RecordEnd, Done, TypeOK
  <2>2. AcceptedOf(S)' \subseteq AcceptedOf(S)
    BY <1>5, <2>1 DEF AcceptedOf
  <2> QED BY <1>2, <2>2, NothingAdded
<1> QED BY <1>3, <1>4, <1>5

LEMMA NextCap ==
  ASSUME TypeOK, NEW S \in SUBSET Rows, NEW C \in Nat, Cap(S, C), TableBound(S, C), [Next]_vars
  PROVE  TableBound(S, C)'
<1>1. ASSUME NEW r \in Rows, Enqueue(r) \/ Requeue(r) \/ Purge(r) PROVE TableBound(S, C)'
  <2>1. \A k \in Rows : k # r => row'[k] = row[k]
    BY <1>1 DEF Enqueue, Requeue, Purge, TypeOK
  <2>2. row'[r].status # "provider_accepted"
    <3>1. CASE Enqueue(r)
      <4>1. PICK t \in {NoTime, clock + LATER} :
              row' = [row EXCEPT ![r] = [Absent EXCEPT !.status = "queued", !.created = clock, !.nextAt = t]]
        BY <3>1 DEF Enqueue
      <4>2. row'[r] = [Absent EXCEPT !.status = "queued", !.created = clock, !.nextAt = t]
        BY <4>1 DEF TypeOK
      <4> QED BY <4>2 DEF Absent
    <3>2. CASE Requeue(r)
      <4>1. row'[r] = [row[r] EXCEPT !.status = "queued", !.attempts = 0, !.nextAt = NoTime, !.leased = NoTime]
        BY <3>2 DEF Requeue, TypeOK
      <4>2. row[r] \in RowType
        BY DEF TypeOK
      <4> QED BY <4>1, <4>2 DEF RowType
    <3>3. CASE Purge(r)
      BY <3>3 DEF Purge, TypeOK, Absent
    <3> QED BY <1>1, <3>1, <3>2, <3>3
  <2>3. AcceptedOf(S)' \subseteq AcceptedOf(S)
    BY <2>1, <2>2 DEF AcceptedOf
  <2>4. InFlightOf(S)' = InFlightOf(S)
    BY <1>1 DEF Enqueue, Requeue, Purge, InFlightOf
  <2> QED BY <2>3, <2>4, NothingAdded
<1>2. CASE SetPaused \/ Tick \/ UNCHANGED vars
  <2>1. AcceptedOf(S)' = AcceptedOf(S) /\ InFlightOf(S)' = InFlightOf(S)
    BY <1>2 DEF SetPaused, Tick, vars, AcceptedOf, InFlightOf
  <2> QED BY <2>1, NothingAdded
<1>3. ASSUME NEW w \in Workers, StartPass(w) PROVE TableBound(S, C)'
  <2>1. AcceptedOf(S)' = AcceptedOf(S) /\ InFlightOf(S)' \subseteq InFlightOf(S)
    BY <1>3 DEF StartPass, AcceptedOf, InFlightOf, TypeOK
  <2> QED BY <2>1, NothingAdded
<1>4. ASSUME NEW w \in Workers, EndPass(w) \/ Crash(w) PROVE TableBound(S, C)'
  <2>1. Forget(w) /\ AcceptedOf(S)' = AcceptedOf(S)
    BY <1>4 DEF EndPass, Crash, AcceptedOf
  <2> QED BY <2>1, LeaveFlight, NothingAdded
<1>5. ASSUME NEW w \in Workers, Claim(w) PROVE TableBound(S, C)'
  <2>1. PICK r \in batch[w] :
          \/ /\ row' = [row EXCEPT ![r] = [@ EXCEPT !.status = "sending", !.leased = start[w] + LEASE]]
             /\ pc' = [pc EXCEPT ![w] = "check"]
             /\ held' = [held EXCEPT ![w] = r]
          \/ UNCHANGED <<row, pc, held>>
    BY <1>5 DEF Claim
  <2>2. r \in Rows /\ row[r] \in RowType /\ result' = result
    BY <1>5 DEF Claim, TypeOK
  <2>3. [row[r] EXCEPT !.status = "sending", !.leased = start[w] + LEASE].status = "sending"
    BY <2>2 DEF RowType
  <2>4. AcceptedOf(S)' \subseteq AcceptedOf(S)
    BY <2>1, <2>2, <2>3 DEF AcceptedOf, TypeOK
  <2>5. InFlightOf(S)' \subseteq InFlightOf(S)
    BY <2>1, <2>2 DEF InFlightOf, TypeOK
  <2> QED BY <2>4, <2>5, NothingAdded
<1>6. ASSUME NEW w \in Workers, CheckStops(w) \/ Postpone(w) \/ Unexpected(w) \/ RecordFailure(w) PROVE TableBound(S, C)'
  <2>1. pc[w] \in {"check", "write"} /\ NextMessage(w)
    BY <1>6 DEF CheckStops, Postpone, Unexpected, RecordFailure
  <2>2. held[w] \in Rows
    BY <2>1 DEF TypeOK
  <2>3. \E s, a, t : s # "provider_accepted" /\ Done(w, s, a, t)
    <3>1. CASE CheckStops(w)
      BY <3>1 DEF CheckStops, Suppressed, Unrenderable
    <3>2. CASE Postpone(w)
      BY <3>2 DEF Postpone, QuietHours, CapReached
    <3>3. CASE Unexpected(w)
      BY <3>3 DEF Unexpected
    <3>4. CASE RecordFailure(w)
      BY <3>4 DEF RecordFailure
    <3> QED BY <1>6, <3>1, <3>2, <3>3, <3>4
  <2>4. AcceptedOf(S)' \subseteq AcceptedOf(S)
    BY <2>2, <2>3, WriteOther
  <2> QED BY <2>1, <2>4, LeaveFlight, NothingAdded
<1>7. ASSUME NEW w \in Workers, NEW o \in Answers, Send(w, o) PROVE TableBound(S, C)'
  <2>1. AcceptedOf(S)' = AcceptedOf(S)
    BY <1>7 DEF Send, AcceptedOf
  <2>2. InFlightOf(S)' \subseteq InFlightOf(S)
    BY <1>7 DEF Send, InFlightOf, TypeOK
  <2> QED BY <2>1, <2>2, NothingAdded
<1> QED BY <1>1, <1>2, <1>3, <1>4, <1>5, <1>6, <1>7, ClearedCap, RecordCap DEF Next
LEMMA InitCap == ASSUME Init, NEW S \in SUBSET Rows, NEW C \in Nat PROVE TableBound(S, C)
<1>1. AcceptedOf(S) = {} /\ InFlightOf(S) = {}
  BY DEF Init, AcceptedOf, InFlightOf, Absent
<1>2. Cardinality(Workers) >= 1
  BY OutboxAssumption, FS_EmptySet, Finite
<1> QED BY <1>1, <1>2, Finite, FS_EmptySet DEF TableBound

-----------------------------------------------------------------------------
(* One message, one acceptance: when every pass ends within its lease and  *)
(* no worker dies.                                                         *)
Exclusive == Pace = "pass" /\ MayCrash = FALSE

(* A pass is within its lease.                                             *)
PassInTime == \A w \in Workers : pc[w] # "idle" => start[w] <= clock /\ clock <= start[w] + LEASE

(* A row is being sent exactly while one worker holds it, under a lease    *)
(* stamped with that worker's pass.                                        *)
Leases ==
  /\ \A w \in Workers : held[w] \in Rows => /\ row[held[w]].status = "sending"
                                            /\ row[held[w]].leased = start[w] + LEASE
  /\ \A w, v \in Workers : held[w] \in Rows /\ held[w] = held[v] => w = v
  /\ \A r \in Rows : row[r].status = "sending" => \E w \in Workers : held[w] = r

(* What the provider did, as the table and the holders know it.            *)
Known(r) == row[r].status \in {"provider_accepted", "purged"}
Counts ==
  \A r \in Rows :
    /\ past[r].accepted \in {0, 1}
    /\ \A w \in Workers : held[w] = r => (past[r].accepted = 1 <=> result[w] = "accepted")
    /\ past[r].accepted = 1 /\ row[r].status # "sending" => Known(r)

ExclusiveInv == TypeOK /\ PassInTime /\ Leases /\ Counts

LEMMA ExclusiveOnce == ExclusiveInv => AcceptedOnce
BY DEF ExclusiveInv, Counts, Leases, Known, AcceptedOnce, TypeOK

(* The state of the holders and of the histories, as seen by a step that   *)
(* changes one row nobody holds.                                           *)
LEMMA RowNobodyHolds ==
  ASSUME ExclusiveInv, TypeOK', NEW r \in Rows, row[r].status # "sending", row'[r].status # "sending",
         \A k \in Rows : k # r => row'[k] = row[k] /\ past'[k] = past[k],
         past'[r].accepted = past[r].accepted,
         past[r].accepted = 1 => row'[r].status \in {"provider_accepted", "purged"},
         UNCHANGED <<clock, pc, start, held, result>>
  PROVE  ExclusiveInv'
<1>1. PassInTime'
  BY DEF ExclusiveInv, PassInTime
<1>2. Leases'
  BY DEF ExclusiveInv, Leases
<1>3. Counts'
  BY DEF ExclusiveInv, Counts, Leases, Known
<1> QED BY <1>1, <1>2, <1>3 DEF ExclusiveInv

(* A holder writes a result and lets go.                                   *)
LEMMA LetGo ==
  ASSUME ExclusiveInv, TypeOK', NEW w \in Workers, held[w] \in Rows, NextMessage(w),
         NEW s, s # "sending", NEW a, NEW t, Done(w, s, a, t),
         s = "provider_accepted" <=> result[w] = "accepted",
         \A r \in Rows : past'[r].accepted = past[r].accepted,
         UNCHANGED <<clock, start>>
  PROVE  ExclusiveInv'
<1> DEFINE h == held[w]
<1>1. h \in Rows /\ row[h].status = "sending" /\ row[h] \in RowType
  BY DEF ExclusiveInv, Leases, TypeOK
<1>2. row'[h].status = s /\ \A k \in Rows : k # h => row'[k] = row[k]
  BY <1>1 DEF Done, ExclusiveInv, TypeOK, RowType
<1>3. /\ held'[w] \notin Rows /\ held'[w] # h
      /\ \A v \in Workers : v # w => held'[v] = held[v] /\ result'[v] = result[v] /\ pc'[v] = pc[v]
      /\ pc[w] # "idle"
  <2>1. held' = [held EXCEPT ![w] = NoRow] /\ result' = [result EXCEPT ![w] = "none"]
        /\ pc' = [pc EXCEPT ![w] = "pass"]
    BY DEF NextMessage
  <2>2. held'[w] = NoRow /\ held'[w] \notin Rows /\ held'[w] # h
    BY <1>1, <2>1, Constants DEF ExclusiveInv, TypeOK
  <2>3. \A v \in Workers : v # w => held'[v] = held[v] /\ result'[v] = result[v] /\ pc'[v] = pc[v]
    BY <2>1 DEF ExclusiveInv, TypeOK
  <2>4. pc[w] # "idle"
    BY <1>1 DEF ExclusiveInv, TypeOK
  <2> QED BY <2>2, <2>3, <2>4
<1>4. \A v \in Workers : held'[v] \in Rows => v # w /\ held'[v] # h /\ held'[v] = held[v]
  BY <1>1, <1>3 DEF ExclusiveInv, Leases
<1>5. PassInTime'
  BY <1>3 DEF ExclusiveInv, PassInTime
<1>6. Leases'
  <2>1. \A v \in Workers : held'[v] \in Rows => /\ row'[held'[v]].status = "sending"
                                               /\ row'[held'[v]].leased = start'[v] + LEASE
    BY <1>2, <1>4 DEF ExclusiveInv, Leases
  <2>2. \A v, u \in Workers : held'[v] \in Rows /\ held'[v] = held'[u] => v = u
    BY <1>4 DEF ExclusiveInv, Leases
  <2>3. ASSUME NEW r \in Rows, row'[r].status = "sending" PROVE \E v \in Workers : held'[v] = r
    <3>1. r # h /\ row'[r] = row[r]
      BY <1>2, <2>3
    <3>2. PICK v \in Workers : held[v] = r
      BY <2>3, <3>1 DEF ExclusiveInv, Leases
    <3> QED BY <1>3, <3>1, <3>2
  <2> QED BY <2>1, <2>2, <2>3 DEF Leases
<1>7. Counts'
  <2>1. ASSUME NEW r \in Rows, r # h
        PROVE  /\ past'[r].accepted \in {0, 1}
               /\ \A v \in Workers : held'[v] = r => (past'[r].accepted = 1 <=> result'[v] = "accepted")
               /\ past'[r].accepted = 1 /\ row'[r].status # "sending" => Known(r)'
    BY <1>2, <1>3, <1>4, <2>1 DEF ExclusiveInv, Counts, Known
  <2>2. past[h].accepted \in {0, 1} /\ (past[h].accepted = 1 <=> result[w] = "accepted")
    BY <1>1 DEF ExclusiveInv, Counts
  <2>3. past[h].accepted = 1 => row'[h].status = "provider_accepted"
    BY <1>2, <2>2
  <2>4. \A v \in Workers : held'[v] # h
    BY <1>1, <1>4
  <2> HIDE DEF h
  <2> QED BY <1>1, <2>1, <2>2, <2>3, <2>4 DEF Counts, Known
<1> QED BY <1>5, <1>6, <1>7 DEF ExclusiveInv

LEMMA NextExclusive ==
  ASSUME Exclusive, ExclusiveInv, TypeOK', [Next]_vars
  PROVE  ExclusiveInv' /\ \A r \in Rows : row[r].status = "provider_accepted"
                                          => row'[r].status \in {"provider_accepted", "purged"}
<1> DEFINE Final == \A r \in Rows : row[r].status = "provider_accepted"
                                    => row'[r].status \in {"provider_accepted", "purged"}
<1>1. ASSUME NEW r \in Rows, Enqueue(r) \/ Requeue(r) \/ Purge(r) PROVE ExclusiveInv' /\ Final
  <2>1. /\ \A k \in Rows : k # r => row'[k] = row[k] /\ past'[k] = past[k]
        /\ UNCHANGED <<clock, pc, start, held, result>>
    BY <1>1 DEF Enqueue, Requeue, Purge, pass, ExclusiveInv, TypeOK
  <2>2. row[r].status # "sending"
    BY <1>1 DEF Enqueue, Requeue, MayRequeue, Purge, Ended
  <2>3. past[r].accepted \in {0, 1} /\ past'[r].accepted = past[r].accepted
    <3>1. CASE Requeue(r)
      <4>1. past'[r] = [Blank EXCEPT !.accepted = past[r].accepted]
        BY <3>1 DEF Requeue, ExclusiveInv, TypeOK
      <4> QED BY <4>1 DEF Blank, ExclusiveInv, Counts
    <3>2. CASE Enqueue(r) \/ Purge(r)
      BY <3>2 DEF Enqueue, Purge, ExclusiveInv, Counts
    <3> QED BY <1>1, <3>1, <3>2
  <2>4. row'[r].status \in {"queued", "purged"}
    <3>1. CASE Enqueue(r)
      <4>1. PICK t \in {NoTime, clock + LATER} :
              row' = [row EXCEPT ![r] = [Absent EXCEPT !.status = "queued", !.created = clock, !.nextAt = t]]
        BY <3>1 DEF Enqueue
      <4>2. row'[r] = [Absent EXCEPT !.status = "queued", !.created = clock, !.nextAt = t]
        BY <4>1 DEF ExclusiveInv, TypeOK
      <4> QED BY <4>2 DEF Absent
    <3>2. CASE Requeue(r)
      <4>1. row'[r] = [row[r] EXCEPT !.status = "queued", !.attempts = 0, !.nextAt = NoTime, !.leased = NoTime]
        BY <3>2 DEF Requeue, ExclusiveInv, TypeOK
      <4>2. row[r] \in RowType
        BY DEF ExclusiveInv, TypeOK
      <4> QED BY <4>1, <4>2 DEF RowType
    <3>3. CASE Purge(r)
      BY <3>3 DEF Purge, ExclusiveInv, TypeOK, Absent
    <3> QED BY <1>1, <3>1, <3>2, <3>3
  <2>5. row[r].status \in {"provider_accepted", "purged"} => row'[r].status = "purged"
    <3>1. (~Enqueue(r) /\ ~Requeue(r)) \/ row[r].status \notin {"provider_accepted", "purged"}
      BY DEF Enqueue, Requeue, MayRequeue
    <3>2. Purge(r) => row'[r].status = "purged"
      BY DEF Purge, ExclusiveInv, TypeOK, Absent
    <3> QED BY <1>1, <3>1, <3>2
  <2>6. past[r].accepted = 1 => row'[r].status \in {"provider_accepted", "purged"}
    BY <2>2, <2>5 DEF ExclusiveInv, Counts, Known
  <2>7. ExclusiveInv'
    BY <2>1, <2>2, <2>3, <2>4, <2>6, RowNobodyHolds
  <2> QED BY <2>1, <2>5, <2>7
<1>2. CASE SetPaused \/ UNCHANGED vars
  <2>1. UNCHANGED <<clock, row, pc, start, held, result, past>>
    BY <1>2 DEF SetPaused, vars, pass
  <2> QED BY <2>1 DEF ExclusiveInv, PassInTime, Leases, Counts, Known
<1>3. CASE Tick
  <2>1. UNCHANGED <<row, pc, start, held, result, past>> /\ clock' = clock + 1
        /\ \A w \in Workers : InTime(w)
    BY <1>3 DEF Tick, pass
  <2>2. PassInTime'
    <3>1. \A w \in Workers : pc[w] # "idle" => clock < start[w] + LEASE
      BY <2>1 DEF InTime, Exclusive
    <3>2. clock \in Nat /\ \A w \in Workers : start[w] \in Nat
      BY DEF ExclusiveInv, TypeOK
    <3> QED BY <2>1, <3>1, <3>2, OutboxAssumption DEF ExclusiveInv, PassInTime
  <2> QED BY <2>1, <2>2 DEF ExclusiveInv, Leases, Counts, Known
<1>4. ASSUME NEW w \in Workers, StartPass(w) PROVE ExclusiveInv' /\ Final
  <2>1. /\ pc[w] = "idle" /\ pc' = [pc EXCEPT ![w] = "pass"] /\ start' = [start EXCEPT ![w] = clock]
        /\ UNCHANGED <<clock, row, held, result, past>>
    BY <1>4 DEF StartPass
  <2>2. clock \in Nat /\ clock <= clock + LEASE /\ held[w] \notin Rows
    BY <2>1, OutboxAssumption DEF ExclusiveInv, TypeOK
  <2>3. PassInTime'
    BY <2>1, <2>2 DEF ExclusiveInv, PassInTime, TypeOK
  <2>4. Leases'
    BY <2>1, <2>2 DEF ExclusiveInv, Leases, TypeOK
  <2>5. Counts'
    BY <2>1 DEF ExclusiveInv, Counts, Known
  <2> QED BY <2>1, <2>3, <2>4, <2>5 DEF ExclusiveInv
<1>5. ASSUME NEW w \in Workers, EndPass(w) PROVE ExclusiveInv' /\ Final
  <2>1. /\ pc[w] = "pass" /\ Forget(w) /\ UNCHANGED <<clock, row, past>>
    BY <1>5 DEF EndPass
  <2>2. /\ held[w] \notin Rows /\ held'[w] \notin Rows /\ pc'[w] = "idle"
        /\ \A v \in Workers : v # w => /\ pc'[v] = pc[v] /\ start'[v] = start[v]
                                       /\ held'[v] = held[v] /\ result'[v] = result[v]
    BY <2>1, Constants DEF Forget, ExclusiveInv, TypeOK
  <2>3. PassInTime'
    BY <2>1, <2>2 DEF ExclusiveInv, PassInTime
  <2>4. Leases'
    BY <2>1, <2>2 DEF ExclusiveInv, Leases
  <2>5. Counts'
    BY <2>1, <2>2 DEF ExclusiveInv, Counts, Known
  <2> QED BY <2>1, <2>3, <2>4, <2>5 DEF ExclusiveInv
<1>6. ASSUME NEW w \in Workers, Claim(w) PROVE ExclusiveInv' /\ Final
  <2>1. PICK r \in batch[w] :
          \/ /\ MayClaim(w, r)
             /\ row' = [row EXCEPT ![r] = [@ EXCEPT !.status = "sending", !.leased = start[w] + LEASE]]
             /\ pc' = [pc EXCEPT ![w] = "check"]
             /\ held' = [held EXCEPT ![w] = r]
          \/ UNCHANGED <<row, pc, held>>
    BY <1>6 DEF Claim
  <2>2. /\ pc[w] = "pass" /\ r \in Rows /\ row[r] \in RowType
        /\ held[w] \notin Rows /\ result[w] = "none"
        /\ UNCHANGED <<clock, start, result, past>>
    BY <1>6 DEF Claim, ExclusiveInv, TypeOK
  <2>3. CASE UNCHANGED <<row, pc, held>>
    BY <2>2, <2>3 DEF ExclusiveInv, PassInTime, Leases, Counts, Known
  <2>4. CASE /\ MayClaim(w, r)
             /\ row' = [row EXCEPT ![r] = [@ EXCEPT !.status = "sending", !.leased = start[w] + LEASE]]
             /\ pc' = [pc EXCEPT ![w] = "check"]
             /\ held' = [held EXCEPT ![w] = r]
    <3>1. row[r].status \in Waiting
      <4>1. ASSUME row[r].status = "sending", row[r].leased < start[w] PROVE FALSE
        <5>1. PICK v \in Workers : held[v] = r
          BY <2>2, <4>1 DEF ExclusiveInv, Leases
        <5>2. row[r].leased = start[v] + LEASE /\ pc[v] # "idle"
          BY <2>2, <5>1 DEF ExclusiveInv, Leases, TypeOK
        <5>3. clock <= start[v] + LEASE /\ start[w] <= clock
          BY <2>2, <5>2 DEF ExclusiveInv, PassInTime
        <5>4. start[v] + LEASE \in Nat /\ clock \in Nat /\ start[w] \in Nat
          <6>1. start[v] \in Nat /\ start[w] \in Nat /\ clock \in Nat
            BY DEF ExclusiveInv, TypeOK
          <6> QED BY <6>1, OutboxAssumption
        <5> QED BY <4>1, <5>2, <5>3, <5>4
      <4> QED BY <2>4, <4>1 DEF MayClaim
    <3>2. row[r].status # "sending" /\ ~Known(r)
      BY <3>1 DEF Waiting, Known
    <3>3. \A v \in Workers : held[v] # r
      BY <2>2, <3>2 DEF ExclusiveInv, Leases
    <3>4. past[r].accepted = 0
      BY <2>2, <3>2 DEF ExclusiveInv, Counts
    <3>5. /\ row'[r].status = "sending" /\ row'[r].leased = start[w] + LEASE
          /\ \A k \in Rows : k # r => row'[k] = row[k]
      <4>1. row'[r] = [row[r] EXCEPT !.status = "sending", !.leased = start[w] + LEASE]
        BY <2>2, <2>4 DEF ExclusiveInv, TypeOK
      <4>2. \A k \in Rows : k # r => row'[k] = row[k]
        BY <2>2, <2>4 DEF ExclusiveInv, TypeOK
      <4> QED BY <2>2, <4>1, <4>2 DEF RowType
    <3>6. /\ held'[w] = r /\ pc'[w] = "check"
          /\ \A v \in Workers : v # w => held'[v] = held[v] /\ pc'[v] = pc[v]
      BY <2>4 DEF ExclusiveInv, TypeOK
    <3>7. PassInTime'
      BY <2>2, <3>6 DEF ExclusiveInv, PassInTime
    <3>8. Leases'
      <4>1. \A v \in Workers : held'[v] \in Rows => /\ row'[held'[v]].status = "sending"
                                                   /\ row'[held'[v]].leased = start'[v] + LEASE
        BY <2>2, <3>3, <3>5, <3>6 DEF ExclusiveInv, Leases
      <4>2. \A v, u \in Workers : held'[v] \in Rows /\ held'[v] = held'[u] => v = u
        BY <3>3, <3>6 DEF ExclusiveInv, Leases
      <4>3. ASSUME NEW k \in Rows, row'[k].status = "sending" PROVE \E v \in Workers : held'[v] = k
        <5>1. CASE k = r
          BY <3>6, <5>1
        <5>2. CASE k # r
          <6>1. PICK v \in Workers : held[v] = k
            BY <3>5, <4>3, <5>2 DEF ExclusiveInv, Leases
          <6>2. v # w
            BY <2>2, <6>1
          <6> QED BY <3>6, <6>1, <6>2
        <5> QED BY <5>1, <5>2
      <4> QED BY <4>1, <4>2, <4>3 DEF Leases
    <3>9. Counts'
      BY <2>2, <3>3, <3>4, <3>5, <3>6 DEF ExclusiveInv, Counts, Known
    <3>10. Final
      BY <3>2, <3>5 DEF Known
    <3> QED BY <3>7, <3>8, <3>9, <3>10 DEF ExclusiveInv
  <2> QED BY <2>1, <2>3, <2>4
<1>7. ASSUME NEW w \in Workers,
             CheckStops(w) \/ Postpone(w) \/ Unexpected(w) \/ RecordEnd(w) \/ RecordFailure(w)
      PROVE  ExclusiveInv' /\ Final
  <2>1. pc[w] \in {"check", "write"} /\ NextMessage(w) /\ UNCHANGED <<clock, start>>
    BY <1>7 DEF CheckStops, Postpone, Unexpected, RecordEnd, RecordFailure, pass
  <2>2. held[w] \in Rows /\ row[held[w]].status = "sending"
    BY <2>1 DEF ExclusiveInv, TypeOK, Leases
  <2>3. \A r \in Rows : past'[r].accepted = past[r].accepted
    <3>1. past' = past \/ LoseAnswer(w)
      BY <1>7 DEF CheckStops, Postpone, Unexpected, RecordEnd, RecordFailure
    <3>2. TypeOK
      BY DEF ExclusiveInv
    <3> QED BY <3>1, <3>2, LostKeeps
  <2>4. \E s, a, t : /\ s # "sending" /\ Done(w, s, a, t)
                     /\ s = "provider_accepted" <=> result[w] = "accepted"
    <3>1. CASE CheckStops(w)
      <4>1. result[w] # "accepted"
        BY <3>1 DEF CheckStops, ExclusiveInv, TypeOK
      <4> QED BY <3>1, <4>1 DEF CheckStops, Suppressed, Unrenderable
    <3>2. CASE Postpone(w)
      <4>1. result[w] # "accepted"
        BY <3>2 DEF Postpone, ExclusiveInv, TypeOK
      <4> QED BY <3>2, <4>1 DEF Postpone, QuietHours, CapReached
    <3>3. CASE Unexpected(w)
      <4>1. pc[w] = "check"
        BY <3>3 DEF Unexpected, Exclusive
      <4>2. result[w] # "accepted"
        BY <4>1 DEF ExclusiveInv, TypeOK
      <4> QED BY <3>3, <4>2 DEF Unexpected
    <3>4. CASE RecordEnd(w)
      <4>1. Ending(result[w]) # "sending" /\ (Ending(result[w]) = "provider_accepted" <=> result[w] = "accepted")
        BY <3>4 DEF RecordEnd, Ending
      <4> QED BY <3>4, <4>1 DEF RecordEnd
    <3>5. CASE RecordFailure(w)
      BY <3>5 DEF RecordFailure
    <3> QED BY <1>7, <3>1, <3>2, <3>3, <3>4, <3>5
  <2>5. ExclusiveInv'
    BY <2>1, <2>2, <2>3, <2>4, LetGo
  <2>6. \A r \in Rows : r # held[w] => row'[r] = row[r]
    BY <2>4 DEF Done, ExclusiveInv, TypeOK
  <2> QED BY <2>2, <2>5, <2>6
<1>8. ASSUME NEW w \in Workers, Cleared(w) PROVE ExclusiveInv' /\ Final
  <2>1. /\ pc[w] = "check" /\ pc' = [pc EXCEPT ![w] = "send"]
        /\ UNCHANGED <<clock, row, start, held, result, past>>
    BY <1>8 DEF Cleared, pass
  <2>2. PassInTime'
    BY <2>1 DEF ExclusiveInv, PassInTime, TypeOK
  <2> QED BY <2>1, <2>2 DEF ExclusiveInv, Leases, Counts, Known
<1>9. ASSUME NEW w \in Workers, NEW o \in Answers, Send(w, o) PROVE ExclusiveInv' /\ Final
  <2> DEFINE h == held[w]
  <2>1. /\ pc[w] = "send" /\ h \in Rows /\ result[w] = "none" /\ past[h] \in PastType
        /\ row[h].status = "sending" /\ past[h].accepted = 0
    BY <1>9 DEF Send, ExclusiveInv, TypeOK, Leases, Counts
  <2>2. /\ pc' = [pc EXCEPT ![w] = "write"] /\ result' = [result EXCEPT ![w] = o]
        /\ past' = [past EXCEPT ![h] = Handed(past[h], o)]
        /\ UNCHANGED <<clock, row, held, start>>
    BY <1>9 DEF Send
  <2>3. /\ past'[h].accepted = (IF o = "accepted" THEN 1 ELSE 0)
        /\ \A r \in Rows : r # h => past'[r] = past[r]
    <3>1. Handed(past[h], o).accepted = past[h].accepted + (IF o = "accepted" THEN 1 ELSE 0)
      BY <2>1 DEF Handed, PastType
    <3>2. past'[h] = Handed(past[h], o) /\ \A r \in Rows : r # h => past'[r] = past[r]
      BY <2>1, <2>2 DEF ExclusiveInv, TypeOK
    <3> QED BY <2>1, <3>1, <3>2
  <2>4. PassInTime'
    BY <2>1, <2>2 DEF ExclusiveInv, PassInTime, TypeOK
  <2>5. Leases'
    BY <2>2 DEF ExclusiveInv, Leases
  <2>6. \A v \in Workers : held[v] = h => v = w
    BY <2>1 DEF ExclusiveInv, Leases
  <2>7. result'[w] = o /\ \A v \in Workers : v # w => result'[v] = result[v]
    BY <2>2 DEF ExclusiveInv, TypeOK
  <2> HIDE DEF h
  <2>8. Counts'
    <3>1. ASSUME NEW r \in Rows, r # h
          PROVE  /\ past'[r].accepted \in {0, 1}
                 /\ \A v \in Workers : held'[v] = r => (past'[r].accepted = 1 <=> result'[v] = "accepted")
                 /\ past'[r].accepted = 1 /\ row'[r].status # "sending" => Known(r)'
      <4>1. held[w] # r
        BY <3>1 DEF h
      <4> QED BY <2>2, <2>3, <2>7, <3>1, <4>1 DEF ExclusiveInv, Counts, Known
    <3>2. /\ past'[h].accepted \in {0, 1} /\ row'[h].status = "sending"
          /\ \A v \in Workers : held'[v] = h => (past'[h].accepted = 1 <=> result'[v] = "accepted")
      BY <2>1, <2>2, <2>3, <2>6, <2>7
    <3> QED BY <3>1, <3>2 DEF Counts
  <2> QED BY <2>2, <2>4, <2>5, <2>8 DEF ExclusiveInv
<1>10. ASSUME NEW w \in Workers, Crash(w) PROVE FALSE
  BY <1>10 DEF Crash, Exclusive
<1> QED BY <1>1, <1>2, <1>3, <1>4, <1>5, <1>6, <1>7, <1>8, <1>9, <1>10 DEF Next

LEMMA InitExclusive == ASSUME Init PROVE ExclusiveInv
<1>1. TypeOK
  BY InitTyped DEF Typed
<1>2. PassInTime /\ Leases /\ Counts
  BY Constants DEF Init, PassInTime, Leases, Counts, Known, Absent, Blank
<1> QED BY <1>1, <1>2 DEF ExclusiveInv

(* Of any number of workers, none sends what another has sent: a message is*)
(* accepted once, and the table says so, when passes end within their lease*)
(* and no worker dies or loses the write of a result.                      *)
THEOREM OutboxOnce == ASSUME Exclusive PROVE Spec => []AcceptedOnce
<1>1. ExclusiveInv /\ TypeOK' /\ [Next]_vars => ExclusiveInv'
  BY NextExclusive
<1> QED BY InitExclusive, OutboxTypes, ExclusiveOnce, <1>1, PTL DEF Spec

(* Nothing is purged while rows are kept for longer than the clock runs.   *)
AllKept == \A r \in Rows : row[r].status # "purged"

LEMMA DoneKeeps ==
  ASSUME TypeOK, AllKept, NEW w \in Workers, held[w] \in Rows, NEW s, s # "purged", NEW a, NEW t,
         Done(w, s, a, t)
  PROVE  AllKept'
<1> DEFINE new == [row[held[w]] EXCEPT !.status = s, !.leased = NoTime, !.attempts = a, !.nextAt = t]
<1>1. row' = row \/ row' = [row EXCEPT ![held[w]] = new]
  BY DEF Done
<1>2. new.status = s
  BY DEF TypeOK, RowType
<1> HIDE DEF new
<1>3. \A r \in Rows : row'[r] = row[r] \/ row'[r] = new
  BY <1>1 DEF TypeOK
<1> QED BY <1>2, <1>3 DEF AllKept

LEMMA NextKept == ASSUME RETENTION >= MaxTime, TypeOK, AllKept, [Next]_vars PROVE AllKept'
<1>1. ASSUME NEW r \in Rows, Purge(r) PROVE FALSE
  <2>1. clock \in Nat /\ clock <= MaxTime /\ row[r].created \in Nat
    BY OutboxAssumption DEF TypeOK, RowType
  <2> QED BY <1>1, <2>1, OutboxAssumption DEF Purge
<1>2. ASSUME NEW r \in Rows, Enqueue(r) \/ Requeue(r) PROVE AllKept'
  <2>1. row[r] \in RowType /\ \A k \in Rows : k # r => row'[k] = row[k]
    BY <1>2 DEF Enqueue, Requeue, TypeOK
  <2>2. row'[r].status = "queued"
    <3>1. CASE Enqueue(r)
      <4>1. PICK t \in {NoTime, clock + LATER} :
              row' = [row EXCEPT ![r] = [Absent EXCEPT !.status = "queued", !.created = clock, !.nextAt = t]]
        BY <3>1 DEF Enqueue
      <4>2. row'[r] = [Absent EXCEPT !.status = "queued", !.created = clock, !.nextAt = t]
        BY <4>1 DEF TypeOK
      <4> QED BY <4>2 DEF Absent
    <3>2. CASE Requeue(r)
      <4>1. row'[r] = [row[r] EXCEPT !.status = "queued", !.attempts = 0, !.nextAt = NoTime, !.leased = NoTime]
        BY <3>2 DEF Requeue, TypeOK
      <4> QED BY <2>1, <4>1 DEF RowType
    <3> QED BY <1>2, <3>1, <3>2
  <2> QED BY <2>1, <2>2 DEF AllKept
<1>3. ASSUME NEW w \in Workers, Claim(w) PROVE AllKept'
  <2>1. PICK r \in batch[w] :
          \/ row' = [row EXCEPT ![r] = [@ EXCEPT !.status = "sending", !.leased = start[w] + LEASE]]
          \/ row' = row
    BY <1>3 DEF Claim
  <2>2. r \in Rows /\ row[r] \in RowType
    BY DEF TypeOK
  <2>3. [row[r] EXCEPT !.status = "sending", !.leased = start[w] + LEASE].status = "sending"
    BY <2>2 DEF RowType
  <2>4. \A k \in Rows : row'[k] = row[k] \/ row'[k].status = "sending"
    BY <2>1, <2>2, <2>3 DEF TypeOK
  <2> QED BY <2>4 DEF AllKept
<1>4. ASSUME NEW w \in Workers,
             CheckStops(w) \/ Postpone(w) \/ Unexpected(w) \/ RecordEnd(w) \/ RecordFailure(w)
      PROVE  AllKept'
  <2>1. held[w] \in Rows
    BY <1>4 DEF CheckStops, Postpone, Unexpected, RecordEnd, RecordFailure, TypeOK
  <2>2. \E s, a, t : s # "purged" /\ Done(w, s, a, t)
    <3>1. CASE CheckStops(w)
      BY <3>1 DEF CheckStops, Suppressed, Unrenderable
    <3>2. CASE Postpone(w)
      BY <3>2 DEF Postpone, QuietHours, CapReached
    <3>3. CASE Unexpected(w)
      BY <3>3 DEF Unexpected
    <3>4. CASE RecordEnd(w)
      BY <3>4 DEF RecordEnd, Ending
    <3>5. CASE RecordFailure(w)
      BY <3>5 DEF RecordFailure
    <3> QED BY <1>4, <3>1, <3>2, <3>3, <3>4, <3>5
  <2> QED BY <2>1, <2>2, DoneKeeps
<1>5. CASE \/ SetPaused \/ Tick \/ UNCHANGED vars
           \/ \E w \in Workers : \/ StartPass(w) \/ EndPass(w) \/ Cleared(w) \/ Crash(w)
                               \/ \E o \in Answers : Send(w, o)
  <2>1. row' = row
    BY <1>5 DEF SetPaused, Tick, vars, StartPass, EndPass, Cleared, Crash, Send
  <2> QED BY <2>1 DEF AllKept
<1> QED BY <1>1, <1>2, <1>3, <1>4, <1>5 DEF Next

(* What the provider took is in the table or in a worker's hands.          *)
LEMMA TakenBound ==
  ASSUME TypeOK, AllKept, AcceptedOnce, NEW S \in SUBSET Rows, NEW C \in Nat, TableBound(S, C)
  PROVE  Cardinality(Taken \cap S) <= C + Cardinality(Workers) - 1
<1> DEFINE Hands == {held[w] : w \in InFlightOf(S)}
<1>1. Taken \cap S \subseteq AcceptedOf(S) \cup Hands
  <2> SUFFICES ASSUME NEW r \in Taken \cap S PROVE r \in AcceptedOf(S) \cup Hands
    OBVIOUS
  <2>1. r \in Rows /\ r \in S /\ past[r].accepted = 1
    BY DEF Taken, AcceptedOnce, TypeOK, PastType
  <2>2. row[r].status = "provider_accepted" \/ \E w \in Workers : held[w] = r /\ result[w] = "accepted"
    BY <2>1 DEF AcceptedOnce, AllKept
  <2>3. ASSUME NEW w \in Workers, held[w] = r, result[w] = "accepted" PROVE r \in Hands
    <3>1. pc[w] = "write"
      BY <2>3 DEF TypeOK
    <3> QED BY <2>1, <2>3, <3>1 DEF InFlightOf
  <2> QED BY <2>1, <2>2, <2>3 DEF AcceptedOf
<1>2. IsFiniteSet(Hands) /\ Cardinality(Hands) <= Cardinality(InFlightOf(S)) /\ Cardinality(Hands) \in Nat
  <2>1. IsFiniteSet(InFlightOf(S))
    BY Finite
  <2>2. \A w \in InFlightOf(S) : held[w] \in Hands
    OBVIOUS
  <2>3. [w \in InFlightOf(S) |-> held[w]] \in Surjection(InFlightOf(S), Hands)
    BY Fun_IsSurj
  <2>4. IsFiniteSet(Hands) /\ Cardinality(Hands) <= Cardinality(InFlightOf(S))
    BY <2>1, <2>3, FS_Surjection
  <2> QED BY <2>4, FS_CardinalityType
<1> HIDE DEF Hands
<1>3. IsFiniteSet(AcceptedOf(S) \cup Hands)
      /\ Cardinality(AcceptedOf(S) \cup Hands) <= Cardinality(AcceptedOf(S)) + Cardinality(Hands)
  <2>1. IsFiniteSet(AcceptedOf(S) \cap Hands) /\ Cardinality(AcceptedOf(S) \cap Hands) \in Nat
    BY <1>2, FS_Intersection, FS_CardinalityType
  <2>2. /\ IsFiniteSet(AcceptedOf(S) \cup Hands)
        /\ Cardinality(AcceptedOf(S) \cup Hands)
             = Cardinality(AcceptedOf(S)) + Cardinality(Hands) - Cardinality(AcceptedOf(S) \cap Hands)
    BY <1>2, Finite, FS_Union
  <2> QED BY <1>2, <2>1, <2>2, Finite
<1>4. IsFiniteSet(Taken \cap S) /\ Cardinality(Taken \cap S) <= Cardinality(AcceptedOf(S) \cup Hands)
  BY <1>1, <1>3, FS_Subset
<1>5. Cardinality(Taken \cap S) \in Nat /\ Cardinality(AcceptedOf(S) \cup Hands) \in Nat
  BY <1>3, <1>4, FS_CardinalityType
<1> QED BY <1>2, <1>3, <1>4, <1>5, Finite DEF TableBound

(* While passes end within their lease and no worker dies, the messages the*)
(* provider has accepted pass the cap of ordinary mail, and the ceiling of *)
(* all mail, by no more than one for each other worker.                    *)
THEOREM OutboxCap == ASSUME Exclusive, RETENTION >= MaxTime PROVE Spec => []CapBound
<1> DEFINE AllMail == TableBound(Rows, DAILY_CAP * CRITICAL_CEILING)
           Ordinary == TableBound(Rows \ Critical, DAILY_CAP)
<1>1. DAILY_CAP \in Nat /\ DAILY_CAP * CRITICAL_CEILING \in Nat
  BY OutboxAssumption
<1>2. Init => AllMail /\ Ordinary /\ AllKept
  <2> SUFFICES ASSUME Init PROVE AllMail /\ Ordinary /\ AllKept
    OBVIOUS
  <2>1. AllMail /\ Ordinary
    BY <1>1, InitCap
  <2> QED BY <2>1 DEF Init, AllKept, Absent
<1>3. TypeOK /\ AllMail /\ Ordinary /\ AllKept /\ [Next]_vars => AllMail' /\ Ordinary' /\ AllKept'
  BY <1>1, NextCap, NextKept DEF Cap
<1>4. TypeOK /\ AllMail /\ Ordinary /\ AllKept /\ AcceptedOnce => CapBound
  <2> SUFFICES ASSUME TypeOK, AllMail, Ordinary, AllKept, AcceptedOnce PROVE CapBound
    OBVIOUS
  <2>1. Taken \cap Rows = Taken /\ Taken \cap (Rows \ Critical) = Taken \ Critical
    BY DEF Taken
  <2>2. /\ Cardinality(Taken \cap Rows) <= DAILY_CAP * CRITICAL_CEILING + Cardinality(Workers) - 1
        /\ Cardinality(Taken \cap (Rows \ Critical)) <= DAILY_CAP + Cardinality(Workers) - 1
    BY <1>1, TakenBound
  <2> QED BY <2>1, <2>2 DEF CapBound
<1> HIDE DEF AllMail, Ordinary
<1> QED BY <1>2, <1>3, <1>4, OutboxTypes, OutboxOnce, PTL DEF Spec

(* Under the same conditions, no step puts an accepted message back.       *)
THEOREM OutboxFinal == ASSUME Exclusive PROVE Spec => AcceptedIsFinal
<1> DEFINE Final == \A r \in Rows : row[r].status = "provider_accepted"
                                    => row'[r].status \in {"provider_accepted", "purged"}
<1>1. ExclusiveInv /\ TypeOK' /\ [Next]_vars => ExclusiveInv' /\ Final
  BY NextExclusive
<1>2. Spec => [][Final]_vars
  BY InitExclusive, OutboxTypes, <1>1, PTL DEF Spec
<1> QED BY <1>2 DEF AcceptedIsFinal
-----------------------------------------------------------------------------
(* One worker asks the provider at most MAX_ATTEMPTS times, and once more  *)
(* for each answer that is lost: the count it selected a row with covers   *)
(* the answers it has heard.                                               *)
Single == \A w, v \in Workers : w = v

Heard(r) == past[r].handed - past[r].lost

(* A row to be taken: it waits, or who was sending it died.                *)
Loose(r) == row[r].status \in Waiting \cup {"sending"} /\ \A w \in Workers : held[w] # r

RowFine(r) ==
  /\ Heard(r) <= MAX_ATTEMPTS
  /\ row[r].status = "none" => Heard(r) = 0
  /\ Loose(r) => Heard(r) < MAX_ATTEMPTS /\ Heard(r) <= row[r].attempts

WorkFine(w) ==
  /\ held[w] \in Rows => held[w] \notin batch[w] /\ row[held[w]].status = "sending"
  /\ \A r \in batch[w] : Heard(r) <= seen[w][r]
  /\ pc[w] \in {"check", "send"} => /\ Heard(held[w]) < MAX_ATTEMPTS
                                    /\ Heard(held[w]) <= seen[w][held[w]]
                                    /\ Heard(held[w]) <= row[held[w]].attempts
  /\ pc[w] = "write" => /\ Heard(held[w]) <= seen[w][held[w]] + 1
                         /\ Heard(held[w]) <= row[held[w]].attempts + 1

SingleInv == TypeOK /\ (\A r \in Rows : RowFine(r)) /\ (\A w \in Workers : WorkFine(w))

LEMMA HeardIs ==
  ASSUME TypeOK, NEW r \in Rows
  PROVE  Heard(r) \in Int /\ row[r].attempts \in Nat /\ row[r] \in RowType
BY DEF TypeOK, PastType, RowType, Heard

LEMMA LostHeard ==
  ASSUME TypeOK, NEW w \in Workers, LoseAnswer(w), NEW h \in Rows, held[w] = h
  PROVE  /\ pc[w] # "write" => Heard(h)' = Heard(h)
         /\ pc[w] = "write" => Heard(h)' = Heard(h) - 1
<1>1. past[h].handed \in Nat /\ past[h].lost \in Nat /\ past[h] \in PastType
  BY DEF TypeOK, PastType
<1>2. CASE pc[w] # "write"
  BY <1>2 DEF Heard, LoseAnswer
<1>3. CASE pc[w] = "write"
  <2>1. past'[h] = Unheard(past[h])
    BY <1>3 DEF LoseAnswer, TypeOK
  <2>2. past'[h].handed = past[h].handed /\ past'[h].lost = past[h].lost + 1
    BY <1>1, <2>1 DEF Unheard, PastType
  <2> QED BY <1>1, <1>3, <2>2 DEF Heard
<1> QED BY <1>2, <1>3

(* The worker writes a result and lets go.                                 *)
LEMMA SingleLetGo ==
  ASSUME Single, SingleInv, TypeOK', NEW w \in Workers, NEW h \in Rows, held[w] = h, NextMessage(w),
         NEW s, s \notin {"sending", "none"}, NEW a \in Nat, NEW t, Done(w, s, a, t),
         s \in Waiting => Heard(h)' < MAX_ATTEMPTS /\ Heard(h)' <= a,
         Heard(h)' <= MAX_ATTEMPTS,
         \A r \in Rows : r # h => past'[r] = past[r],
         UNCHANGED <<batch, seen>>
  PROVE  SingleInv'
<1>1. h \in Rows /\ row[h].status = "sending" /\ row[h] \in RowType
  BY DEF SingleInv, WorkFine, TypeOK
<1>2. row'[h].status = s /\ row'[h].attempts = a /\ \A k \in Rows : k # h => row'[k] = row[k]
  BY <1>1 DEF Done, SingleInv, TypeOK, RowType
<1>3. held'[w] \notin Rows /\ pc'[w] = "pass"
  BY Constants DEF NextMessage, SingleInv, TypeOK
<1>4. \A v \in Workers : v = w
  BY DEF Single
<1>5. ASSUME NEW r \in Rows PROVE RowFine(r)'
  <2>1. CASE r = h
    <3>1. row'[r].status = s /\ row'[r].attempts = a /\ s # "sending" /\ s # "none"
      BY <1>2, <2>1
    <3>2. Heard(r)' <= MAX_ATTEMPTS
      BY <2>1
    <3>3. s \in Waiting => Heard(r)' < MAX_ATTEMPTS /\ Heard(r)' <= a
      BY <2>1
    <3>4. Loose(r)' => s \in Waiting
      BY <3>1 DEF Loose
    <3> QED BY <3>1, <3>2, <3>3, <3>4 DEF RowFine
  <2>2. CASE r # h
    <3>1. row'[r] = row[r] /\ past'[r] = past[r] /\ \A v \in Workers : held[v] # r /\ held'[v] # r
      BY <1>2, <1>3, <1>4, <2>2
    <3> QED BY <3>1 DEF SingleInv, RowFine, Loose, Heard
  <2> QED BY <2>1, <2>2
<1>6. ASSUME NEW v \in Workers PROVE WorkFine(v)'
  <2>1. v = w /\ batch'[w] = batch[w] /\ seen'[w] = seen[w] /\ h \notin batch[w] /\ batch[w] \subseteq Rows
    BY <1>1, <1>4 DEF SingleInv, WorkFine, TypeOK
  <2>2. \A r \in batch[w] : Heard(r)' <= seen'[w][r]
    BY <2>1 DEF SingleInv, WorkFine, Heard
  <2> QED BY <1>3, <2>1, <2>2 DEF WorkFine
<1> QED BY <1>5, <1>6 DEF SingleInv

LEMMA NextSingle == ASSUME Single, SingleInv, TypeOK', [Next]_vars PROVE SingleInv'
<1>0. \A w, v \in Workers : w = v
  BY DEF Single
<1>1. ASSUME NEW r \in Rows, Enqueue(r) \/ Requeue(r) \/ Purge(r) PROVE SingleInv'
  <2>1. /\ \A k \in Rows : k # r => row'[k] = row[k] /\ past'[k] = past[k]
        /\ UNCHANGED <<pc, held, batch, seen>>
    BY <1>1 DEF Enqueue, Requeue, Purge, pass, SingleInv, TypeOK
  <2>2. row[r].status # "sending" /\ \A w \in Workers : held[w] # r
    <3>1. row[r].status # "sending"
      BY <1>1 DEF Enqueue, Requeue, MayRequeue, Purge, Ended
    <3> QED BY <3>1 DEF SingleInv, WorkFine
  <2>3. past'[r] = past[r] \/ Heard(r)' = 0
    <3>1. CASE Requeue(r)
      <4>1. past'[r] = [Blank EXCEPT !.accepted = past[r].accepted]
        BY <3>1 DEF Requeue, SingleInv, TypeOK
      <4> QED BY <4>1 DEF Blank, Heard
    <3>2. CASE Enqueue(r) \/ Purge(r)
      BY <3>2 DEF Enqueue, Purge
    <3> QED BY <1>1, <3>1, <3>2
  <2>4. RowFine(r)'
    <3>1. CASE Enqueue(r)
      <4>1. PICK t \in {NoTime, clock + LATER} :
              row' = [row EXCEPT ![r] = [Absent EXCEPT !.status = "queued", !.created = clock, !.nextAt = t]]
        BY <3>1 DEF Enqueue
      <4>2. row'[r] = [Absent EXCEPT !.status = "queued", !.created = clock, !.nextAt = t]
        BY <4>1 DEF SingleInv, TypeOK
      <4>3. row'[r].status = "queued" /\ row'[r].attempts = 0
        BY <4>2 DEF Absent
      <4>4. Heard(r)' = 0
        BY <3>1 DEF Enqueue, SingleInv, RowFine, Heard
      <4> QED BY <4>3, <4>4, OutboxAssumption DEF RowFine, Loose
    <3>2. CASE Requeue(r)
      <4>1. row'[r] = [row[r] EXCEPT !.status = "queued", !.attempts = 0, !.nextAt = NoTime, !.leased = NoTime]
        BY <3>2 DEF Requeue, SingleInv, TypeOK
      <4>2. row[r] \in RowType
        BY DEF SingleInv, TypeOK
      <4>3. row'[r].status = "queued" /\ row'[r].attempts = 0
        BY <4>1, <4>2 DEF RowType
      <4>4. past'[r] = [Blank EXCEPT !.accepted = past[r].accepted]
        BY <3>2 DEF Requeue, SingleInv, TypeOK
      <4>5. Heard(r)' = 0
        BY <4>4 DEF Blank, Heard
      <4> QED BY <4>3, <4>5, OutboxAssumption DEF RowFine, Loose
    <3>3. CASE Purge(r)
      <4>1. row'[r].status = "purged" /\ past'[r] = past[r]
        BY <3>3 DEF Purge, SingleInv, TypeOK, Absent
      <4> QED BY <4>1 DEF SingleInv, RowFine, Loose, Heard, Waiting
    <3> QED BY <1>1, <3>1, <3>2, <3>3
  <2>5. \A k \in Rows : RowFine(k)'
    BY <2>1, <2>4 DEF SingleInv, RowFine, Loose, Heard
  <2>6. ASSUME NEW w \in Workers PROVE WorkFine(w)'
    <3>1. held[w] \in Rows => row'[held[w]] = row[held[w]] /\ past'[held[w]] = past[held[w]]
      BY <2>1, <2>2
    <3>2. pc[w] \in {"check", "send", "write"} => held[w] \in Rows
      BY DEF SingleInv, TypeOK
    <3>3. \A k \in batch[w] : Heard(k)' <= seen[w][k]
      <4>1. \A k \in batch[w] : k \in Rows /\ seen[w][k] \in Nat /\ Heard(k) <= seen[w][k]
        BY DEF SingleInv, WorkFine, TypeOK
      <4> QED BY <2>1, <2>3, <4>1 DEF Heard
    <3> QED BY <2>1, <3>1, <3>2, <3>3 DEF SingleInv, WorkFine, Heard
  <2> QED BY <2>5, <2>6 DEF SingleInv
<1>2. CASE SetPaused \/ Tick \/ UNCHANGED vars
  <2>1. UNCHANGED <<row, pc, batch, seen, held, past>>
    BY <1>2 DEF SetPaused, Tick, vars, pass
  <2> QED BY <2>1 DEF SingleInv, RowFine, WorkFine, Loose, Heard
<1>3. ASSUME NEW w \in Workers, StartPass(w) PROVE SingleInv'
  <2>1. /\ pc[w] = "idle" /\ pc' = [pc EXCEPT ![w] = "pass"]
        /\ batch' = [batch EXCEPT ![w] = Selection]
        /\ seen' = [seen EXCEPT ![w] = [r \in Rows |-> IF r \in Selection THEN row[r].attempts ELSE 0]]
        /\ UNCHANGED <<row, held, past>>
    BY <1>3 DEF StartPass
  <2>2. held[w] \notin Rows /\ pc'[w] = "pass" /\ batch'[w] = Selection
        /\ seen'[w] = [r \in Rows |-> IF r \in Selection THEN row[r].attempts ELSE 0]
    BY <2>1 DEF SingleInv, TypeOK
  <2>3. ASSUME NEW r \in Selection PROVE r \in Rows /\ Heard(r) <= row[r].attempts
    <3>1. r \in Rows /\ (row[r].status \in Waiting \/ row[r].status = "sending")
      BY DEF Selection, DueAt
    <3>2. Loose(r)
      BY <1>0, <2>2, <3>1 DEF Loose
    <3> QED BY <3>1, <3>2 DEF SingleInv, RowFine
  <2>4. WorkFine(w)'
    BY <2>1, <2>2, <2>3 DEF WorkFine, Heard
  <2> QED BY <1>0, <2>1, <2>4 DEF SingleInv, RowFine, Loose, Heard
<1>4. ASSUME NEW w \in Workers, EndPass(w) PROVE SingleInv'
  <2>1. held[w] \notin Rows /\ Forget(w) /\ UNCHANGED <<row, past>>
    BY <1>4 DEF EndPass, SingleInv, TypeOK
  <2>2. held'[w] \notin Rows /\ pc'[w] = "idle" /\ batch'[w] = {}
    BY <2>1, Constants DEF Forget, SingleInv, TypeOK
  <2>3. WorkFine(w)'
    BY <2>2 DEF WorkFine
  <2>4. \A r \in Rows, v \in Workers : held[v] # r /\ held'[v] # r
    BY <1>0, <2>1, <2>2
  <2>5. \A r \in Rows : RowFine(r)'
    BY <2>1, <2>4 DEF SingleInv, RowFine, Loose, Heard
  <2> QED BY <1>0, <2>3, <2>5 DEF SingleInv
<1>5. ASSUME NEW w \in Workers, Claim(w) PROVE SingleInv'
  <2>1. PICK r \in batch[w] :
          /\ batch' = [batch EXCEPT ![w] = @ \ {r}]
          /\ \/ /\ MayClaim(w, r)
                /\ row' = [row EXCEPT ![r] = [@ EXCEPT !.status = "sending", !.leased = start[w] + LEASE]]
                /\ pc' = [pc EXCEPT ![w] = "check"]
                /\ held' = [held EXCEPT ![w] = r]
             \/ UNCHANGED <<row, pc, held>>
    BY <1>5 DEF Claim
  <2>2. /\ pc[w] = "pass" /\ r \in Rows /\ row[r] \in RowType /\ held[w] \notin Rows
        /\ batch'[w] = batch[w] \ {r} /\ UNCHANGED <<seen, past>>
    BY <1>5, <2>1 DEF Claim, SingleInv, TypeOK
  <2>3. \A k \in Rows, v \in Workers : held[v] # k
    BY <1>0, <2>2
  <2>4. CASE UNCHANGED <<row, pc, held>>
    <3>1. WorkFine(w)'
      BY <2>2, <2>4 DEF SingleInv, WorkFine, Heard
    <3> QED BY <1>0, <2>2, <2>4, <3>1 DEF SingleInv, RowFine, Loose, Heard
  <2>5. CASE /\ MayClaim(w, r)
             /\ row' = [row EXCEPT ![r] = [@ EXCEPT !.status = "sending", !.leased = start[w] + LEASE]]
             /\ pc' = [pc EXCEPT ![w] = "check"]
             /\ held' = [held EXCEPT ![w] = r]
    <3>1. Heard(r) < MAX_ATTEMPTS /\ Heard(r) <= row[r].attempts /\ Heard(r) <= seen[w][r]
      BY <2>2, <2>3, <2>5 DEF MayClaim, SingleInv, RowFine, WorkFine, Loose
    <3>2. row'[r] = [row[r] EXCEPT !.status = "sending", !.leased = start[w] + LEASE]
          /\ \A k \in Rows : k # r => row'[k] = row[k]
      BY <2>2, <2>5 DEF SingleInv, TypeOK
    <3>3. row'[r].status = "sending" /\ row'[r].attempts = row[r].attempts
      BY <2>2, <3>2 DEF RowType
    <3>4. held'[w] = r /\ pc'[w] = "check"
      BY <2>5 DEF SingleInv, TypeOK
    <3>5. WorkFine(w)'
      BY <2>2, <3>1, <3>3, <3>4 DEF SingleInv, WorkFine, Heard
    <3>6. ASSUME NEW k \in Rows PROVE RowFine(k)'
      <4>1. CASE k = r
        BY <2>2, <3>1, <3>3, <3>4, <4>1 DEF SingleInv, RowFine, Loose, Heard
      <4>2. CASE k # r
        BY <1>0, <2>2, <2>3, <3>2, <3>4, <4>2 DEF SingleInv, RowFine, Loose, Heard
      <4> QED BY <4>1, <4>2
    <3> QED BY <1>0, <3>5, <3>6 DEF SingleInv
  <2> QED BY <2>1, <2>4, <2>5
<1>6. ASSUME NEW w \in Workers,
             CheckStops(w) \/ Postpone(w) \/ Unexpected(w) \/ RecordEnd(w) \/ RecordFailure(w)
      PROVE  SingleInv'
  <2>1. pc[w] \in {"check", "write"} /\ NextMessage(w) /\ UNCHANGED <<batch, seen>>
    BY <1>6 DEF CheckStops, Postpone, Unexpected, RecordEnd, RecordFailure, pass
  <2>0. PICK h \in Rows : held[w] = h
    BY <2>1 DEF SingleInv, TypeOK
  <2>2. Heard(h) \in Int /\ seen[w][h] \in Nat /\ row[h].attempts \in Nat /\ Heard(h) <= MAX_ATTEMPTS
    BY <2>0, HeardIs DEF SingleInv, TypeOK, RowFine
  <2>3. pc[w] = "check" => /\ Heard(h) < MAX_ATTEMPTS /\ Heard(h) <= seen[w][h]
                           /\ Heard(h) <= row[h].attempts
    BY <2>0 DEF SingleInv, WorkFine
  <2>4. pc[w] = "write" => Heard(h) <= seen[w][h] + 1
    BY <2>0 DEF SingleInv, WorkFine
  <2> DEFINE After(s, a, t) == /\ s \notin {"sending", "none"} /\ Done(w, s, a, t)
                               /\ s \in Waiting => Heard(h)' < MAX_ATTEMPTS /\ Heard(h)' <= a
             Rest == Heard(h)' <= MAX_ATTEMPTS /\ \A r \in Rows : r # h => past'[r] = past[r]
  <2>5. Rest /\ \E s, t : \E a \in Nat : After(s, a, t)
    <3>0. ASSUME past' = past PROVE Heard(h)' = Heard(h) /\ Rest
      BY <2>2, <3>0 DEF Heard
    <3>1. CASE CheckStops(w)
      <4>1. past' = past
        BY <3>1 DEF CheckStops
      <4> QED BY <2>0, <2>2, <3>0, <3>1, <4>1 DEF CheckStops, Suppressed, Unrenderable, Kept, Waiting
    <3>2. CASE Postpone(w)
      <4>1. past' = past
        BY <3>2 DEF Postpone
      <4> QED BY <2>0, <2>2, <2>3, <3>0, <3>2, <4>1 DEF Postpone, QuietHours, CapReached, Kept
    <3>3. CASE Unexpected(w)
      <4>1. LoseAnswer(w) /\ Done(w, "retry_due", Attempt(w), start[w] + LATER)
        BY <3>3 DEF Unexpected
      <4>2. /\ pc[w] = "check" => Heard(h)' = Heard(h)
            /\ pc[w] = "write" => Heard(h)' = Heard(h) - 1
            /\ \A r \in Rows : r # h => past'[r] = past[r]
        <5>1. TypeOK
          BY DEF SingleInv
        <5>2. \A r \in Rows : r # h => past'[r] = past[r]
          BY <2>0, <4>1, <5>1, LostKeeps
        <5> QED BY <2>0, <4>1, <5>1, <5>2, LostHeard
      <4>3. Attempt(w) = seen[w][h] + 1 /\ Attempt(w) \in Nat
        BY <2>0, <2>2 DEF Attempt
      <4>4. Heard(h)' < MAX_ATTEMPTS /\ Heard(h)' <= Attempt(w)
        BY <2>1, <2>2, <2>3, <2>4, <4>2, <4>3, OutboxAssumption
      <4>5. After("retry_due", Attempt(w), start[w] + LATER)
        BY <4>1, <4>4
      <4>6. Heard(h)' <= MAX_ATTEMPTS
        BY <2>1, <2>2, <4>2, <4>4, OutboxAssumption
      <4> QED BY <4>2, <4>3, <4>5, <4>6
    <3>4. CASE RecordEnd(w)
      <4>1. Ending(result[w]) \in {"provider_accepted", "logged_only", "suppressed"}
            /\ Done(w, Ending(result[w]), Attempt(w), Kept(w).nextAt) /\ past' = past
        BY <3>4 DEF RecordEnd, Ending
      <4>2. Attempt(w) \in Nat
        BY <2>0, <2>2 DEF Attempt
      <4> QED BY <3>0, <4>1, <4>2 DEF Waiting
    <3>5. CASE RecordFailure(w)
      <4>1. Attempt(w) \in Nat /\ Heard(h) <= Attempt(w) /\ past' = past
        BY <2>0, <2>2, <2>4, <3>5 DEF RecordFailure, Attempt
      <4>2. CASE GivesUp(w) /\ Done(w, "permanent_failure", Attempt(w), Kept(w).nextAt)
        BY <3>0, <4>1, <4>2 DEF Waiting
      <4>3. CASE ~GivesUp(w) /\ Done(w, "retry_due", Attempt(w), start[w] + Wait(Attempt(w)))
        <5>1. Attempt(w) < MAX_ATTEMPTS
          BY <4>1, <4>3, OutboxAssumption DEF GivesUp
        <5>2. Heard(h) < MAX_ATTEMPTS
          BY <2>2, <4>1, <5>1, OutboxAssumption
        <5> QED BY <3>0, <4>1, <4>3, <5>2
      <4> QED BY <3>5, <4>2, <4>3 DEF RecordFailure
    <3> QED BY <1>6, <3>1, <3>2, <3>3, <3>4, <3>5
  <2>6. PICK s, t : \E a \in Nat : After(s, a, t)
    BY <2>5
  <2>7. PICK a \in Nat : After(s, a, t)
    BY <2>6
  <2> QED BY <2>0, <2>1, <2>5, <2>7, SingleLetGo
<1>7. ASSUME NEW w \in Workers, Cleared(w) PROVE SingleInv'
  <2>1. pc[w] = "check" /\ pc' = [pc EXCEPT ![w] = "send"] /\ UNCHANGED <<row, batch, seen, held, past>>
    BY <1>7 DEF Cleared, pass
  <2>2. WorkFine(w)'
    BY <2>1 DEF SingleInv, WorkFine, TypeOK, Heard
  <2> QED BY <1>0, <2>1, <2>2 DEF SingleInv, RowFine, Loose, Heard
<1>8. ASSUME NEW w \in Workers, NEW o \in Answers, Send(w, o) PROVE SingleInv'
  <2>0. PICK h \in Rows : held[w] = h
    BY <1>8 DEF Send, SingleInv, TypeOK
  <2>1. /\ pc[w] = "send" /\ past[h] \in PastType
        /\ past' = [past EXCEPT ![h] = Handed(past[h], o)]
        /\ pc' = [pc EXCEPT ![w] = "write"] /\ UNCHANGED <<row, batch, seen, held>>
    BY <1>8, <2>0 DEF Send, SingleInv, TypeOK
  <2>2. Heard(h)' = Heard(h) + 1 /\ \A k \in Rows : k # h => past'[k] = past[k]
    <3>1. Handed(past[h], o).handed = past[h].handed + 1 /\ Handed(past[h], o).lost = past[h].lost
          /\ past[h].handed \in Nat /\ past[h].lost \in Nat
      BY <2>1 DEF Handed, PastType
    <3>2. past'[h] = Handed(past[h], o) /\ \A k \in Rows : k # h => past'[k] = past[k]
      BY <2>1 DEF SingleInv, TypeOK
    <3> QED BY <2>1, <3>1, <3>2 DEF Heard
  <2>3. /\ Heard(h) < MAX_ATTEMPTS /\ Heard(h) <= seen[w][h] /\ h \notin batch[w]
        /\ Heard(h) <= row[h].attempts /\ row[h].status = "sending" /\ pc'[w] = "write"
    BY <2>0, <2>1 DEF SingleInv, WorkFine, TypeOK
  <2>4. Heard(h) \in Int /\ row[h].attempts \in Nat /\ seen[w][h] \in Nat /\ batch[w] \subseteq Rows
    BY <2>1, HeardIs DEF SingleInv, TypeOK
  <2>5. /\ Heard(h)' <= MAX_ATTEMPTS /\ Heard(h)' <= seen[w][h] + 1
        /\ Heard(h)' <= row[h].attempts + 1
    BY <2>2, <2>3, <2>4, OutboxAssumption
  <2>6. WorkFine(w)'
    <3>1. \A k \in batch[w] : Heard(k)' <= seen[w][k]
      BY <2>2, <2>3, <2>4 DEF SingleInv, WorkFine, Heard
    <3> QED BY <2>0, <2>1, <2>3, <2>5, <3>1 DEF WorkFine
  <2>7. ASSUME NEW k \in Rows PROVE RowFine(k)'
    <3>1. CASE k = h
      <4>1. ~ Loose(k)'
        BY <2>0, <2>1, <3>1 DEF Loose
      <4> QED BY <2>1, <2>3, <2>5, <3>1, <4>1 DEF RowFine
    <3>2. CASE k # h
      BY <2>1, <2>2, <3>2 DEF SingleInv, RowFine, Loose, Heard
    <3> QED BY <3>1, <3>2
  <2> QED BY <1>0, <2>6, <2>7 DEF SingleInv
<1>9. ASSUME NEW w \in Workers, Crash(w) PROVE SingleInv'
  <2>1. LoseAnswer(w) /\ Forget(w) /\ row' = row /\ pc[w] # "idle" /\ TypeOK
    BY <1>9 DEF Crash, SingleInv
  <2>2. held'[w] \notin Rows /\ pc'[w] = "idle" /\ batch'[w] = {}
    BY <2>1, Constants DEF Forget, TypeOK
  <2>3. ASSUME NEW k \in Rows, k # held[w] PROVE RowFine(k)'
    <3>1. past'[k] = past[k]
      BY <2>1, <2>3, LostKeeps
    <3>2. \A v \in Workers : held[v] # k
      BY <1>0, <2>3
    <3> QED BY <2>1, <3>1, <3>2 DEF SingleInv, RowFine, Loose, Heard
  <2>4. ASSUME NEW h \in Rows, held[w] = h PROVE RowFine(h)'
    <3>1. Heard(h) \in Int /\ row[h].attempts \in Nat /\ Heard(h) <= MAX_ATTEMPTS
      BY <2>1, HeardIs DEF SingleInv, RowFine
    <3>2. row[h].status = "sending" /\ pc[w] \in {"check", "send", "write"}
      BY <2>4 DEF SingleInv, TypeOK, WorkFine
    <3>3. /\ pc[w] # "write" => Heard(h)' = Heard(h)
          /\ pc[w] = "write" => Heard(h)' = Heard(h) - 1
      BY <2>1, <2>4, LostHeard
    <3>4. /\ pc[w] # "write" => Heard(h) < MAX_ATTEMPTS /\ Heard(h) <= row[h].attempts
          /\ pc[w] = "write" => Heard(h) <= row[h].attempts + 1
      BY <2>4, <3>2 DEF SingleInv, WorkFine
    <3>5. Heard(h)' < MAX_ATTEMPTS /\ Heard(h)' <= row[h].attempts /\ Heard(h)' \in Int
      BY <3>1, <3>3, <3>4, OutboxAssumption
    <3>6. Heard(h)' <= MAX_ATTEMPTS
      BY <3>5, OutboxAssumption
    <3> QED BY <2>1, <3>2, <3>5, <3>6 DEF RowFine
  <2>5. WorkFine(w)'
    BY <2>2 DEF WorkFine
  <2> QED BY <1>0, <2>3, <2>4, <2>5 DEF SingleInv
<1> QED BY <1>1, <1>2, <1>3, <1>4, <1>5, <1>6, <1>7, <1>8, <1>9 DEF Next

(* One worker asks the provider at most MAX_ATTEMPTS times for a message,  *)
(* and once more for each answer lost to its death or to a failed write,   *)
(* whatever administrators do and however slow it is.                      *)
THEOREM OutboxAttempts == ASSUME Single PROVE Spec => []SendsWithinAttempts
<1>1. Init => SingleInv
  <2> SUFFICES ASSUME Init PROVE SingleInv
    OBVIOUS
  <2>1. TypeOK
    BY InitTyped DEF Typed
  <2>2. \A r \in Rows : row[r].status = "none" /\ Heard(r) = 0
    BY DEF Init, Absent, Blank, Heard
  <2>3. \A r \in Rows : RowFine(r)
    BY <2>2, OutboxAssumption DEF RowFine, Loose, Waiting
  <2>4. \A w \in Workers : WorkFine(w)
    BY Constants DEF Init, WorkFine
  <2> QED BY <2>1, <2>3, <2>4 DEF SingleInv
<1>2. SingleInv /\ TypeOK' /\ [Next]_vars => SingleInv'
  BY NextSingle
<1>3. SingleInv => SendsWithinAttempts
  BY OutboxAssumption DEF SingleInv, RowFine, SendsWithinAttempts, Heard, TypeOK, PastType
<1> QED BY OutboxTypes, <1>1, <1>2, <1>3, PTL DEF Spec
=============================================================================
