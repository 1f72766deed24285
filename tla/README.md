# TLA+ models of ThemisIQ (One For All)

ThemisIQ is a governance, risk and compliance platform: one FastAPI application (`oneforall/main.py`) over one
database (PostgreSQL with a schema for each organization, SQLite in development), with modules for policies (ARIA),
audits (GRID), continuity (BCM), privacy (Sentinel), enterprise and operational risk, evidence and AI governance.

Most of its 125,000 lines of Python are pages, registers and reports that change one record in one transaction. Two
things are hard. One is the work nobody is looking at: rows that say "this still has to be done", and processes that
claim such rows, do something outside the database and write down how it went. `entrypoint.sh` starts two Uvicorn
workers, and **each of them starts every scheduler** (`main.py` lines 193-300), so every background job runs at least
twice against the same tables, and either copy may be slow, die or be restarted. The other is decisions of several
people about one record, where what was read in one statement is written on in a later one. This development models
those protocols.

- [What is here](#what-is-here)
- [The system](#the-system): the inventory
- The models: [event bus](#the-event-bus), [email outbox and mail budget](#the-email-outbox-and-the-mail-budget),
  [policy publication](#policy-publication), [policy workflow](#the-policy-workflow), [scans](#emerging-risk-scans),
  [reports](#reports), [incident clock](#the-incident-clock), [risk acceptance](#risk-acceptance),
  [evidence filing](#evidence-filing), [evidence campaigns](#evidence-campaigns),
  [workflow engine](#the-workflow-engine), [AI decisions](#decisions-on-ai-uses)
- [Runs](#runs), [bounds](#bounds), [fairness](#fairness), [theorems](#theorems)
- [Where the code and its words disagree](#where-the-code-and-its-words-disagree),
  [what holds only under an assumption](#what-holds-only-under-an-assumption)
- [Hazards no property covers](#hazards-no-property-covers), [not modelled](#not-modelled), [plan](#plan)

## What is here

| File | What it is |
|---|---|
| `EventLife.tla` | what the event bus promises the code that emits events (abstract specification) |
| `EventBus.tla`, `EventBusProofs.tla` | `core/events.py`, `core/event_sweeper.py`: emit, enqueue, deliver, sweep, retry; and that it implements `EventLife` |
| `EmailOutbox.tla`, `EmailOutboxProofs.tla` | `core/email_outbox.py`: the deliveries of one organization |
| `MailBudget.tla` | the same file's `deliver_all_tenants`: shares and rotation over organizations |
| `PolicyPublication.tla` | `aria/policy_publication.py`: claimed jobs that copy evidence and emit an event; built on `EventLife` |
| `PolicyWorkflow.tla` | `aria/policy_workflow_service.py`: drafts, builds, versions, submissions, decisions |
| `ScanJobs.tla` | `erm/scan_jobs.py`: one active scan, claimed under a lease and a token |
| `ReportRuns.tla` | the report queue and `launcher/report_job_sweeper.py` |
| `SavedReports.tla` | notes, sign-offs, shares, retention, hold and purge of a saved report |
| `IncidentClock.tla` | `bcm/escalation.py`: the window in which a commander has to acknowledge |
| `RiskAcceptance.tla` | `erm/acceptance.py`: propose, decide and revoke under the lock of the risk |
| `EvidenceFiling.tla` | `evidence/staging.py` and the upload into the vault: rows and bytes |
| `EvidenceCampaigns.tla` | requests for evidence and the daily sweep with its lease |
| `WorkflowEngine.tla` | `launcher/routes_workflows.py`: steps, holders of a role, first to respond |
| `AiDecisions.tla` | `ai_governance/decisions.py` against edits of the use in `service.py` |
| `PolicyProofs.tla` | proofs about `PolicyPublication` and `PolicyWorkflow` |
| `SchedulerProofs.tla` | proofs about `ScanJobs`, `IncidentClock` and `MailBudget` |
| `ReportProofs.tla` | proofs about `ReportRuns` and `SavedReports` |
| `EvidenceProofs.tla` | proofs about `EvidenceCampaigns` and `EvidenceFiling` |
| `DecisionProofs.tla` | proofs about `RiskAcceptance`, `AiDecisions` and `WorkflowEngine` |
| `ServicesProofs.tla` | that each of them keeps its types in `MCServices`, their composition |
| `MC*.tla`, `*.cfg` | instances for TLC, one configuration for each run |
| `PROJECT.json` | components, runs, mutants, the lines each definition stands for, findings, hazards, theorems |

To check a run: `tlc -workers 2 -config EventBus_overlap.cfg MCEventBus.tla`. To check the proofs of a module:
`tlapm EventBusProofs.tla`.

A definition whose name starts with `Slip_` is a plausible mistake in a definition that follows it. It is used by
no specification. Putting it in place of that definition must break the property `PROJECT.json` pairs it with; this is
how each property is known to say something about the code.

## The system

State is a database table unless said otherwise. "Sweeper" is a job of an APScheduler in every server process. The
components in bold have a model.

| Component | State it keeps | Operations | Interacts with | What is hard | What makes it correct |
|---|---|---|---|---|---|
| **Event bus** `core/events.py`, `event_sweeper.py` | `events`, `event_deliveries` | emit, enqueue, deliver, deliver_pending, retry_dead | every module emits; 50 handlers in `event_handlers.py`; webhooks | overlapping deliveries, leases, crashes, lost bookkeeping, dead letters | nothing is lost; processed means handled; one deliverer; no success rerun |
| **Email outbox** `core/email_outbox.py` | `email_outbox`, pause setting | enqueue, deliver_due, requeue, purge | reminders, escalations, digests; the mail provider | two workers, lease by the start of the pass, caps read before sending, retries | sent once; bounded attempts; caps hold up to the number of workers that live |
| **Shared mail budget** `deliver_all_tenants` | a number for each pass | rotate, share, spend the rest | outbox of each organization | rotation by the minute | the budget holds; every organization gets its turn |
| **Policy publication** `aria/policy_publication.py` | `aria_policy_publication_jobs` | claim, process, retry, fail, retry_now | the approval stores the job; evidence vault; event bus | lease and token, takeover, the event's own attempts | complete means published; one holder; every job ends |
| **Policy workflow** `aria/policy_workflow_service.py` | drafts, versions, approvals | generate, save, build, confirm, submit, decide, withdraw, expire | stores the publication job | minutes between a read and its compare-and-set; expiry | a version is what was previewed; one submission; an approval replaces what it was based on |
| **Emerging risk scans** `erm/scan_jobs.py` | `erm_emerging_scan_jobs` | queue, claim, complete, fail, abandon | ERM pages; a model provider | one active slot, lease and token, takeover of a slow scan | one active scan; a late scheduler concludes nothing; every scan ends |
| **Report runs** `launcher/report_job_sweeper.py`, `report_retention.py` | `report_runs` and what is written beside it | request, claim, generate, fail stale; note, sign, share, purge | report builders | claim by status alone; two runs a pass; a sweep against a hold; sign-off against a dispute | generated once; every run ends; what is held stays |
| **Incident escalation** `bcm/escalation.py` | clock columns of `bcm_incidents` | start, acknowledge, edit, escalate | outbox, notifications | two passes against acknowledgement and edits | told once, when due, never after an acknowledgement |
| **Risk acceptance** `erm/acceptance.py` | `erm_risk_acceptances` | propose, decide, revoke, expire | the risk and its appetite | edits of the risk in between | at most one in force; approved as it is |
| **Evidence filing** `evidence/staging.py`, upload route | staged rows, items, two directories | stage, file, discard, sweep | evidence vault | rows and bytes do not commit together | filed once; no row without its bytes |
| **Evidence campaigns** `evidence_campaigns/` | requests, campaigns, the sweep's lease | create, submit, review, decide, close, sweep | reminders | the sweep against decisions; two sweeps | what was seen is accepted; one successor |
| **Workflow engine** `launcher/routes_workflows.py` | definitions, instances, actions | start, decide (approve, reject, return), edit | notifications; SLA scheduler | two holders who decide at once | the current step waits for somebody; the first to respond wins |
| **AI governance** `ai_governance/` | uses, decisions; assessments, packs, imports | edit, request, decide, withdraw, revoke | event bus | decisions against changes of the use | an approval stands for what was asked and decided, and only for that |
| SLA monitor `core/workflow_scheduler.py` | `sla_instances`, notifications | flag breaches, warn | workflows | check-then-insert in two processes; one flag for two deadlines | every breach told, once |
| Policy files `aria/policy_intake.py`, `policy_storage.py` | files on disk, rows that name them | store, preview, compose, retention sweep | policy workflow | files and rows do not commit together | no referenced file is swept |
| Evidence vault, group requests | `evidence_*` | link, review, request, adopt | GRID, ARIA, group | one request seen by two organizations | both sides agree |
| GRID, Sentinel, ERM, BCM, ORM registers | their tables | create, update, approve, delete | event bus | long state machines, one actor at a time | legal transitions only |
| Sessions, MFA, rate limits | `sessions`, `user_mfa`, counters in memory | log in, verify, expire | every request | counters are per process | a code is used once |
| Database layer `database.py` | pool, tenant binding, job lock | get_db, tenant_context, migrations, lock | everything | tenant binding of pooled connections | rows of the bound tenant only |
| AI client, webhooks, notifications | in-memory pool, usage rows | call, post | handlers | lost with the process | best effort |
| Launcher, report kit, front end, scripts | none of their own | read and render | everything | - | - |

How the main parts meet: a **policy workflow** turns a draft into a version, and the decision to approve it stores a
**publication job** in the approval's transaction (`published` in one model, `Approve` in the other). A worker claims
the job, copies evidence, and **emits** ARIA_POLICY_PUBLISHED with the job's publication key as dedup key. The **bus**
stores the event and delivers it to its handlers; `emit` returns an id whether or not they completed, so the worker
reads the event's status and completes its job only when it says `processed`. Failing handlers are retried by the bus
on its own schedule, and failing jobs by their worker on theirs. Messages to people (escalations, failures,
reminders) are rows of the **outbox**, whose passes over the organizations share the **mail budget**.

## The event bus

`EventBus` has one process for each caller (a request or a job that emits) and each sweeper. The state of the database
is `status`, `due` (the time left until `next_attempt_at`), `deadAt` (`dead_lettered_at` is set), `key` and
`delivery`; `ran` is history: the handler has really completed once. The rest is what a process holds in memory, which
is what goes stale: the event it is delivering, the handlers it found undone when it started (`todo`), the outcome it
has not recorded, the verdict it has computed and not written, and the rest of the list its sweep selected (`batch`).

Each process is cut where the code reads, commits, or runs somebody else's code:

| Code | Actions |
|---|---|
| `emit` | `EmitReplay`, `EmitLookup`, `EmitInsert`, `EmitLost` |
| `enqueue` in the caller's transaction, then `deliver_committed` | `Enqueue`, `EnqueueRepeat`, `CommitSource`, `RollbackSource` |
| `deliver` | `Load`, `RunHandler` for each handler in order, `RecordDelivery` or `LoseRecord` |
| `_finish` | `FinishRead` (computes the status), `FinishWrite` or `LoseFinish` |
| `deliver_pending` | `Sweep`, then `Claim` of each selected row in any order |
| `retry_dead` | `RetryDead`; its first update asks for a dead event, its second does not |
| process death | `Crash`: memory goes, an open transaction rolls back |

`EventLife` is what the rest of the platform may rely on, and it is weaker than one would think: an event, once
stored, stays; it becomes `processed` only when all handlers have completed; but `processed` and `dead` may be
overwritten by an overlapping delivery that finishes late, so a caller must look at the right moment. `KeepsPromise`
says the bus implements it. `handled` maps to "every handler has run to completion" and `st` to the status with
`pending` and `failed` both open.

## The email outbox and the mail budget

`EmailOutbox` has one organization's rows and one worker for each server process. A worker is cut after the selection
(`StartPass`), after each claim (`Claim`), after the checks (`Cleared`, or `CheckStops` and `Postpone`, which end them
early), at the provider call (`Send`) and at the write of the result (`RecordEnd`, `RecordFailure`, `Unexpected`).
Administrators requeue (`Requeue`), pause (`SetPaused`) and rows are purged (`Purge`).

Three facts of the code shape everything. The time a pass **started** stamps its leases and its retry times
(`start`). The attempt count written after a failure is that of the row **as it was selected** plus one (`seen`). The
compare-and-set of the claim asks for the status again and for the lease of a row being sent, but **not** for the time
a retry is due (`MayClaim`). The write of a result is an update by id alone, whoever holds the row by then (`Done`).

Recipients, templates and records are reduced to what the checks on them may say; the checks keep their order as far
as it can be told: a message is suppressed before caps are looked at, and its template is rendered only when there is
room.

`MailBudget` is the loop around it: `FirstPass` gives each organization its share in the order the minute rotates
(`Served`), with whatever part of it is used and also when that organization's pass fails; `SparePass` spends what is
left. `late` counts the passes since an organization had a share of its own.

## Policy publication

`PolicyPublication` has jobs, workers, and one event for each job, which takes the steps of `EventLife`. A worker
claims the oldest due job (`Claim`), **reads it back by its id in a second statement** (`ReadBack`), copies
(`Copy`, `CopyFails`), emits (`Emit`, `EmitFails`), looks at the event (`Check`) and writes what it concluded
(`Complete`, `Retry`, `MarkFailed`), where every write asks for the lease token the worker read. A token is the value
of the attempts counter at its claim: like the code's fresh uuid it does not occur again.

## The policy workflow

`PolicyWorkflow` is one document with its drafts, versions and approvals. Saving, building, confirming and submitting
are calls (`pcall`) that read in one step (`Read`, `ReadVersion`) and write in another (`SaveDraft`, `Build`,
`Confirm`, `Submit`), because what happens in between takes time: a build converts documents for minutes. Deciding
locks its rows, and withdrawing, discarding and expiring ask for the state in their update, so those are one step.
A draft's text is the lock version its save produced; a build remembers the text it rendered; a version is numbered by
its minor number, with the unique index as `NumberFree`.

## Emerging risk scans

`ScanJobs`: a request looks for an active scan (`Look`) and inserts one (`InsertScan`), where the unique index on the
active slot lets one of several win (`IndexRefuses`, `LookAgain`). `ClaimScan` is the whole claim: the sweep of used-up
scans, the choice of a pending or abandoned one, and a fresh token; `ReadScan` reads it back by id, as in the
publication. `CompleteScan` and `FailScan` ask for status and token.

## Reports

`ReportRuns`: `CountQueued` reads both limits, of the person and of the organization (`HasRoom`), and `InsertRun`
comes later. A pass (`StartPass`) goes through the organizations in order; `List` declares runs failed that have run
for an hour and selects the first `LISTED` pending ones, `TakeRun` is the compare-and-set on the status, `SaveRun` and `FailRun` write only over a running row,
`GeneratorDies` ends a process anywhere. `SavedReports` is what happens to a report afterwards: requests open it, then
write a note, a sign-off, a share, or a retention date with or without a hold. A sign-off reads the greatest id of the
notes it sees before it inserts (`ReadNotes`, `Sign`); a note takes its id when it is inserted and is seen when that
commits (`InsertNote`, `EndNote`), so ids do not follow commits. The purge lists (`ListDue`) and then deletes row by
row, by id and without asking for the hold again (`Purge`); what keeps a held report is that `_open` refuses a report
that is due, so that no hold can be set on what a sweep has listed (`HeldIsKept`).

## The incident clock

`IncidentClock` has one incident with the columns the clock is computed from. `Update` is `update_incident`: the row
read earlier (`before`), the new clock from it (`AfterUpdate`: restarted when the incident is reopened or handed over,
shortened but never lengthened by a new severity), written by id. A pass selects what is due
(`Select`) and claims it (`Escalate`), which asks again whether it was acknowledged or escalated. `told` counts the
notices since the clock was started.

## Risk acceptance

`RiskAcceptance`: proposing and the second half of deciding hold the lock of the risk's row, as edits of the risk do;
`ReadProposal` comes before the lock (`LockRisk`), the check of the snapshot after it (`CheckProposal`), and the
compare-and-set (`StillOpen`) last. Edits of the appetite, revocations and dates that pass (`TermEnds`) do not take
the lock.

## Evidence filing

`EvidenceFiling` keeps a row and its bytes apart: `Keep` before `Stage`; `DiscardFile`, `SweepFile` and `TakeFile` as
the three ways a staged file leaves the queue, where discarding has read the row before (`ReadOwn`) and the sweep has
listed it (`ListExpired`), and both then write by id. One sweep runs at a time, under the lock of the daily job
(`evidence/scheduler.py` 237-257); `SweepDies` leaves the rest of its list; `WriteBytes`, `Commit` or `RollBack`, and `RemoveBytes` as the stages of an
upload, with `UploadDies` between any two. `Commit` is the transaction: the old version is superseded if it is still
current, the item is inserted, the staged row marked filed if it still waits.

## Evidence campaigns

`EvidenceCampaigns`: every change of a request by a person is `ReadRequest` and `WriteRequest` under its lock version,
with `From` and `To` as the table of transitions. Closing counts the uncovered requirements first. The sweep takes the
lease (`Acquire`), lists and marks what is overdue (by id, without the lock version), queues reminders, and looks for
a successor before it inserts one (`LookForNext`, `Recur`).

## The workflow engine

`WorkflowEngine` is one instance over a definition that is a number of steps. `Holders` is whoever has the role of a
step, each with an action of their own. A decision reads its action and the definition (`ReadAction`) and writes by id
(`ApproveStep`, `RejectStep`, `ReturnStep`), cancelling the `Siblings` that still wait; returns go to any step that is
not ahead. The handler has no `await` after it has read the body, so two decisions overlap only between the two
server processes: `OneAtATime`. `EditDefinition` changes the steps under a running instance unless `StepsKept`.

## Decisions on AI uses

`AiDecisions` is one use (`use`: the fingerprint of its covered facts, its tier, its version, whether it is active)
and the decisions on it. A call of request_decision, decide, withdraw or revoke reads first, the brief included
(`ReadForRequest`, `ReadForDecision`, `ReadForRevocation`), and writes in a later step under its compare-and-set or the
unique index on open requests. Nothing locks the use: `UpdateProfile`, `AdoptTier` (with `mark_reviewed`) and
`RetireOrRestore` happen at any time. `InForce` is `derive_state`: the latest outcome that stands, unless it was
revoked, ran out, or is about other facts or another tier. `outcomes` is history.

## Runs

The services are modelled side by side and without interaction: a behaviour of `MCServices` or `MCLive` picks one part
and runs it alone, so that states add up and do not multiply. Two tables of the code are in two parts each. A row of
`report_runs` is a queued run in `ReportRuns` until it is completed, and what follows is `SavedReports`, where it
appears with `Store`; the purge takes only completed rows that are due, and the queue only pending and running ones. A
publication job is created by a decision in `PolicyWorkflow` (`published`), and `PolicyPublication` starts from there
(`Approve`).

| Run | Checks | Shows |
|---|---|---|
| `services` | `TypeOK`, `ServiceTypes` and, by part: publication `CompleteMeansPublished`, `OneHolder`, `CompleteIsFinal`; scans `OneActiveScan`, `EndedScanStays`; reports `EachRunGeneratedOnce`, `EndedRunStays`, `HeldIsKept`; incident `EscalatedOnceWhenDue`; risk `OneCurrentApproval`, `ApprovedAsItIs`; filing `FiledOnce`, `NoRowWithoutBytes`; policy `VersionIsWhatWasBuilt`, `OneSubmission`, `ApprovedOnItsBase`; campaigns `AcceptedWhatWasSeen`, `OneSuccessor`; mail `SharesGoRound`; workflow `OneStepWaits`; AI `ApprovedAsAsked` | the safety of twelve services, each with two processes or calls at once, deaths and expiries (820,000 states) |
| `live` | bus `OneDelivererAtATime`, `RecordedSuccessIsNotRerun`, `OpenEventsCanBeSelected`, `DeadMeansAHandlerFailed`, `ProcessedIsFinal`, `EveryEventSettles`; `EveryJobEnds`, `EveryScanEnds`, `EveryRunEnds`, `OverdueIsEscalated` | with deliveries that end within their lease the bus does what its docstrings say, through crashes, lost bookkeeping and administrator retries; and what must end does |
| `bus_overlap` | `ProcessedMeansEveryHandlerRan`, `KeepsPromise` | with deliveries of any length and replayed dedup keys, processed still means handled |
| `outbox_exclusive` | `AcceptedOnce` | passes that end within their lease and workers that live: nothing is sent twice |
| `outbox_cap` | `CapBound` | passes that end within their lease and workers that live: accepted mail, ordinary and all of it, passes its cap by at most one message for each other worker |
| `outbox_single` | `TypeOK`, `SendsWithinAttempts` | one worker: attempts are bounded, but for one more for each answer it dies with or fails to write |
| `bus_stranded` | `OpenEventsCanBeSelected` fails | finding 1 |
| `outbox_lateclaim` | `AcceptedOnce` fails | finding 2 |
| `pub_manualretry` | `ManualRetryWorks` fails | finding 3 |
| `policy_number` | `TimelyDraftConfirms` fails | finding 4 |
| `workflow_first` | `FirstResponderWins` fails | finding 5 |
| `ai_told` | `MaterialChangeIsTold` fails | finding 6 |

Deadlock is not checked: a system with nothing left to do rests.

### Bounds

Every bound is a constant.

- **Bus.** One event, two handlers (one of them the webhook hand-off), one caller and two sweepers, `MAX_ATTEMPTS` 2,
  backoff 1. Events share nothing but a sweep's list, so one event meets every interleaving of its own row; two
  handlers are needed for one to succeed and the other to fail, two attempts for a retry before the dead letter. A
  lease of 2 in `live` leaves time to pass inside a protected delivery; `bus_overlap` takes 1, because there a
  delivery may outlast any lease. `Timely` says that time does not run past the end of the lease that protects a
  delivery in progress; `BookkeepingMayFail` that a swallowed bookkeeping write may be lost; `Keys` which dedup keys
  are in use.
- **Outbox.** Two messages, one of them critical where priorities matter, two workers. `Pace` bounds the time spent:
  `"pass"` means that a pass ends within the lease it writes, `"message"` that each message is handled within a lease
  of its claim, `"any"` nothing. `MayCrash` adds deaths and lost writes, `AdminActs` requeues and pauses. `MaxTime`
  bounds the clock: 1 in `outbox_exclusive`, where a lease (1) ends at the very moment a second pass can start, so that
  the edge of the comparison is met; 2 in `outbox_single`, with a lease of 1: enough for two attempts, the wait
  between them, a purge, and a lease that ends after its worker died. There the provider accepts nothing: an accepted
  message whose write failed and that is requeued can go round within one moment, without an end to what the history
  counts; for the attempts an acceptance is a logged message.
  `outbox_cap` has only what the cap is about: accepted answers, a cap of one and a ceiling of two, four messages of
  which one is critical, so that both can be passed, and two workers that live, with passes that end in time.
- **Mail budget.** Five organizations and an allowance of two: neither divides the other, so the rotation by two has
  to meet every organization across the end of the list. `Strides` {1}: a pass in every minute.
- **Publication.** One job and two workers, two attempts, `MaxClaims` 5: three claims more than the attempts, so that
  a job can be retried by hand, taken over and used up again. A job at `MaxClaims` leaves the model's queue, and
  `EveryJobEnds` says so. `Prompt` says that a worker reads its job back within the lease.
- **Scans.** Two rows, three requests (two that race, one that comes after the first scan has ended), two schedulers,
  two attempts. **Reports.** Two runs, two organizations, three calls, two schedulers, one queued run a person and one run
  a pass, so that the second organization waits. In `services` two of the calls are those of colleagues and one run an
  organization is allowed, so that its limit and not theirs bites; in `live` two are one person's. A list is of one
  run. **Saved reports.** One report, two requests, two sweeps, two notes.
- **Incident.** Two commanders, two edits, two passes, windows of 1, 2 and none, time to 3: a clock can be started,
  shortened, end, and start again. **Risk.** Two proposals, two people, two calls of decide, one edit each of risk and
  appetite. **Filing.** Two files, two uploads, three items of which one is in the vault before, so that both may want
  to replace it.
- **Policy.** Two drafts, two versions, three approvals (a rejected submission and two more), two calls, three saves.
  **Campaigns.** One request with four changes, two people, two sweeping processes, three days.
- **Workflow engine.** Two steps, two holders, seven actions: both steps, a return, and both steps again. Two calls,
  one at a time in `services`, overlapping in `workflow_first`.
- **AI decisions.** Two decisions, two calls, two fingerprints, two tiers, one edit after the start; four versions in
  `ai_told`, for a change, a change back, and the change again.

The symmetry used is of workers or calls, which the specifications do not distinguish; the run with liveness uses
none.

### Fairness

- **Bus.** `WF(Step(p))`: a process that is up goes on with what it does, and each handler returns (handlers call
  databases and services with timeouts). `WF(Sweep)`, `WF(Claim)`: `event_sweeper.start_scheduler` runs the sweep every
  minute, with `coalesce` and `max_instances=1`, and catches its failures. `WF(Tick)`: time passes. Nothing is assumed
  of callers, administrators or crashes, except that `EveryEventSettles` is claimed for behaviours in which crashes,
  lost writes and retries stop (`Quiet`): with a crash in every delivery no event need ever settle.
- **Publication.** `WF(Claim)` and `WF(Step)`: the queue is drained every minute (`aria/scheduler.py`), up to ten jobs
  of each organization; `WF(Tick)`. No fairness is assumed of the event bus: a job ends whatever its event does.
- **Scans.** `WF(Poll)`, `WF(Work)`: `erm/scheduler.py` polls every two seconds; `WF(LeaseEnds)`: time passes. The
  model is of one organization: a tick ends after the first organization that had a scan (`erm/scheduler.py` 72), so
  where several keep asking, fairness to the last ones is not given.
  Nothing is assumed of deaths: attempts are bounded, so a scan ends even when every scheduler dies with it.
- **Reports.** `WF(StartPass)`, `WF(Visit)`: the job runs at its interval and a pass goes on; `WF(GrowOld)`: sixty
  minutes pass. Claimed for behaviours in which generators stop dying.
- **Incident.** `WF(Select)`, `WF(Escalate)`: `bcm/scheduler.py` runs the check at its interval. Claimed for
  behaviours in which passes stop failing.
- **The rest** are safety properties; no fairness is stated.

## Theorems

Proved by TLAPS for every value of the constants the assumptions allow. Each rests on an inductive invariant, since
none of the properties is inductive alone.

| Theorem | Says | Assumes | Because |
|---|---|---|---|
| `TypeInv` | types of the bus, and what a process holds where (`PhaseOK`) | - | every later proof needs to know that a deliverer holds an event |
| `ProcessedInv` | `ProcessedMeansEveryHandlerRan` | no lost bookkeeping | `RanInv`: a recorded success has run; every handler a deliverer has passed has some outcome on record, and rows are never deleted |
| `LeaseTheorem`, `RerunTheorem`, `SelectTheorem` | one deliverer, no success rerun, open events can be selected | `Timely`, no dedup keys | `LeaseInv`: who holds an event holds it alone, and its `due` is positive while they do, so nobody can claim it |
| `DeadTheorem` | `DeadMeansAHandlerFailed` | same | `DeadInv`: whoever decided "dead" holds the event alone, so the failure they counted is still on record when they write |
| `FinalTheorem` | `ProcessedIsFinal` | same | a deliverer found the event open and is alone |
| `PromiseTheorem` | `KeepsPromise`: the bus implements `EventLife` | no lost bookkeeping | `RanInv` gives the guard of `Process`; `SourceInv` gives that no step makes a stored event absent |
| `OutboxTypes` | types, and that a pass never overspends its budget | - | `BudgetOK`: ordinary mail is in hand only with budget left |
| `OutboxCap` | `CapBound` | passes end in time, nobody dies, rows are kept for more than a day | what was accepted and is not marked so yet is in the hands of a worker; a worker passes the check only below the ceiling, with at most the others in flight |
| `OutboxOnce`, `OutboxFinal` | `AcceptedOnce`; an accepted message is not queued again | passes end in time, nobody dies | `ExclusiveInv`: a row being sent has one holder, whose pass started no more than a lease ago, and its lease is that pass's |
| `OutboxAttempts` | `SendsWithinAttempts` | one worker | `SingleInv`: the count it selected a row with, and the row's own, cover the answers it has heard |
| `PublicationTypes` | types; tokens, attempts and memories agree (`JobBooks`) | - | a token is the attempts counter of the last claim |
| `PublishedTheorem` | `CompleteMeansPublished` | - | `Evidence`: past the copy it is copied, past a positive look at the event it is handled, and neither is undone |
| `WaitingTheorem` | a job waits only with attempts left or at a manager's wish | - | a worker whose token still stands read the job's present attempts |
| `HolderTheorem`, `CompletionTheorem` | `OneHolder`, `CompleteIsFinal` | `Prompt` | `ClaimInv`: no two workers on one job hold the same token, and nobody holds that of a complete job |
| `ScanTypesTheorem`, `EndedScanTheorem` | types; `EndedScanStays` | - | every write of a scheduler asks for a running scan |
| `OneActiveTheorem` | `OneActiveScan` | `ReadsInLease` | `ScanInv`: claims are numbered, a claim just made is the newest, and no two schedulers hold one |
| `ReportTypesTheorem`, `GeneratedOnceTheorem`, `EndedRunTheorem` | types; `EachRunGeneratedOnce`, `EndedRunStays` | - | `ReportInv`: a run in hand is not pending, so nobody else can take it, and nothing makes it pending again |
| `PolicyTypesTheorem`, `BuiltTheorem`, `SubmissionTheorem` | types; `VersionIsWhatWasBuilt`, `OneSubmission` | - | `PBooks`: a ready draft's build is of its text, and a submission waits exactly while its version does |
| `RiskTypesTheorem`, `OneCurrentTheorem`, `ApprovedTheorem` | types; `OneCurrentApproval`, `ApprovedAsItIs` (of the risk; not of the appetite) | - | `RiskInv`: who has checked holds the lock, and the risk is what they checked; one approval for each state of the risk |
| `CampaignTypesTheorem`, `OneSuccessorTheorem` | types; `OneSuccessor` | - | `Leased`: who has looked for a successor and not inserted one holds the lease, and there is none |
| `AcceptedTheorem` | `AcceptedWhatWasSeen` | `Calm` | `ReviewSteps`: an unchanged lock version means unchanged evidence |
| `SavedTypesTheorem` | types; with `ShortVisits`, that nothing is left beside a purged report | - | `SavedInv`: a reader has opened a report that is there |
| `HeldTheorem` | `HeldIsKept` | `ShortVisits` | `SavedInv`: a sweep lists only what nobody has open or may open any more, and nobody can hold that |
| `FilingTypesTheorem`, `FiledOnceTheorem`, `BytesTheorem` | types; `FiledOnce`, `NoRowWithoutBytes` | - | `FilingInv`: an upload that has written bytes holds an item of its own with them, what it has filed waits no longer, and what was replaced is superseded |
| `ClockTypesTheorem` | types of the incident clock | - | - |
| `EscalatedTheorem` | `EscalatedOnceWhenDue` | `Undisturbed` | `ClockInv`: what a pass has listed is still live and due, and a clock without the mark of an escalation has told nobody |
| `BudgetTypesTheorem` | types, and that one process's pass stays within the allowance; each server process has its own (`reminder_scheduler.py` 178-184) | - | `SharesLeft`: in the first pass, what is left covers the shares of all that are still to come; the shares add up to the allowance (`RestAtStart`, `RestIs`) |
| `SharesTheorem` | `SharesGoRound` | a pass in every minute | `Rotation`: the passes an organization has missed, times the allowance, and its distance from the next to be served stay below N; the next minute begins where the shares of this one ended (`StartMoves`) |
| `AiTypesTheorem`, `AskedTheorem` | types; `ApprovedAsAsked` | - | `AiInv`: ids are given in order and only the newest request is open; a call that approves has read what was asked; the outcomes tell the state of each decided request, in the order of the ids |
| `EngineTypesTheorem` | types of the workflow engine | - | a call in progress has an action |
| `ServiceTypesTheorem` | `ServiceTypes` of the composition | - | a step of one part leaves the variables of the others alone (`PartsAlone`) |

Three properties are proved as lemmas only, since what they assume is most of what could go wrong: `BaseWhenQuick`
(`ApprovedOnItsBase` with `Quick`), `OneStepAlone` (`OneStepWaits`) and `FirstResponderAlone` (`FirstResponderWins`), both
with one decision at a time. The two server processes do not give the latter, and finding 5 breaks it.

The `ASSUME`s of the modules say that times and limits are positive numbers, that ids are numbers where their order
counts, that sets of processes and rows are finite where they are counted, and that the backoff table has an entry for
every attempt.

Only model-checked: the five liveness properties of `live`, which are out of the prover's reach. Every invariant and
action property of the passing runs is a theorem or one of these lemmas, each under the assumption the table names, which the run
that checks it makes too; [below](#what-holds-only-under-an-assumption) is what happens without. `NewClock`,
`AfterUpdate`, `UpdateProfile`, `AdoptTier` and `TakeFile` write whole records where an `EXCEPT` of several fields would
be shorter, because the prover's back ends do not read the latter.
`LeaseTheorem` leaves out dedup keys because a replayed key is delivered without a lease: with one,
`OneDelivererAtATime` does not hold.

## Where the code and its words disagree

Each of the following is a run that must end in a counterexample.

1. **A stranded event** (`bus_stranded`, `events.py` 313). Two deliveries overlap because one outlasts its lease. One
   uses up the last attempt and writes `dead` with `dead_lettered_at`; the other, which read the failures earlier,
   then writes `failed`. Sweeps skip rows with a dead-letter time, and `retry_dead` and `list_dead` look only at
   `dead` rows: the event is neither retried nor shown, against "nothing is silently dropped" (19).
2. **A message sent twice** (`outbox_lateclaim`, `email_outbox.py` 445). Leases are written from the start of the
   pass, so late in a pass they are nearly over when taken; every message is handled within a lease of its claim and
   still two workers send one, against "Safe to run from several workers" (414).
3. **The manual retry that cannot work** (`pub_manualretry`, `policy_publication.py` 433). The event dies before its
   job fails; replaying a dead event's key runs no handler, so the retry of the job fails until somebody also retries
   the event on the bus.
4. **A number that is taken** (`policy_number`, `policy_workflow_service.py` 898). A rejected or withdrawn revision
   keeps its number; the next revision of the document is given the same one and is refused by the unique index when
   it is confirmed (docstring, 137-140).
5. **The first to respond does not win** (`workflow_first`, `routes_workflows.py` 644). Two holders of a role decide in
   the two server processes; both have read `pending`, and the second writes over the `cancelled` of the first: a step
   is approved and rejected, or the next step's actions exist twice, against the docstring (471).
6. **A change nobody hears of** (`ai_told`, `service.py` 823). The dedup key of a material change names the facts, not
   the change. Facts that come back after an approval store no event, so neither owner nor deciders learn that the
   approval no longer covers the use, against the docstring of the handler (`handlers.py` 259). `retire` has a key of
   the same kind (`ai_use.retired:{id}`): after a restore, the second retirement stores none.

## What holds only under an assumption

Each can be seen by changing one constant of a configuration (and checking the part alone).

| Change | Then TLC violates | What happens |
|---|---|---|
| `Timely = FALSE` in `Live.cfg` | `OneDelivererAtATime`, `RecordedSuccessIsNotRerun` | the lease of 120 seconds is not renewed; the docstring of `_claim` (`events.py` 324) holds for shorter deliveries; and what a delivery has read of the handlers done (239) is not what another has added |
| `BookkeepingMayFail = TRUE` in `EventBus_overlap.cfg` | `ProcessedMeansEveryHandlerRan` | a handler fails, the row that says so cannot be written, and `_finish` sees no failure |
| two workers in `EmailOutbox_single.cfg` | `SendsWithinAttempts` | a message whose lease runs out while it is sent is sent by the other too; and with passes that end in time (`Pace` `"pass"`, a lease of 2) a worker that selected a message before another failed to send it claims it again without its wait (`email_outbox.py` 443), and writes its own stale count over the other's |
| `Prompt = FALSE` | `CompleteIsFinal` | the claim and the read-back (`policy_publication.py` 130) are two statements: a worker late between them gets its successor's token, and undoes its completion |
| `ReadsInLease = FALSE` | `OneActiveScan` | the same in `scan_jobs.py` 187; `EndedScanStays` is kept |
| `Undisturbed = FALSE` | `EscalatedOnceWhenDue` | the claim of an escalation (`escalation.py` 185-197) does not ask whether the incident was closed or its window moved since the list; and a stale edit (`bcm/data_service.py` 608) brings a former commander's acknowledgement back |
| `Quick = FALSE` | `ApprovedOnItsBase` | `confirm_draft` does not look whether its last update (`policy_workflow_service.py` 926) changed a row, so a draft discarded meanwhile is a version; `submit_for_approval` writes by id (1241) |
| `Calm = FALSE` | `AcceptedWhatWasSeen` | the sweep marks overdue by id (`evidence_campaigns/data_service.py` 450), over a request accepted or cancelled since its list |
| `ShortVisits = FALSE` | `HeldIsKept` | a report is opened, its date passes, a sweep lists it, the request sets a hold, and the sweep deletes the report it holds (`report_retention.py` 27 asks for the status alone) |
| `MayCrash = TRUE` in `EmailOutbox_cap.cfg` | `CapBound` | a message was accepted and the row does not say so: `_accepted_today` (`email_outbox.py` 274) does not count it |
| a larger `MaxClaims` | nothing, but a job may be claimed that much longer | workers that die with a job claim it again and again: attempts are judged only when one lives to write (`policy_publication.py` 460) |
| `Strides = {2}`, four organizations, allowance 1 | `SharesGoRound` | passes in every second minute only: two of the four are never first (`email_outbox.py` 646) |
| `OneAtATime = FALSE` | `OneStepWaits` | as finding 5: an ended or moved-on instance has actions left, or decided ones twice |
| `StepsKept = FALSE` | `OneStepWaits` | a definition without steps, or shortened while an instance runs: the instance is active for ever and waits for nobody (`routes_workflows.py` 381, 551, 690) |

`EvidenceCampaigns` assumes in its guards that a sweep ends on its day and the lease of an hour is over by the next.

## Hazards no property covers

`PROJECT.json` lists the hazards the properties are aimed at. Others met in the code, without a property of their own:

- **Outbox** (`email_outbox.py`): a message accepted by the provider whose result cannot be written is sent again
  (454), which is inherent to sending at least once; an unexpected error counts as the first attempt without telling
  anyone, and the failure that follows is the second, which tells nobody either (367); a pause is read once per pass
  (430).
- **Bus** (`events.py`): a computed status write that is lost (316) leaves the event to the sweep, which `live`
  includes.
- **Reports** (`routes_reports.py` 415): two calls that count together pass the limit per person. Endless requests of
  the first organizations would starve the last (`report_job_sweeper.py` 160); `EveryRunEnds` is about a bounded number
  of requests.
- **Sign-offs** (`routes_reports.py` 915): a dispute inserted before a sign-off reads the greatest id and committed
  after it does not challenge the sign-off, on PostgreSQL, where a serial id is taken at the insert; its signer has
  not seen it. The steps are in `SavedReports`; a property that holds would have to leave them out.
- **Staged files swept late** (`evidence/staging.py` 159): a file that is filed between the list of the sweep and its
  update is marked expired although its item exists. The item keeps its own bytes, and nothing reads the staged row
  again.
- **Mail budget**: each of the two server processes runs `deliver_all_tenants` with an allowance of its own, so twice
  the allowance may leave in a minute.
- **Campaigns** (`evidence_campaigns/data_service.py`): a reminder is queued again the day after it was sent (480),
  against "only ever needs (and gets) one T-3 reminder per due date" (465-469); the coverage a closing reads may be
  stale when it closes (166), and a request may be created in a closed campaign.
- **Policy** (`policy_workflow_service.py`): the expiry of drafts does not raise the lock version, so a save or a build
  that read the draft before revives it (440); deciding locks document, then version, then approval (1313),
  withdrawing approval, then version.
- **Risk** (`acceptance.py` 217): the appetite is checked under a lock that does not cover it.
- **Staging** (`staging.py` 75): the limit of fifty waiting files is a count and then an insert.
- **SLA monitor** (`workflow_scheduler.py`): warnings and reminders are looked for and then inserted by two processes
  (83, 137); one `breached` flag serves two deadlines (47), so the second breach is never flagged.
- **AI decisions**: an evaluation recorded between the reading of the brief (`decisions.py` 793) and the time stamp of
  the decision (828) is in neither the brief nor `failed_since` (`evaluations.py` 360-370).

## Not modelled

`PROJECT.json` lists every component with its reason; in short:

- **Reads, layout, formatting**: pages, dashboards, reports, report kit, search, front end. They change nothing.
- **Record keeping in one transaction**: most of the registers (GRID, Sentinel, ERM, ORM, BCM plans and exercises), and
  most of `database.py`, which is schema and migrations. A model would restate the assignments.
- **External**: PostgreSQL and its row level security, the mail and model providers, APScheduler. They appear as what
  the code may get from them: an answer, an exception, a refused index, a tick.
- **Of the modelled components**: what handlers write; webhooks after the hand-off; the notices to administrators and
  managers; the search index; report builders; attestations and reviewers' notes on policies; delegation of workflow
  actions, which changes the assignee only; conditions, assessments, evaluations, packs and imports of AI governance;
  the tenants, which share no rows (each runs its own bus, outbox and queue) except in `MailBudget`.
- **Time** is what is left until a moment (bus, publication), passed or not (scans, reports, dates), or a small clock
  (outbox, incident, campaigns).

## Plan

The modules of the first plan are built, except for two. A common abstraction of claimed jobs was dropped: the three
implementations differ in what they promise (publication and scans have tokens, reports do not). MFA and sessions are
single compare-and-set statements. What would come next, in this order:

1. `SlaMonitor`: two processes that look and then insert, and one flag for two deadlines (hazards above).
2. Evaluations in `AiDecisions`, with the window between the brief and the time stamp.
3. Group packs, rooms and group evidence requests: one record on two organizations' sides.
4. Scenario versions of ERM, after the pattern of `RiskAcceptance`; Sentinel's versioned jurisdiction cards.
5. Theorems: the positive halves of the findings. A draft whose number is free confirms; a material change to facts
   the use has not had before stores its event; a job whose event is still open can be retried.
