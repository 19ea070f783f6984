# A verification project for Koda

Koda is a project and ticket server (NestJS, Prisma) with a *fleet*: users
dispatch jobs, the server places them on runner machines, and a daemon on each
machine runs the agent (`nax`) and reports.  This project models the parts of it
whose failures are hard to see and hard to test: a job whose state is kept on
two machines at once, flows that decide, dispatch and record in three
transactions, approvals that must take effect once, an outbox with leases and
the emails behind it, and tickets that many hands move on what they read some
time ago.

Contents: [inventory](#inventory), [what is modelled](#what-is-modelled),
[runs](#runs), [findings](#findings), [fairness](#fairness), [proofs](#proofs),
[limits of the models](#limits-of-the-models), [plan](#plan).

Paths below are relative to `src/`; `api:` stands for
`apps/api/src/`, `fleet:` for `apps/api/src/fleet/`, and `runner:` for
`apps/runner/src/`.

## Inventory

### The fleet server

| component | state | operations | hard behaviour | correct when |
|---|---|---|---|---|
| job state machine, `fleet:jobs/job-state.ts`, `job-transitions.service.ts` | `FleetJob.state`, `leaseEpoch`, `cancelRequestedAt` | `apply(job, to, by)` | the epoch bump and the withdrawal of commands must go with the state | a job that is over stays over until a requeue makes a new lease |
| jobs API, `fleet:jobs/fleet-jobs.service.ts` | the job row, `FleetCommand` rows | dispatch, cancel, cancel for a budget, cancel for a deleted project, requeue | users, budget stops and runners race on one job | a lease is asked to stop once; an accepted job is cancelled by its runner only |
| placement, `fleet:placement/` | reads jobs, runners, budgets; writes a lease | `placeJob` (after dispatch or requeue), `fillRunner`, `fillRunnerThreads` (at sync) | two paths to a lease, and a job that is assigned but not yet running | one holder per lease; one job per checkout; trust domains; capacity |
| sync endpoint, `fleet:sync/` | `lastSeenAt`, `bootId`, command acks, `ackedRunnerSeq` | acks, reports, token and key requests, boot reconciliation, placement, delivery; long poll | repeated, overlapping, late and half-failed syncs | only the holder of the current lease changes a job; events apply once and in order |
| sweeper, `fleet:sweeper/fleet-sweeper.ts` | reads `lastSeenAt` | `crashSilent`, retention passes | races the runner's late report | a job is CRASHED for cause only, and its old runner is fenced |
| bundle upload, `fleet:artifacts/` | artifact rows, files | upload with a fence and a state check | answered before the events that precede it are applied | the run ends in a way the server hears of |
| notifier, `fleet:jobs/runner-notifier.ts` | waiters in memory | `wait`, `notify` | a wake-up between a read and a wait | no command waits a whole poll for want of a wake-up |
| budgets, `fleet:budgets/` | incidents, pauses, approvals | evaluate, pause, hard stop, resume | evaluation of stale spend; pause between gate and insert | nothing is placed in a paused scope |
| schedules, `fleet:schedules/` | `nextFireAt`, counters | tick, claim, dispatch, record | crash between claim and dispatch | each fire dispatches at most once (a crash may lose it), and a failing schedule stops |
| flows, `fleet:flows/` | flow rows, steps, start requests | start, reject, stop, respec, advance | decide, dispatch and record in three transactions; a spec published anew; a PLAN is given a branch, not a commit | each step once, on the good end of the one before, dispatched for an approved spec |
| threads, `fleet:threads/` | turns, modes, publishing | open, send, publish, end | a turn and a job for it | turns are ordered, one runs at a time |
| logs and ingest, `fleet:logs/`, `fleet:ingest/` | chunks, offsets, parsed results | append, close, claim, parse | an append races a terminal transition | a log is gap-free; a bundle is ingested once |
| token broker, credentials, `fleet:git-broker/`, `fleet:provider-credentials/` | grants, encrypted keys | mint, revoke | mint after the lease check committed | a token goes to the holder of the lease only |
| review claims, `fleet:reviews/` | `FleetPrReview` rows | claim, take over a stale claim, mark, release | the auto-reviewer and a flow at one head | one review per head |
| rulings, dashboard, analytics, knowledge, assistant | read models | queries | – | – |

### The runner

| component | state | operations | hard behaviour | correct when |
|---|---|---|---|---|
| journal, `runner:journal/` | SQLite: `jobs`, `events`, `applied_commands` | transactions around every command and event | outlives the daemon; memory does not | what was said can be said again |
| command handler, `runner:supervisor/command-handler.ts` | journal rows, live runs | ASSIGN, CANCEL, READOPT, ABANDON | commands are delivered again; effects in memory are lost in a crash | a command has its effect once, and still has it after a restart |
| job run, `runner:supervisor/job-run.ts` | phase of the run, nax process | prepare, spawn, watch, finish, upload, failSafe | cancels, crashes and abandons at every await | nothing runs after the run's last event |
| sync loop, `runner:sync/` | pending acks, cursors | build, send, handle the reply | reply lost after the server acted | acks and events are sent until the server has them |
| daemon, `runner:daemon/` | boot id | start, drain, kill -9 | resumes nothing by itself | the server learns of a restart and asks for the jobs |
| executor, verdict, process registry, repo mutex | worktrees, pid files, locks | spawn, judge, reap, lock | pid reuse; processes older than the journal | only the daemon's own processes are killed, and all of them |
| threads, approvals, credential broker | sessions, asks, cached tokens | relay, answer, expire | an answer races a timeout | an ask is answered once |

### The rest of the API

| component | state | hard behaviour | correct when |
|---|---|---|---|
| approval engine, `api:approvals/` | requests, decisions, the line of runs | several runners of one request, each on an older read; a prepare outside the transaction; a crash after the decision | a command takes effect once, released as every caller wanted |
| ticket workflow, `api:tickets/` | status, activity, links | a transition checked on a stale read; a self-fix found late | the activity is the ticket's path; nobody closes its own fix unreleased |
| VCS sync, `api:vcs/` | `TicketLink.prState` | poll, webhooks and refresher see one merge, late or twice | one merge moves its ticket once |
| outbox, `api:outbox/`; webhooks, `api:webhook/` | events with leases | two relays, an expired lease, one handler of several failing | a published event reached every handler; ends stay |
| notifications, `api:notifications/`; email, `api:email/` | rows, sends | redelivered events, overlapping ticks, failed marks, lost replies of the mail server | one email per notification, and one more for each reply, statement or process lost after the send |
| permissions, projects, auth, agents, users | CRUD and a permission cache | a stale cache entry | revoked access is gone within the cache's bound |
| memory, RAG, retrieval, code intelligence, CI webhooks | indexes, integrations | mostly input and output | – |
| web, CLI, protocol package | no shared state | – | – |

### How the parts interact

Dispatch inserts a `QUEUED` row and, after the commit, calls placement.
Placement sets `ASSIGNED`, a runner and `leaseEpoch + 1` with one conditional
update and creates an ASSIGN command in the same transaction.  The runner's sync
request brings acks, job reports and token requests; the server handles each in a
transaction of its own, reconciles the boot id, fills the runner with queued jobs
and replies with acked sequence numbers and pending commands.  The runner
handles the commands one by one, records each in its journal, and acks the whole
batch in the next request.  A job run reports RUNNING, UPLOADING, uploads its
bundle over a separate request, and reports how it ended.  The server fences
everything by `(runner, leaseEpoch)`: what names an older lease gets an ABANDON.
Sweeps, cancels, requeues, budget stops and project deletions change the job
under the runner's feet, and are heard of through commands only.

Schedules and flows are dispatchers of jobs: a ticker claims what is due or live,
calls the jobs API outside its own transaction, and learns of the end from the
job row.  A flow waits for the approval engine first: its start request, once
approved, runs the flow's start command.  The engine holds any gated write of an
agent in the same way, a ticket's transitions among them.  A ticket is moved by
its users, by the dispatch of a fleet job, and by the merge that the VCS sync
hears of.  Producers of events write them to the outbox in their transactions;
relays hand them to handlers, one of which writes notifications and the rows of
their emails.

## What is modelled

| module | models | source |
|---|---|---|
| `FleetJobState` | the transition table and the state sets | `fleet:jobs/job-state.ts` |
| `FleetJob` | the server: jobs, commands, runners, pauses; every committed transaction | `fleet:jobs/`, `placement/`, `sync/`, `sweeper/` |
| `FleetRunner` | the daemon: journal, command handler, job runs, processes | `runner:journal/`, `supervisor/`, `daemon/`, `executor/pid-registry.ts` |
| `FleetDispatch` | both, joined by the sync exchange and the bundle upload, with faults | `runner:sync/sync-loop.ts`, `fleet:sync/`, `fleet:artifacts/` |
| `ExclusiveLease` | what the server promises: leases granted in rising order, one in force per job, none twice | abstract; `FleetJob` implements it |
| `FleetSchedules` | recurring jobs: the ticker, the counting of ended jobs, users' edits | `fleet:schedules/` |
| `ApprovalLifecycle` | what the approval engine promises of a request: one decision, one effect, settled for good | abstract; `ApprovalEngine` implements it |
| `ApprovalEngine` | gate, decisions, execution, redemption, expiry | `api:approvals/` |
| `OutboxRelay` | events, leases, fan-out, marks, retry, retention | `api:outbox/` |
| `EmailDispatch` | `OutboxRelay` with the notification handler and the email dispatcher | `api:notifications/`, `api:email/` |
| `FleetFlows` | a flow, its start requests and jobs, the head claim shared with the auto-reviewer | `fleet:flows/`, `fleet:reviews/` |
| `Tickets` | a ticket, its calls, its fleet job, its pull requests and their observers | `api:tickets/`, `api:vcs/`, `fleet:tickets/` |
| `FleetJobProofs` | theorems about `FleetJob`: leases, that it keeps the promise of `ExclusiveLease`, who may share a machine and who is given up | – |
| `FleetDispatchProofs` | theorems about `FleetDispatch`: that it is a `FleetJob`, that journals and server agree, that commands come in order, and what a machine holds before a restart | – |
| `FleetFlowProofs` | theorems about `FleetFlows` | – |
| `ApprovalProofs` | theorems about the approval engine | – |
| `PromiseProofs` | what the promises of `ExclusiveLease` and `ApprovalLifecycle` are good for | – |
| `FleetScheduleProofs` | theorems about `FleetSchedules` | – |
| `EmailProofs` | theorems about `OutboxRelay` and `EmailDispatch` | – |
| `TicketProofs` | theorems about `Tickets` | – |
| `MCFleetJobLease`, `MCFleetJobPlacement`, `MCFleetDispatch`, `MCFleetSchedules`, `MCApprovalEngine`, `MCEmailDispatch`, `MCTickets` | instances for TLC (`FleetFlows` needs none) | – |

**`FleetJob`** keeps the three tables that matter (`job`, `cmds`, `rn`), the
budget scopes that are paused, and the two pieces of memory a crash of the API
loses: `placing` (placement calls owed after a commit) and `recon` (jobs that
`reconcileBoot` has read without a lock and not yet written).  One action is one
committed transaction.  `Move` is `JobTransitionsService.apply`: the state, the
epoch bump when the server ends a job that had a runner, and the withdrawal of
pending commands.  `Cancel`, `CancelForBudget`, `CancelForProjectDelete`,
`Requeue`, `Dispatch` are the users' requests; `PlaceJob` and `FillOne` the two
paths of placement; `Ack`, `Report`, `Fenced`, `ReconRead`, `ReconCheck`,
`ReconWrite`, `SyncSeen` the parts of a sync; `Sweep`, `TimePasses`,
`TogglePause`, `SetEnabled`, `ApiRestart` the rest of the world.  Runners are an
open environment here: any runner may answer any command it was sent, and report
on any lease it was ever given, at any time and any number of times.  What holds
of `FleetJob` holds whatever a daemon does.  A report is applied whole: the
states that a row of events can reach in one transaction are `ReportMoves`.

**`FleetRunner`** keeps what survives the daemon (`rows`: the jobs and events
tables, one row per lease; `applied`: the recorded commands; `procs`: nax
processes) apart from what does not (`acks`, `runs`).  `Handle` is
`CommandHandler.handleOne`; a run is a phase (`accepted`, `prepare`,
`reprepare`, `spawned`, `watch`, `finish`, `upload`) and `RunStep` one step of
it, cut where the code awaits: between accepting an ASSIGN and dropping the
older attempts, between spawning nax and journaling its pid, between the end of
the process and the upload.  `Crash` is `kill -9`, `Start` a daemon with a new
boot id that resumes nothing by itself.

**`FleetDispatch`** extends the server with the machines and an exchange per
runner: `SendSync`, `SyncArrives`, `ServerAck`, `ServerReport`,
`ServerReconcile`, `ServerReconciles`, `ServerFill`, `ServerReplies`,
`ReceiveReply`, `HandleCommand`, `EndSync`.  It replaces the open environment of
`FleetJob` by what the daemon really sends, and adds `ackedSeq`, the cursor that
makes a repeated report harmless.  Requests, replies and the API process may be
lost at any point (`LoseMessage`, `ApiCrash`), daemons killed (`Crash`); an
exchange the server has in hand goes on without its runner.

**`FleetSchedules`** stands beside `FleetJob`: it keeps the `JobSchedule` rows
(`sched`), the jobs with what ties them to a schedule (`jobs`: `scheduleId`,
`scheduleCountedAt`, and which fires they answer, where the code keeps a count),
and where each tick is (`tick`), which a crash of the API forgets.  A ticker
holds no transaction across its statements, so `Begin` (`findDue`), `NextDue`
(`claimFire`, or a cron that no longer parses), `LookForActive`, `Absorb`,
`CheckOwner`, `DispatchFresh`, `Recover`, `Link`, `Disable` and `Throws` are one
step each, and users (`Update`, `EnableByUser`, `DisableByUser`, `Remove`,
`Requeue`, `DispatchByUser`) and job ends (`End`, with `onJobEnded` in its
transaction) come between them.  There are two tickers, because the test hook
calls `tick` without the guard that keeps the timer from overlapping itself.

**`ApprovalEngine`** keeps the rows (`row`, with `due` for those past their
deadline), who holds the key of the action (`keys`), and two things a crash
forgets: what each call is doing (`call`) and the line in which the calls for one
request wait (`line`, the `running` map).  `Gate` reads the duplicate outside any
transaction, `Open` inserts the request and cancels a weaker one; `Approve`,
`Reject`, `Cancel`, `Expire`, `Release` and `RetryStale` are the transactions and
reads that decide; `Check`, `Redeem`, `Enter`, `Commit`, `Revoked`, `Overtaken`,
`Throws`, `SettleFailed` and `SettleRefused` are `execute`, `redeem`, `run` and
`executeOnce`, cut where they await.  A transaction may fail (`Fault`), the process
may die (`Crash`), the requester may lose the key at any time (`Revoke`).

**`OutboxRelay`** keeps the event rows and what each relay holds in memory: a
claimed batch, the event under way, the next handler, whether one failed.  The
relay is a library; the store's statements it calls are the repository's.  A lease
may run out while its relay still works (`LeaseEnds`), and a relay may die.
**`EmailDispatch`** extends it: the handler `notify` writes the notification, unique
by event, with the row of its email; a tick claims rows under a lock of their own
(`ClaimDue`), builds, sends and marks, one row after the other, and what throws goes
through the two catches of the code (`MarkError`, `BackOff`).  A send hands the mail over,
or is refused, or hands it over and throws all the same, the reply being lost (`Send`); the
last two look alike to the dispatcher, and the row is tried again.  One event is enough:
nothing relates two of them but the batch, which only orders work.

**`FleetFlows`** keeps one flow, the requests to start it, the jobs it has or meets,
and the claim of the one head its RUN pushed.  A pass of the ticker is `Look` (with
the read of the branch before the locks), one of the decisions under the locks
(`Recover`, `Wait`, `StopDecided`, `Complete`, `DecideSpec`, `DecideStep`), the
claim of the head for a review (`ClaimHead`, `FindHead`, `Retake`, `Reclaim`),
`Dispatch` or `DispatchFails` outside any transaction, and `Link`, `Record`, `Adopt`
or `Refused` under the locks again.  The auto-reviewer's pass (`Poll...`) works on
the same claim.  A job knows the spec it was dispatched for (`sha`), which is the very ref of
a SPEC_REVIEW.  A PLAN is given the branch, which its runner resolves when it starts
(`CheckOut`): the last publication, or an older one of its own clone (`reads`).  People stop, approve, reject and publish at any moment; what a
publication tells the flow may come late or, after a crash, never.

**`Tickets`** keeps one ticket and the activity rows that tell its path, the calls
in flight, the task that opens a pull request after a commit, a fleet job, the links
and what each observer of them is doing.  The pull request opened after a commit writes its
link and its own activity row (`OpenPr`, `announced`), on a ticket that may be deleted by
then.  A call is asked (`Ask`), perhaps waits for
its approval, looks where it goes (`Aim`), is checked against the rules and the
caller's keys (`Check`), and writes on condition that the status is the one it read
(`Move`).  An observer hears of a pull request with a snapshot of the ticket
(`Hear`), writes the link (`Write`), and may then move the ticket (`MergeMoves`).

Operators whose comment begins with `mutant:` are variants of the definition that
follows them, each with a plausible mistake.  Nothing uses them; they are kept so
that each property can be shown to notice one.

## Runs

| run | instance | question | size |
|---|---|---|---|
| `lease` | 1 job, 2 runners, 3 epochs, 3 commands, 1 reconciliation | are leases unique, fenced, and stopped at most once, through placement, cancel, requeue, sweep, late acks and late reports? | 1.8 M states |
| `placement` | 3 jobs of 2 projects, 2 runners, a thread, a raw-shell job, a pin | are checkouts and trust domains respected on both paths of placement? | 1.1 M states |
| `dispatch` | 1 job, 1 machine, 1 boot, 4 epochs, 1 lost message or API crash, impatient uploads, silence | does the server read the journal right, does one process run, is it gone when the end is reported, and does the machine hear of every lease the server took away? | 3.2 M states |
| `dispatch_reboot` | 2 boots, 2 epochs, 1 lost message, silence, fair | does every held job end though the daemon is killed once, and is it CRASHED only for cause? | 0.8 M states |
| `schedules` | 1 schedule, 2 tickers, 2 limits, 2 jobs, clock to 2 | do overlapping ticks, edits and requeues keep one job per fire, one count per job, and a manual off? | 1.8 M states |
| `schedules_live` | 2 schedules, 1 due per tick, 1 crash, fair | does every due schedule get its turn? | 0.7 M states |
| `approvals` | 2 requests, a prepared and a redeemed command, 2 policies, an agent, a reviewer, a user's call and the sweeper, 1 fault or crash, fair | does a command take effect once, released as its callers wanted, and does every request settle? | 0.35 M states |
| `outbox` | 1 event, 2 handlers, 2 relays, 2 ticks, 2 attempts, 1 retry, 1 lease outlived, 1 failed statement, lost reply or death, fair | do events and their emails come to one end? | 0.34 M states |
| `flows` | 1 flow of either entry, 2 publications, 1 crash or outlived claim, fair | does a flow do each step once, in order, dispatched for an approved spec, and end? | 0.33 M states |
| `tickets` | an agent and a user, 2 calls, 4 moves, 1 linked PR, poll and webhook | is the activity the ticket's path, and does nobody slip past the self-fix rule? | 4.8 M states |
| `readopt_replay`, `ticket_merge` | small, as needed | counterexamples, see [findings](#findings) | seconds |

What each property says:

* `LeaseInv`: the conjunction of the parts below with their strengthening, see
  [proofs](#proofs).
* `HolderWasAssigned`: the holder of a job was sent the ASSIGN of that lease.
* `TakenAwayIsFenced`: a job CRASHED or back in the queue matches no lease ever
  granted, so what old runners still send is refused.
* `NoOrphanCommand`: a pending ASSIGN or CANCEL names the current holder.
* `CancelOnce`: one CANCEL per lease, whoever asks.
* `CrashWarranted`: CRASHED only for `jobCrashSec` of silence or a rejected
  READOPT of this very lease.
* `ImplementsExclusiveLease`: seen through its leases (`Leases`, the ASSIGN
  commands ever made; `InForce`, the holders of held jobs) every step of the
  server grants one younger lease while the job has none, ends one, or changes
  nothing.
* `OneJobPerCheckout`, `TrustDomains`: who may share a machine.
* `HeldStateIsReported`: the server's state of a held job is the journal's state
  at the acked event.
* `OneProcess`: a machine runs one nax of a job at a time.
* `ReportedIsStopped`: when the runner reported the end of a lease, no process of
  it runs.
* `LateLeaseIsTold`: a lease that is over on the server ends on its machine by its own
  run, or the next exchange carries what ends it.
* `HeldEnds`: every held job is let go of.

* `FireOnce`: a fire starts or joins one job, however ticks overlap and
  `nextFireAt` moves.  (A crash may lose a fire; the code accepts that.)
* `EachJobCountsOnce`: the stall counter never exceeds the jobs counted.
* `ManualOffStays`: no tick or job end overwrites a user's switch.
* `DueFires`: a due schedule is claimed, switched off or moved, though a tick takes
  `MaxDue` of them and others fail.

* `ReleasedAsAsked`: every call that was answered with a request has it released by a
  tier as high as its own policy wanted, or by a timeout it had a policy for.
* `BegunOnce`: a command is begun again only after a failed transaction or a crash.
* `ImplementsLifecycle`: the status of every request moves as `ApprovalLifecycle`
  says, and its command's writes commit in the step that marks it executed.
* `EverySettles`: a time comes when no request is open.
* `ApprovalTypeOK`, `TicketTypeOK`, `TypeOK`: types; the first also that lines hold
  calls, the second that only a verification opens a pull request.
* `PublishedReached`: a published event reached every handler of its type.
* `EndsStay`: a late relay reopens nothing.  `EventEnds`: every event and its email end.
* `SentOnce`: one email per notification, and at most one copy more for each reply of the
  mail server that was lost, each statement that failed and each dispatcher that died.
* `SpecApproved`: what a live flow records as its spec has the content that was last
  approved, and so has what each job under that approval was dispatched for.  It says
  nothing of what a PLAN finds on the branch: see [findings](#findings).
* `StepsFollow`, `StepOnce`: a step is built on the good end of the step before, dispatched
  under one approval and for one spec, and is dispatched once.
* `ReviewedOnce`: flow and auto-reviewer review the head once between them.
* `StepShown`: what a running flow shows, it has a job for.
* `StatesFollowTable`: no write of the state goes against the table, those that do not
  ask it included.  `FlowEnds`: an approved flow completes, stops or asks again.
* `TrailIsPath`: each activity row starts where the one before ended.
* `SelfFixApproved`: an agent closes its own fix only released by another.
* `OneMergeMove`: a pull request moves its ticket once.  `DeletedStaysPut`: a deleted
  ticket is moved by nothing that read it before: its status and its trail of moves stay.
  It may still get the link and the VCS_PR_CREATED row of a pull request that was due.

### Bounds

`MaxEpoch` (leases and their ends), `MaxCommands` (rows of the command table;
`Room` guards every insert), `MaxRecon` (reconciliations read and not written),
`MaxBoot` (boots of a machine), `MaxLoss` (lost messages and API crashes).  One
job suffices for the lease properties because no transaction of the server
relates two jobs' leases; placement relates jobs, and has a run with three.  Two
runners suffice because a lease has one holder and the interesting others are
all "a runner that is not the holder".  A lease, its end by the
runner, a requeue and the next lease take three epochs (`lease`, on two
runners); when the server ends the first one they take four (`dispatch`, where the
next lease is on the same machine again).  Either way a late word of the first
lease meets the second.
In `dispatch` a single machine is the hard case: the next lease comes back to the
same journal.  `MaxBoot = 2` is one crash at any point; `readopt_replay` shows what a
second one does.

`dispatch` has `MaxBoot = 1`, the daemon is never killed: `OneProcess`,
`ReportedIsStopped` and `LateLeaseIsTold` hold there, one lost message included, and do not with a crash (see
[findings](#findings)); that this holds for any machines, jobs, leases and losses is [proved](#proofs).  `dispatch_reboot` has `Patient = TRUE`, the two waits of an
upload never running out, for the same reason.

For schedules, `MaxTime` is the clock (a next fire may be one later, and then never
comes due), `MaxJobs` the jobs ever made, `MaxRestarts` the crashes.  Two jobs are
what `FireOnce` and `EachJobCountsOnce` compare, and two clock steps let a fire be
claimed, moved and claimed again.  `schedules` has no crash: its tickers are idle
after one, and what a dead tick leaves behind is what any interleaving leaves.
Two requests are what a duplicate and its replacement need, and two asks let a
prepared and a redeemed command share a run; `MaxFaults = 1` is one failed transaction
or one crash at any point, after which `BegunOnce` allows one more beginning.  In
`outbox`, `MaxLate` bounds the relays that die or outlive a lease: a claim does not
count as an attempt, so relays that outlive their leases for ever would keep an event
for ever.  `MaxBlips` are the failed statements, the lost replies of the mail server and the
deaths of the dispatcher that `SentOnce` allows for; with one of them, a second mail after a
lost reply is reached, and a third must not be.  In `flows`, two publications give a re-ask and a carried-over
approval, and an old request decided after either.  In `tickets`, four moves let a
ticket be started, fixed, returned and fixed again.

Runs check for deadlock unless the system may really stop: with the schedules deleted
or the requests settled, the event purged, the flow over, the ticket closed.

## Findings

Each is a run that must find its property violated.

1. `readopt_replay` (`runner:supervisor/command-handler.ts:51`).  A READOPT is
   recorded `ok`; the daemon dies before the ack gets out; the next daemon gets
   the same, still pending, command, answers from the record and adopts nothing.
   The ack moves `runnerBootId` to the new boot, so no READOPT is ever queued
   again and the job is held for ever.
2. `ticket_merge` (`api:vcs/vcs-pr-sync.service.ts:244`).  A poll or a webhook reads
   the link with the status of its ticket, say VERIFIED; the ticket is started; the
   merge is recorded.  The writer that recorded it finds its snapshot not IN_PROGRESS
   and returns, although the comment at `:242` calls that snapshot "only a fast
   rejection" and the one at `:74` promises the move.  The link is merged, so nothing
   moves the ticket later: it stays IN_PROGRESS with a merged pull request.

Also met while modelling, and behind the bounds of the runs named:

* A lease taken away while the daemon is down (`runner:supervisor/command-handler.ts:111`):
  the next daemon resumes nothing, reports nothing and so is never fenced; its undone
  row keeps a slot.  `LateLeaseIsTold` fails with `MaxBoot = 2`.
* A nax spawned just before a crash is in no row (`runner:supervisor/job-run.ts:264`):
  when the job comes back to the machine, neither the abandon of the old row nor the
  first prepare of the new lease reaps it.  `OneProcess` fails with `MaxBoot = 2`.
* Both waits of an upload run out before the server has the RUNNING event
  (`runner:supervisor/job-run.ts:651`): the bundle is refused, the run ends without a last
  event, and the job stays UPLOADING.  `HeldEnds` fails with `Patient = FALSE`.
* The self-fix check reads STATUS_CHANGE rows only, while a merge writes VCS_PR_MERGED
  (`api:tickets/prisma-tickets.repository.ts:143`): after a fix, a return and a merge it
  finds the fixer of before.  `SelfFixApproved` speaks of the row that submitted the fix.
* A failed move after a recorded merge is logged and not tried again, and a closed pull
  request that is reopened while its webhook is lost is never polled again.
* The auto-reviewer removes a stale claim by its id alone (`reopenStaleClaim`), where the
  flow asks that it still be pending and stale (`removeStalePending`): a slow owner's
  claim may go although it was marked meanwhile.  `ReviewedOnce` counts it a fault.
* A PLAN may work on a spec nobody approved.  The flow's design excludes "A flow that runs a
  spec set different from the one approved"
  (`docs/superpowers/specs/2026-11-04-fleet-flow-design.md:70`), and the head of the branch
  is compared with the approved spec before PLAN is decided.  But PLAN is dispatched with
  `ref: flow.branch` (`fleet:flows/flow-step-dispatch.ts:58`), and the runner resolves it
  when the job starts (`prepareCheckout`, `runner:executor/checkout.ts:25`): a publication in between is
  planned on before anybody approves it, though the flow then asks again, and a clone that
  has the branch may have an old one.  `PlansApproved` in `FleetFlows` says that no plan of
  the present approval read such content.  TLC finds it violated on the instance of `flows`,
  for a flow of either entry, so no run checks it.
* A flow that was asked again while its old SPEC_REVIEW still runs is refused by the
  index of active jobs when it is approved, and stops with `dispatch_refused`.

## Fairness

`FleetDispatch!Fairness` asks for weak fairness of, per runner, the exchange (the
sync loop is `while (!stopped)` with a capped backoff, and each of its awaits has a
timeout; the handling of a request ends), `RunStep` and `UploadBundle` (a run is
one async function whose awaits end), `ProcExits` (a nax run is
bounded by its cost cap or by `--timeout`, `runner:executor/nax-process.ts:9`) and `Start` (the daemon is run by
a service manager).  Nothing is assumed of users, operators, timers, faults or
the sweep: `HeldEnds` does not rest on a user cancelling or a sweep running.

`FleetSchedules!FairScheduleSpec` asks for weak fairness of a ticker's steps:
`setInterval` calls it every minute and its awaits end.  A throw is a step of the
ticker too, and the fire it ends is not tried again.  A disable that throws is left
out: a cron that does not parse, on a database that refuses the disable each time,
would stay due for ever.

`FairApprovalSpec` asks for weak fairness of the calls in flight and of the clock, and
strong fairness of the sweeper's work on each request: its timer
(`onModuleInit`) comes back to every due or stale row, and a row that another call has
locked is skipped, not lost.  Nobody has to decide anything.

`FairDispatchSpec` asks for weak fairness of relays, ticks in hand, and the end of
leases and locks, and strong fairness of the claim of an event or an email: queues are
ordered by their due time, so what waits comes first at last.

`FairFlowSpec` asks for weak fairness of the ticker, the poller, the jobs and the age of
claims.  Strong fairness of `PollDispatches` says that what keeps the auto-reviewer from
its review (a paused budget, an active review, an unknown error) does not last for ever;
without it the flow waits for a claim that the poller takes and releases in turns.

## Proofs

`FleetJobProofs` proves, for every set of jobs, runners, boots and every bound,
that `LeaseInv` is an invariant of `FleetJob!Spec`, and from it
`TypeOK`, `LeaseUnique`, `HolderWasAssigned`, `TakenAwayIsFenced`,
`NoOrphanCommand`, `CancelOnce` and `EpochMonotone`.

The lease properties are not inductive alone.  `LeaseUnique` needs that a new
ASSIGN has an epoch no command has (`IssuedEpochs`: no command is newer than
its job).  `TakenAwayIsFenced` follows from `UnheldIsFenced`, its inductive form over
commands: in a state without a holder no ASSIGN or CANCEL has the current epoch.
A job in a runner-made end (COMPLETED, FAILED, CANCELLED by its runner)
keeps its epoch, and only a requeue or a sweep makes it safe to forget.
`NoOrphanCommand` needs `HolderWasAssigned` and the withdrawal in every
terminal move; `CancelOnce` needs `CancelMarked` (a holder told to stop is
marked); `KnownEpochs` bounds the epochs that a reconciliation still remembers,
so that the READOPT it writes late satisfies `IssuedEpochs`.

The layout follows the transactions.  `MovePreserves` treats the transition
every handler uses; `AssignPreserves`, `CancelPreserves`, `AnswerPreserves`,
`NoticePreserves`, `RequeuePreserves`, `DispatchPreserves` the other kinds of
write; `JobsApiRows`, `AckRows`, `SyncApiRows`, `BackgroundRows` show that each
action is of one of these kinds; `LeaseStep` puts them together.  The
assumptions used are the named ones of `FleetJob` (`RunnerAssumption`,
`JobAssumption`, `CapacityAssumption`, `BoundAssumption`).  TLC checks `LeaseInv`
in `lease`; `LeaseUnique` and `EpochMonotone` are proved and, being parts or
consequences of it, not checked by a run of their own.

It also proves that `FleetJob` implements `ExclusiveLease`, again for
all constants.  A handler does one of three things to the leases: a `Grant`
(`AssignIsGrant`: placement alone writes ASSIGN commands, and `IssuedEpochs` from
`LeaseInv` makes the new epoch the greatest), an `End` (`Ends`: a held job leaves
the held states), or nothing (`Keeps`: what is issued is no ASSIGN, answers and
withdrawals grant nothing, and a held job keeps its runner and epoch).
`JobsApiIsLeaseStep`, `AckIsLeaseStep`, `SyncApiIsLeaseStep` and
`BackgroundIsLeaseStep` give each action its kind.  `PromiseProofs` says
what that is good for: the lease in force is the youngest of its job
(`HolderIsYoungest`), and a lease that ended stays fenced (`EndedLeasesStayEnded`).
The kinds say more.  Every step is an end, a stutter or `Places(j, r)`, and only the last,
whose guard is `Fits(j, r)`, lets a machine hold a job it did not hold (`EveryLeaseStep`,
`PlacementStep`); so the jobs a machine holds are pairwise what `Fits` asks, whichever of
them came first (`CheckoutsHold`, `TrustHolds`).  That a held job is given up for silence or
for a rejected READOPT of its own lease (`CrashesAreWarranted`) is an action property: users
and reports crash nobody (`MoveCrashesNobody`), and an ack that crashes a job passes the
fence first (`AckWarrants`).

`FleetDispatchProofs` proves, for every set of machines and jobs and every bound on boots,
losses, epochs and commands, what holds of server and daemons together.  The first part is
that daemons, journals, crashes and lost messages drive the server along steps of
`FleetJob` only (`DispatchImplementsFleetJob`), so every theorem about the server holds of
the whole system, `ImplementsExclusiveLease` among them.  `FleetJob` lets a runner speak of
any lease that was ever its own; what must be shown is therefore that nothing is journaled,
reported or acked of a lease but by the machine it was given to (`LeasesGiven`,
`CommandsKnown`, parts of `DispatchTyped`).

The second part is `JournalInv`: rows, reports under way, acked numbers under way and what
the server has taken agree, from which `HeldStateIsReported` follows.  Reports overlap what
was taken before, so `ReportsQuote` says that a report is a piece of the journal from a
number that was acked, and `QuoteContinues` that the events left after the overlap are the
next ones; `SeqsTaken` that no number in an answer is above what the server took, and
`OneRow` that a lease has one row on a machine.  A new lease starts with an empty log because no
machine was given it before (`LeasesFresh`, by `LeaseUnique`).  A step then keeps a held job,
continues its log, or grants a lease and starts the log over (`JobSettles`).  TLC checked
`JournalInv` with two boots (7.8 million states) before it was proved.  `After` is the path
of a state along a list of events, as a function on positions, and `AfterInTwo` splits it.

The third part is `HandledInv`, crashes and losses included.  The server issues commands in
one order, and a reply lists all that are pending, so a machine never handles one that came
before another it has handled (`InOrder`).  A lease the machine abandoned or turned down
therefore has no row again (`RowsGone`): the ASSIGN that could make one is older, and was
handled.  `EndsJournaled` says that a job that is over under its holder's lease has the end in
the holder's journal: a holder's job ends by its own reports only, and what the server took is
in the row (`JournalInv`).

The fourth part is `Tidy`, what a machine holds while its first daemon runs, and the reason
for `OneProcess`, `ReportedIsStopped` and `LateLeaseIsTold`, none of which is inductive.
Every process belongs to a run and every run to a row (`ProcsHaveRuns`, `RunsHaveRows`), and
`RunFits` ties the phase of the run to what is journaled, so the row of a process holds no
end; with `EndsJournaled` that is `ReportedIsStopped`.  `NoElder`: an attempt that is past
"accepted" has no older attempt of its job beside it, because it took them away as it began,
and a lease that is given is newer than every lease in the journal (`NewestGiven`, from
`InOrder`); so two processes of a job have one run.  `Parked`: a row that is open
without a run was turned down by the fence, and the ABANDON that the fence issued is still
pending, since only the machine's answer settles it and then the row is gone (`ToldKept`).
Each action either marks rows (`Alike`), moves one run (`RunMoves`) or is a command with a
lemma of its own.  A crash empties the memory that all this rests on, and with it the three
are false (see [findings](#findings)); so the theorems speak of the states in which no daemon
was restarted (`Unrestarted`).  `OneBootTidy` says that with `MaxBoot = 1`, as in `dispatch`,
these are all states.  TLC checked `HandledInv` and `Tidy` with two boots, to 12 million
states, and with one boot completely, before they were proved.

`FleetFlowProofs` proves that `FlowInv` is an invariant of `FleetFlows!FlowSpec`, for every
number of publications and faults, and from it `SpecApproved`, `StepsFollow`, `StepShown`,
`StepOnce`, `ReviewedOnce` and `StatesFollowTable`.  Publications are numbered, and a flow
that turns to another spec turns to a higher number.  So a pass that decided for an older one
sees it under the lock, though the state be the same again (`PassOfFlow`).  `InOrder` says
that the flow's jobs for one spec and one approval come in the order of the steps, and
`PassDecided` that what a pass decided still follows the last job, which is good for good,
until that pass queues it.  `SpecApproved` speaks of the jobs of the present approval, and
`Approvals` is what keeps it when a job is queued late and when an approval is carried over:
no job is of an approval to come, and a pass of the present approval works for what was
approved.  The poller queues reviews beside the flow; `Beside` keeps them
behind the flow's RUN, so the one that the flow adopts becomes its last.  `ReviewedOnce`
counts: `ReviewBudget` says that the reviews of the head and the rights to queue one more,
which the pass, the poller or an unclaimed head has, are at most one and one for each fault.
A step of the claim exchanges a right for another, a dispatch spends it, and a fault pays for
a second (`BudgetMoves`).  The proof says first how each action moves the flow (`FlowMoves`)
and its rows (`RowsMove`), and then, once for each part of the invariant, that such a move
keeps it.  TLC checked `FlowInv` on the instance of `flows` before it was proved.  The
assumptions used are `EntryAssumption` and `FlowBoundAssumption`.

`ApprovalProofs` proves, for every set of principals, asks, policies, calls and every
bound, that `ApprovalInv` is an invariant of `ApprovalEngine!ApprovalSpec`, and from it
`ApprovalTypeOK`, `ReleasedAsAsked`, `BegunOnce` and `ImplementsLifecycle`.
`BegunOnce` alone is not inductive: a request begun as often as it may be must not be
begun again.  `Counted` adds that an unsettled request which no call has in hand was begun
no oftener than there were reasons, so one more beginning is within the bound; `HeadRuns`
that the call which prepares or runs a request is first in its line, so there is one of
them and ends of runs are ends of the one begun; `CallsAreDecided` that what a call carries
out was decided.  `ReleasedAsAsked` follows from `Strict`: a request satisfies every
resolution it was answered for, and a decision is of a tier its own resolution admits.
`OpenedInOrder` keeps a new request from landing on a row in use.  The proof says first what
one request may live through in a step (`RequestStep`) and then what calls do to each other
through the line.
`PromiseProofs` says what the promise is good for: whoever keeps it commits a
command once and exactly when its request says so (`EffectsHappenOnce`), and a settled
request is settled for good (`SettledIsForEver`).

`FleetScheduleProofs` proves that `SchedInv` is an invariant of `FleetSchedules!ScheduleSpec`,
for every set of schedules, features, tickers and limits and every bound, and from it
`ScheduleTypeOK`, `FireOnce`, `EachJobCountsOnce` and `ManualOffStays`.  `FireOnce` says
nothing of the fires that are claimed and not yet spent.  `InHand` adds that such a fire is in
one ticker's hand and no job has it, and `FiresPassed` that what was ever claimed is past: not
after the clock, and before its schedule's next fire.  A claim needs the fire to be the next
one and moves that on, a user moves it past the clock, so what is claimed was not claimed
before, even by a ticker that reads a clock of long ago.  A step is therefore quiet
(`QuietKeepsFires`), a claim (`ClaimKeepsFires`) or a spending (`SpendKeepsFires`).
`EachJobCountsOnce` is inductive with the step relations `RowsMove` and `CountsMove`: a
counter that grows grows with a job that was not counted.  The assumptions used are
`ScheduleAssumption` and `LimitAssumption`.

`EmailProofs` proves that `EmailInv` is an invariant of `EmailDispatch!DispatchSpec`, for
every set of events, handlers, relays and ticks and every bound, and from it
`PublishedReached`, `SentOnce`, `EndsStay` and `DeadWasTried`.  `PublishedReached` needs
`Progress`: while no handler of the event under way has failed, those before the next one
were reached, and what was reached is never lost, so a claim that passes from relay to
relay does no harm.  An event is given up on for real attempts only because of `Seen`:
while a relay owns the event it holds, the count it read is no greater than the count of
failures since the last reset.  `SentOnce` needs `TickInv`, that one tick holds rows at a time
and each row it holds is SENDING, and `SentInv`, that an email sent once more than
something failed, a lost reply included, is marked SENT or in the hand that is about to mark it.  `DeadWasTried` is
proved and, being a part of `EmailInv`, not checked by a run of its own.  The assumptions
used are `HandlerAssumption` and `OutboxAssumption`.

`TicketProofs` proves that `TicketInv` is an invariant of `Tickets!TicketSpec`, for every set
of principals, keys, policies, calls and observers and every bound, and from it
`TicketTypeOK`, `TrailIsPath`, `SelfFixApproved`, `OneMergeMove` and `DeletedStaysPut`; also
`MovesWereAllowed`, that every move was along an edge whose key its caller holds, which no
run checks by itself.  Two actions write rows, `Move` and `MergeMoves`, and `RowPreserves`
says what such a row must satisfy to keep the trail sound.  That it does follows from
`CallsSound`, what a call in each phase was let in by, and from the rows already there: when
the conditional write succeeds on a ticket that waits for its check, the last row is the fix
it waits with, so the check in the same transaction reads that very fix (`LastFix`).  `OneMergeMove` needs `MergesOnce`: a merge that is recorded has one observer
that may still move the ticket, and none once the row is there.  The assumptions used are
`TicketPrincipals`, `TicketPolicies` and `TicketBounds`.

Only model-checked: the liveness properties.  Every invariant and action property that a passing run
checks is the subject of a theorem.
Liveness under fairness and facts that need induction over data are outside
what the prover can do here, and stay with TLC.

## Limits of the models

* A hard stop of a budget and the deletion of a project lock their jobs one after
  the other in one transaction; the model takes one job at a time.  Nothing a
  property says depends on the jobs ending together.
* Row locks are not modelled: a transaction is atomic.
* A runner has one exchange at a time in `FleetDispatch`.  The second, overlapping
  request after a client timeout is in `FleetJob`, where any sync may come at any time.
* Budget spend, windows and approvals are one set `paused` that changes freely.
* Labels, executors, protocol versions and tools are one relation `CapableOf`.
* Of the runner, thread and config jobs, orderly drain, log streaming, git work,
  tokens, approvals, checkout mutexes and slot counts are left out.  An outcome
  of that work is a free choice (`Verdicts`, `RunFails`).
* The history an ABANDON or a retention pass may delete from the journal
  (`applied_commands`, old rows) is kept.
* In `FleetSchedules` access of the owner, validity of the template and the budget
  gate are free choices, a cron is any later instant, the system's reasons for
  switching off are one, a job is queued, held or over, and `lastJobId`, which only
  a reader shows, is not kept.  Creation is the initial state.  The test hook uses the
  clock; in the code it may pass a time to come.  Deletion of the project is left out.
* `MaxCommands` bounds the table, so runs near the bound lose late ABANDONs.

* In `ApprovalEngine` the requester is one agent.  Asks that fleet components open and
  close themselves (`api:approvals/approval-ask.service.ts`), the direct execution of a
  gated call by a human, requests on behalf of others, the resolver of policies, events
  and audit are left out.  The clock is one fact about a request, `due`.
* In `OutboxRelay` the relay is a library.  Due times are free choices; the order in which a
  relay takes up its batch is too.  `EmailDispatch` has one email per event; preferences and
  reminders are left out.
* In `FleetFlows` ticker and poller are single-flight in one API process, as their guards
  keep them.  A requeued step, archived threads, the subscriber that asks for a fix, and a
  branch that is pushed back to an older head are left out.
* In `Tickets` the keys of a principal do not change.  Creation, edits, comments, labels,
  assignment, the rethrowing path of `applyMergedPr`, runner principals and the deletion of
  the project are left out; the pull request opened after a commit is best effort, as in
  the code, and draft and open pull requests are one.

### Not modelled

Threads, logs and ingest, budgets' spend, the long poll, tokens
and credentials, and the runner's approvals, repo mutex and verdicts are in the plan.
Permissions, projects, auth, agents and users are record keeping behind one table each.
Memory, RAG, retrieval, code intelligence, CI webhooks, live events, the web client, the CLI
and the protocol package are input, output and search: they share no state whose order
matters, and are the larger part of the repository by lines, which is why the map covers a
small share of it.

## Plan

In this order; each item is a module or two, its runs and its theorems.

1. **`FleetLogs`**, **`FleetThreads`**: offset-checked appends against a terminal
   transition; turns.
2. **`RunnerNotifier`** and the long poll; **`FleetBudgets`**: pause and hard stop against
   dispatch.
3. The runner's repo mutex with two jobs, and the verdict functions as operators against a
   reference definition.
