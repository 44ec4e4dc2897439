# TLA+ models of meowbox

meowbox is a hosting panel. An API process (NestJS, SQLite through Prisma)
accepts requests, records long work as *operations*, and has an *agent* process
with root rights carry it out. The two talk over one Socket.IO connection.
Several panels can be joined: a master forwards requests to target panels
("federation"). Either process may be restarted at any moment by its
supervisor, and most of what can go wrong lies between a row in the database, a
promise in the API process and a handler in the agent.

This directory models the part on which every other one rests, the operation
queue with its locks and its worker and the agent job that an operation runs, and
two protocols between panels: the delivery of webhooks from a master to a target,
and the change of the address under which a master reaches a target.

    tlc -workers 2 -config OperationsQueue.cfg MCOperations   # model-check
    tlapm OperationsSafetyProofs.tla                          # check proofs

## Inventory

Paths are relative to `src/`. "Modelled" parts are described in detail below.

| Part | State | Operations | What is hard |
|---|---|---|---|
| Operation queue (`api/src/operations/operations.service.ts`) | rows `operations`, `operation_locks` | `begin`, `start`, `attachScope`, `succeed`, `fail`, `requestCancellation`, `claimNext`, `maintainQueue`, `*Claimed`, `retryOrRequireAttention`, `requireAttention`, `onModuleInit` | every call is a few SQL statements, interleaved with those of others; leases, deadlines, restarts |
| Operation worker (`operations-worker.service.ts`) | map of executions, poll timer, handlers | `pollOnce`, `execute`, heartbeat, `registerHandler` | handlers that outlive their lease; finalizers that come late |
| Agent jobs (`agent-job.service.ts`, `gateway/agent-relay.service.ts`, `agent/src/agent-job.runtime.ts`) | row `agent_jobs`; the current socket; the jobs of the agent process | `runAgentJob`, event handlers, START/STATUS/CANCEL | lost and reordered messages, two kinds of restart, repeated START |
| Backup reservation (`backups/backups.service.ts`, `reserveSiteBackupRows`) | rows `backups` | reserve, finish | exclusion with operations in both directions |
| Webhooks (`webhooks/`, `deploy/deploy.service.ts`) | delivery rows and spool files on the master; receipts, idempotency records, operations and deploy logs on the target | `accept`, `claimNext`, `execute`, `fail`, `redrive`, `revoke`; `deliver`, `triggerDeploy`, `completeDeploy` | a row and a file change in two steps; repeated posts, retries beside calls that were given up, crashes of either panel |
| Transfers (`transfers/`) | upload sessions, artifacts, quotas | open, append, finish, expire | partial failure, quotas |
| Federation (`federation/`) | registry, enrollments, replay and idempotency records | enroll, dispatch, verify | two databases, replay, half-done enrollment |
| Panel access cutover (`panel-access/`, registry, `agent/src/panel-access/`) | cutover row and endpoints of the master's registry; journal, settings and stage operation of the target; journal and listeners of the agent | `start`, `get`, `confirmBrowser`, `rollback`, `reconcileExpired`; `stage`, `status`, `finalize`, `rollback` | four places that change one after the other, overlapping calls, lost answers whose requests cannot be repeated, a deadline |
| Sensitive results, Adminer handoff, sessions | one row each | issue, consume once, expire | consumed twice, expiry races |
| Panel update, deploy, scheduler, sites, VPN, web UI | mostly calls of the above | | callers of the queue and of the agent |

Correctness of the modelled parts, in words: work that may still have effects
keeps the locks of its scope; a finished operation stays finished; work that
must not be repeated is not; leases and queue are bounded; a site-wide operation
excludes those inside the site; every admitted operation ends or reaches an
operator; what a job row reports did happen; a lost result is not lost for good; a
webhook keeps its payload until it is delivered, deploys its push at most once and
settles; the old address of a panel is served until the master has left it, and a
decided cutover stays decided.

`PROJECT.json` lists every component, the hazards with the line at which each
one bites, and which property watches it.

## Modules

    OperationsStore      the tables and the statements on them
      OperationsWorker   the processes: callers, poll, executions, restarts; properties
        MCOperations     instances for TLC
        OperationsProofs             type correctness
          OperationsSafetyProofs     leases, locks, finality
            OperationsQueueProofs    limits, single execution, outcomes
              OperationsScopeProofs  sites against what is inside them, backups
    AgentJob             one job: row, calls, channel, agent; properties
      MCAgentJob         instances for TLC
      AgentJobProofs     types, truth of results, recoverability
        AgentJobCallerProofs         overlapping calls: decided rows, the row moves forward
    PushDelivery         what webhook delivery promises for one push (abstract)
    WebhookDelivery      ingress, spool, worker, target; properties; implements PushDelivery
      MCWebhookDelivery        instances for TLC
      WebhookDeliveryProofs    types, payloads, single deploy, finality, the refinement
    PanelAccessCutover   coordinator, registry, target, agent; properties
      MCPanelAccessCutover     instances for TLC
      PanelAccessCutoverProofs types, order of the switch, decisions

### OperationsStore: the durable half

One SQL statement, or one Prisma transaction, is one step: SQLite serialises
writers, and the claim is a single `UPDATE ... RETURNING`. Columns are functions
over `Op`; a row that does not exist has status `FREE`. `locks` maps a resource
to the operation whose lock row names it. The resource sets `Site`, `Domain`,
`Database`, `Global` are the kinds of lock key. `leaseLeft` and `deadlineLeft`
are the ticks until `lease_expires_at` and `deadline_at`; relative time keeps the
state space finite without bounding the clock.

The operators carry the names of the methods: `Begin` (`begin`), `AttachScope`,
`ReserveBackup`, `Start`, `Succeed`, `Fail`, `ClaimRow` (`claimNext`),
`LoseLease`/`ExpireRow`/`DropLocks`/`ExhaustRow` (the four writes of
`maintainQueue`), `StartClaimed`, `HeartbeatClaim`, `SucceedClaimed`,
`FailClaimed`, `CancelClaimed`, `RetryOrRequireAttention`, `RequireAttention`,
`RecoverRows` (`onModuleInit`). `requestCancellation` reads a row and then makes
an update guarded by what it read, so it is the one guarded update
(`CancelWaiting`, `CancelRunning`).

Abstracted: texts, timestamps that nothing compares, progress and current step,
payloads, the error columns that recovery also writes to sites, domains and
deploy logs, the maintenance gate of a release, and the replay of an existing
operation by its idempotency key, which changes nothing.

### OperationsWorker: the process

Adds what lives in memory and disappears with the process: the poll and its place
between two statements (`pollPc`, with the row, the batch and the age of the
clock reading it works with), the map `active`, one program counter per execution
(`pc`, `on`, `snap` for the row as claimed, `lost` for `leaseLost`), and one owner
per inline operation. An execution goes on after it loses its lease, as in the
code, so two executions of one operation can overlap. A lease owner is a process
(`workerId`), which the model names by its boot number.

`Restart` ends the process at any point and performs the read of `onModuleInit`;
`Recover` is its write. Nest starts the `onModuleInit` hooks of one module together, so
nothing orders the recovery before the first poll, and the model does not either: the
poll may run its maintenance, and claim, between the two. The write names rows by id
alone, so it overwrites what the poll has done. What limits the damage is that handlers
are registered and callers served only after the recovery (`ready`), so no claim made
meanwhile can be executed. One effect remains, and `TerminalIsFinal` and `LockCoverage` name it: a
row that the first poll has failed and unlocked for its deadline becomes RECOVERING
again, without locks. It is never claimed, its deadline being over, and maintenance fails
it once more.

Callers use what the repository's callers use: only site creation begins
children, every `attachScope` is for a site lock, and only the admission service
asks for queued mode. Legacy backup rows that the reservation fails before it
reserves are `BackupEnds` followed by `BackupStarts`.

### AgentJob: one job in three places

The row (`state`, `boundTo`, `sequence`, `cancelOutcome`, `safe`), the calls of
`runAgentJob` (`callPc`, `callBoot`, ...), the agent process (`boot`, `jobState`,
`jobSeq`) and the channel. A call is split at each `await` on the database or the
socket; `AgentConnects` replaces the socket and `Fence` is the write that it starts
without awaiting. Requests to the agent are delivered in order; a request whose
call gave up, or whose socket closed, is still handled but its answer is not heard
(`Unheard`). Events of the agent are a set: they arrive in any order or never, and
the writes of the listeners, which are not awaited, are applied in any order
(`writes`). `ended`, `runs` and `refused` are history variables: how the handler ended on
each boot, how often it was run, and which boots have refused a START of a job that they
did not hold.

Abstracted: that a START is refused for the job limit or a missing handler is a
choice of the environment; the operation is executing while its job runs; fields
that the relay does not read; the check, read and emit of one status query are one
step. Not modelled: above 1000 jobs the runtime forgets finished ones that were created
more than an hour ago. A forgotten job whose result was lost could run again; callers that
allow more than an hour (site deletion 4 h, file transfers 24 h) are exposed to it.

### WebhookDelivery: a push through two panels

A *post* is one request of a provider. The ingress draws a fresh delivery id for
each post, so the post names the id, its row (`row`: state, attempt, lease owner) and
its spool file (a member of `queue` or `dlq`). Posts that agree on `Push` and route
are repetitions of one provider delivery (`SamePush`, the unique index). `Check`,
`Spool`, `Admit`, `Undo` are `accept` between its awaits; `Claim`, `Read`, `Send`,
`Answer`/`Timeout`, `Complete`, `Remove`, `Fail`, `ToDlq` are `claimNext`, `execute`
and `fail`; `Redrive`, `RedriveMove`, `RedriveUpdate` are `redrive`. On the target a
handler (`pc[p][k]`) goes through `Guard` (the idempotency claim, for remote targets),
`Find` and `Create` (the receipt), `Trigger`, `Deploy`, `Emit` (`triggerDeploy`),
`Record` or `Catch`. `Emit` may fail because the agent is not connected, with nothing
handed over, or after the hand-over: the deploy log stays as a failed one, and a retry
reports the push delivered. The place `k` tells apart the handler whose answer the worker awaits
(`waits`) and those it has given up. `remote` says which targets are other panels;
both kinds are initial states. `lock` is the operation lock of the domain, in the way
`begin` uses it; other work may hold it, and a deploy that a restart interrupted keeps
it until an operator intervenes (`Repair`).

Time is abstract: a lease may run out and a retry become due at any moment, and an
idempotency record may have expired. What keeps a process from claiming a delivery that
it is still executing is not the lease but `activeTargets`, as in the code. Signatures, payload
contents, branch names and token rotation are left out; `cleanupDlq` is called by
nothing but its tests. A removal that fails in `Undo` leaves a file without a row,
which nothing reads; it is not distinguished.

`PushDelivery` is the promise seen by somebody who knows pushes and deploys, and nothing
of rows, files, leases and receipts: a push is accepted once, reported delivered only if
its deploy is on record (a log exists, possibly that of a failed deploy) or none was asked
for, set aside or brought back, and never
changed once delivered. The mapping takes the phase of a push from the row its posts
share and the deploys from the deploy logs (`Promise == INSTANCE PushDelivery WITH ...`).

### PanelAccessCutover: one switch, four places

`reg`, `active`, `candidate`, `link` are the master's tables; `op`, `stage`, `journal`,
`settings` the target's; `agent` is the agent's journal, which stands for the listeners
that it writes together with it. `step[c]` is where a call of the coordinator is: the
administrator's calls (`Prepare`/`Start`, `Get`, `Resume`, `Confirm`, `Rollback`) and the
timer's (`Expire`) share the steps of `startTargetStage`, `reconcile`,
`reconcileActivated`, `ensureTargetRollbackSafe` and `rollbackUncommitted`, each step one
round trip or one registry transaction. `pc[h]`, `snap[h]` and `seen[h]` are a handler of
the target with the journal and the agent state it has read, which it writes back later;
`cmd[k]` is a command at the agent between its reading and its effect, since the agent
does not serialise commands. The stage operation moves as OperationsStore lets a MANUAL,
not retryable operation move.

`Reachable` is the point at which the protocol acts on itself: the master sends to the
endpoint that is active in its registry, pinned to its key, so a switch at the agent can
cut off the master's own next request. `used` are the idempotency keys that the target
has accepted. They are made of the cutover id alone (`panel-access-finalize-<id>`), so a
request whose answer is lost cannot be repeated; records live 24 hours and a cutover 15
minutes, so keys are not freed here.

The registry may refuse a mutation or fail after it (`commitMutationDecision`): `Refuses`
is the error before the commit, because the registry is frozen or the projection of
another mutation is under way; `Commits` has the case in which the row is written, the
projection is not, the caller gets an error and the registry is `frozen` until somebody
repairs it (`RepairProjection`). (A crash between the two is that case followed by
`MasterCrash`.) The clock that is compared with the deadline is read before the registry's
awaits, so the reading is part of the step (`regStage` or `regStageLate`, `activate` or
`activateLate`) and a cutover may be activated after its deadline. `path` is the network
between the panels, which may stay down. The agent may acknowledge a failure of a command that goes on
(the time limit of `safeOn`); the journal says NEEDS_ATTENTION then, and the command takes effect
later.

Assumed: one administrator (records are kept per subject, and the timer acts as the one
who started); one cutover, with no journal of an older one on the target. Passes of the
timer may overlap (`Timers` is a set); that it takes 8 cutovers at a time, in no order, is
left out with the other cutovers. The files of the agent are abstracted to its journal,
whose last writer decides.

## Runs

| Run | Result | Distinct states | Question |
|---|---|---|---|
| OperationsQueue | passes | 1.2 M | leases, capacity, limits and locks of the queue |
| OperationsProgress | passes | 0.04 M, with fairness | does queued work settle; is it final; is the cancellation outcome true |
| OperationsScopes | passes | 1.4 M | lock hierarchy, children, backups |
| AgentJobRun | passes | 2.4 M, up to symmetry | one job under overlapping calls, restarts, losses and reordering |
| WebhookDelivery | passes | 0.25 M, with fairness | payloads, single deploy, finality, settling, the refinement of PushDelivery |
| PanelAccessCutover | passes | 0.72 M, with fairness | order of the switch, decisions, the deadline |
| BackupDuringDeletion | violated | | documented exclusion of backups and mutations |
| ExpiryDuringExecution | violated | | documented treatment of lost work |
| InlineCancelRestart | violated | | documented treatment of interrupted work |
| AgentJobTwice | violated | | documented absence of duplicate effects |
| WebhookRedrive | violated | | documented effect of a redrive |
| CutoverReversed | violated | | documented finality of a cutover |

**OperationsQueue.** Two operations, requests of each recovery policy, one global
lock, one claim and one execution place, two processes, and a poll whose clock may
be one tick old. Two operations suffice for every conflict over a lock, the limit
(one claim) and an admission limit (one per actor); the limits are constants
(2, 128 and 32 in the code), so reaching them with small values exercises the same
comparisons. A lease is one tick and a deadline two, so that a lease can be lost
before and after the deadline. It checks that a lease means an executing status
and the living process (`LeaseDiscipline`), that no more leases live than allowed
even though they are counted with an old clock (`LiveLeasesBounded`), that work
that may still act holds its locks (`LockCoverage`), that these go only with their
owner (`LocksOutliveOwner`), that the only lock rows of finished operations come
from an expiry cut between its two statements (`OrphansAreExpired`), that MANUAL
work never runs twice (`ManualRunsOnce`), and the limits (`QueueBounded`).

**OperationsProgress.** One operation, two execution places, so that an execution
that lost its lease overlaps the next. Under `Fairness`, `QueuedWorkSettles`: it
ends or is handed to an operator. `TerminalIsFinal` and `CancelOutcomeTrue` are
checked on the same overlaps.

*Fairness and why the code gives it.* `schedule()` re-arms the poll after every
outcome, errors included, so a poll that can step does (weak fairness), and since
the poll may also be cut short by an error at any time, each loop of
`maintainQueue` is only assumed to get through again and again (strong fairness):
statements on a local database do not fail for ever. An execution moves on
because the calls of a handler have time limits. Time passes. Nothing is assumed
of users, cancellations, heartbeats, owners or restarts, whose number is bounded.

**OperationsScopes.** Three inline operations with the shapes of scope that the
callers use, over a site with a domain and a database. Three are needed for a
parent, its child and a stranger. There is no worker in it (`Exec = {}`): inline
operations have none. `SiteExclusion`: whoever holds a site excludes the
operations inside it, but for its own children.

**AgentJobRun.** Two calls that may overlap, as after a lost lease, two agent processes,
one lost connection or API restart, one heartbeat. `ResultIsTrue`, `LostResultRecoverable`
(the strict comparison of sequences never shuts out the result that is still
needed), `DecidedMeansStopped`, `RowMovesForward`. A job comes to its end, so
states without a successor are allowed. The callers do the same things, so they are
symmetric (no property of this run is a liveness property). `MaxLoad` bounds what one
behaviour combines: the boots so far (the first counts), the calls in progress, and twice the
lost connections, API restarts and heartbeats. With 4, two calls overlap while the agent
restarts, or one call meets a lost connection, an API restart or a heartbeat; what goes
beyond this the theorems cover, which hold for every value of these bounds. A refused START overwrites the row by id alone (`agent-job.service.ts:172`). A process that
refuses the START of one call and accepts that of the other therefore leaves FAILED on a
job that runs, and a decided row can turn FAILED. The last two properties allow this much
(`refused`) and nothing else.

**WebhookDelivery.** One push posted twice to one route, so that the posts race in the
ingress; a target that is local or remote; a queue of one; two attempts; one redrive;
one fault (a crash of either panel, a timeout, an unreachable target, an agent that is
gone, a failed write, a full disk) at any point. Two posts are what a repetition needs, and two attempts what a
retry beside an abandoned call needs; two faults leave the time limit, and safety for
any number of them is what the theorems give. States without a successor are allowed: a
delivery comes to its end. *Fairness*: handlers that run go on, and the worker's timer
fires again after every outcome (`schedule`). Providers, operators, route revocations
and repairs owe nothing. `Settles` therefore says that a delivery reaches DELIVERED or
the dead-letter queue even if the cause of its failures is never repaired.

**PanelAccessCutover.** One place for the administrator's calls, four of them, one pass of
the timer at a time, and one fault: a lost request or answer, an outage of any length, a
crash, a failed command, a refused registry mutation or one that fails after its commit.
Four calls are start, poll, confirm and one more; the timer's pass overlaps each of them.
Safety with any number of overlapping calls and passes, and of faults, is what the
theorems give; with liveness a second place for either exceeds the time limit. *Fairness*: a call that has
begun, a handler, a command and the operations worker go on, and the interval timer keeps firing
(`setInterval`, errors swallowed) and gets to this cutover; each is assumed collectively,
the weakest form. `DeadlineSettles` has a condition, that in the end the target can be
reached and the registry is not frozen; it is implied by neither the code nor `Fairness`, and TLC finds
the cutover open for good when either half of it is dropped (`ensureTargetRollbackSafe`
persists nothing for a target that does not answer, `Attention` is refused by a frozen
registry). Under it the cutover settles although keys are used up and answers lost,
because every branch of `reconcileExpired` ends the cutover, marks it, or leaves it to
the next pass.

### Where documents and code disagree

1. *BackupDuringDeletion.* `docs/domain-applications.md:49`: "A Site backup and a
   mutating Site/domain operation cannot start together." The reservation looks for
   operations in PENDING and RUNNING (`backups.service.ts:595`); a site deletion is
   admitted as QUEUED, the backup is reserved, and the deletion runs. An inline operation
   in CANCEL_REQUESTED is overlooked in the same way while its owner is still at work;
   `BackupExcludesWork` covers both, `BackupExcludesInline` says what does hold.
2. *ExpiryDuringExecution.* `specs/remote-panel-parity/plan.md:361`: "Lost
   non-idempotent work becomes NEEDS_ATTENTION and keeps conflicting locks." An
   operation with policy RECONCILE_ONLY that lost its lease and passes its deadline
   becomes FAILED and is unlocked (`operations.service.ts:796`) while its handler may
   still run.
3. *InlineCancelRestart.* The same sentence: an inline operation in CANCEL_REQUESTED
   is not selected by the recovery (`operations.service.ts:248`) and stays as it is.
4. *AgentJobTwice.* `api/prisma/schema.prisma:919`: "The deterministic ID prevents
   duplicate effects after API or Socket.IO reconnects." A call reads the agent's
   boot (`agent-relay.service.ts:167`) and sends START to the socket that is current
   later (line 180). If it is a retry, and the agent restarts in between, the new
   process runs the job again.
5. *WebhookRedrive.* `docs/runbook/webhook-dlq.md:24`: "Fix the cause first. Redrive as
   ADMIN". The first attempt's operation ended without a deploy log, `begin` replays it for
   every later attempt, and `triggerDeploy` asks for a new key (`deploy.service.ts:69`)
   that a redrive does not have. The trace also lets the redrive overtake `moveToDlq` of
   the failing execution, after which the file is not where the worker reads it.
6. *CutoverReversed.* `docs/runbook/panel-access-cutover-recovery.md:50`: "Finalized
   cutovers require a new reviewed recovery cutover; they cannot be silently reversed."
   `rollback` looks for FINALIZED where it begins; the target accepts a rollback of a
   cutover that is finalizing or finalized (`panel-access-cutover-target.service.ts:271`),
   and its agent carries it out after the registry has said FINALIZED. The master is left
   with an active endpoint that no listener serves.

`docs/runbook/panel-access-cutover-recovery.md:41`, "Deadline exceeded: expect automatic
rollback or `NEEDS_ATTENTION`", needs the condition that `DeadlineSettles` states; it has
no run of its own.

Known and not counted as findings, since no document speaks of them: a crash between
spool write and row leaves a file nobody owns; a redrive does not look at the queue
limit; a target that crashes between the deploy log and its emission reports a
delivery that never reached the agent, as does a retry after the agent was not connected;
a stage operation that is cancelled while its
agent job goes on can leave a staged candidate behind a rolled-back cutover; an answer
to the stage request that is lost leaves the link missing and the cutover in
NEEDS_ATTENTION for good; a cutover can be activated after its deadline by a call that
read the clock before it.

## Proofs

All of these hold for every set of operations, resources, requests and callers and
for every bound, under the assumptions named in the modules (`ResourcesDisjoint`,
`OpsNumbered`, `BoundsAreNaturals`, `SiteOfType`, `RequestsWellFormed`,
`WorkerBounds`; `CallerAssumption`, `BoundsAssumption`; `WebhookAssumption`;
`CutoverAssumption`, `HandlerAssumption`), which TLC evaluates in each run. No theorem has
a hypothesis of its own.

| Theorem | States |
|---|---|
| `TypeCorrectness` | `Spec => []TypeOK` (queue and worker) |
| `LeasesAreDisciplined` | `Spec => []LeaseDiscipline` |
| `LocksOutlive` | `Spec => LocksOutliveOwner` |
| `FinishedIsFinal` | `Spec => TerminalIsFinal` |
| `LocksCover` | `Spec => []LockCoverage` |
| `OrphansOnlyByExpiry` | `Spec => []OrphansAreExpired` |
| `CancellationsAreTrue` | `Spec => []CancelOutcomeTrue` |
| `LeasesBounded` | `Spec => []LiveLeasesBounded` |
| `QueueStaysBounded` | `Spec => []QueueBounded` |
| `ManualIsExecutedOnce` | `Spec => []ManualRunsOnce` |
| `BackupsExcludeInline` | `Spec => []BackupExcludesInline` |
| `SitesExclude` | `Spec => []SiteExclusion` |
| `JobTypeCorrectness` | `Spec => []JobTypeOK` (agent job) |
| `ResultsAreTrue` | `Spec => []ResultIsTrue` |
| `LostResultsAreRecoverable` | `Spec => []LostResultRecoverable` |
| `DecidedIsStopped` | `Spec => []DecidedMeansStopped` |
| `RowsMoveForward` | `Spec => RowMovesForward` |
| `DeliveryTypes` | `Spec => []TypeOK` (webhooks) |
| `PayloadsAreKept` | `Spec => []PayloadKept` |
| `PushesDeployOnce` | `Spec => []OneDeployPerPush` |
| `DeliveredStays` | `Spec => DeliveredIsFinal` |
| `PromiseIsKept` | `Spec => KeepsPromise`, the refinement of PushDelivery |
| `CutoverTypes` | `Spec => []TypeOK` (cutover) |
| `OldServes` | `Spec => []OldServesUntilActivation` |
| `RegistryFollows` | `Spec => []NeverAheadOfTarget` |
| `DecisionsStand` | `Spec => DecisionStands` |

*The queue.* `Focus` (the poll's row and each busy execution's row are operations)
completes `TypeOK` to an inductive invariant. The safety proofs
first reduce the some forty actions of the process to the statements that they make
on the tables (`StepIsStatement`), and argue about statements from there.
`LeaseDiscipline` is inductive together with `Modes` (inline rows never have the
statuses of the queue) and `Owners` (a living owner has an inline row); `LeaseInv` is
their conjunction. From it `LocksOutlive` follows: each statement that deletes locks
also finishes the row, by the guard on its lease or status. Finality needs more,
since the recovery's write has no guard and the first poll may run between its read and
its write: `Overlap` says what can have become of the rows that were read. Until the
recovery is done no execution has a handler and no owner lives, so the poll can only
have taken a row's lease, expired it, or claimed it and handed it to an operator; none is back in
the queue, and one that has finished is a queued one that was failed for its deadline.
`FinishedIsFinal` is then a case split over the statements. `LocksCover` is inductive with `OverlapInv`
(`CoverInv`): a row's request and parent do not change after `begin` (`RowsStay`), rows
appear only through `begin`, which inserts their locks, locks go only with a finished
owner, and a finished owner stays finished, or is reopened past its deadline, as the poll
in progress reads its clock (`Expired`), after which no claim takes it.

*Limits of the queue.* `Op` may be infinite, so a cardinality means something only for
a finite set: `CountInv` adds that the table is finite, since a statement inserts one
row at most (`TableFinite`, from `FiniteSetTheorems`). A statement then adds at most one
live lease, in the claim, which counted the leases with a clock reading that may be old:
an older clock sees more live leases, never fewer (`OlderClockSeesMore`), so the count
that the claim compares is not too small. The queue grows only in `begin`, after its own
count of the rows in `InQueue`. A finished row comes back only through a recovery; such a
row is counted from the start, and as long as it may be reopened (it is in `interrupted`)
there is no caller who could begin another.

*Single execution.* `ManualRunsOnce` speaks of executions, which the statements on the
tables do not show, so `ProcessMoves` says how an execution and the poll get their row:
an execution takes the row that the poll loads, the poll the one it has claimed.
`ManualInv` adds that a MANUAL row claimed once is never queued again and that each such
row has one holder, the poll or one execution. A late execution may still run; it is the
second claim that never happens. `CancelInv` follows the place `cancelling` of an
execution in the same way back to the request.

*Scopes.* `SiteExclusion` compares two lock rows, but the conflicts that `begin` looks for
are in terms of the site of the other operation. `ScopeInv` ties the two: the holder of a
nested lock has the site of that lock in its row or holds the site as well
(`NestedInSite`), and an operation that locks its site, unless it is a child, does hold that lock
(`SiteWide`). `begin` and `attachScope` are the only statements that add lock rows, and
each rules out the conflict with what these two say of the others; the remaining
statements keep sites and only drop locks (`ScopesStay`). For the backups, the orphaned
locks must be known (`BackupInv` contains `OrphanInv`), or a lock row left by a finished
operation could belong to anybody.

*The agent job.* A row learns of an end only from messages, so `ResultIsTrue` is
strengthened by `MessagesTrue` (each event, answer and pending write carries how the
handler ended on its boot) and `EndsOnce` (it ends once per boot). For
`LostResultRecoverable`, `SequenceInv` bounds the sequences in the channel and in
the row by the agent's own counter, strictly so once the handler has ended.

*Overlapping calls.* A refused START overwrites the row by its id alone, so nothing in the
statement itself keeps it from undoing a result. `CallerInv` says that this is the only way:
a refusal in flight was given by a process that did not hold the job (`RefusalsTrue`), and
a row says FAILED because the handler of its boot ended so or because that boot refused
(`FailureIsTrue`). The proof reduces every step that is not the agent's to what it does to the row
(`RowMoves`: created, bound, told by its own boot, changed by the call that works on it,
fenced, or overwritten by a refusal). `DecidedIsStopped` follows with `ResultIsTrue`: what
succeeded, was cancelled or failed on a boot has ended there, and it ends once per boot.

*The webhooks.* `DeliveryInv` is `TypeOK` with four parts. `SpoolInv` keeps the payload:
the file is there while `accept` is about to make its row (`IntakeInv`), and only an
execution whose row is DELIVERED is about to remove it (`WorkInv`). `DeployInv` counts
deploys: a push has one row, a delivery one operation, and one handler at most is between
`begin` and the emission, since only the call that created the operation goes that way.
`RowInv` and `ReportInv` tie what is reported to what happened: an answer "ok", a row
about to be completed and a delivered receipt each have a deploy log, or a push that is
ignored. The refinement follows step by step: an action changes the phase of one push at
most (posts of one push share a row), and the reports give the guard of `DeliverPush`.

*The cutover.* The difficulty is that everything may be stale: a call acts on a registry
it read long ago, a handler writes back a journal it read long ago. `CutoverInv` avoids
any claim about what is current. Each conjunct says that a *trace* of the protocol (a step
a call has reached, a key in `used`, a state in `journal`, `snap`, `seen` or `cmd`) implies
a fact that never becomes false again: the registry has committed to the candidate or has
come back from it (`CommitInv`, `TraceInv`), the agent has staged once (`StagedInv`), the
agent has decided (`FinalInv`); `RegInv` relates the registry's own columns. Stale reads
are then harmless, and each step only has to justify the traces it leaves. `StepsOnRegistry`
reduces every action to one of the few transactions of the registry, whether its caller
hears of the commit or gets an error; `DecisionsStand` follows from it. Nothing here needs
the registry to be mutable, the network to be up or the clock reading to be fresh.

*Model-checked only.* Liveness (`QueuedWorkSettles`, `Settles`, `DeadlineSettles`): fairness and `ENABLED` are
beyond the prover, as are induction over data and recursive operators (none is used
here). Every other property of the passing runs is a theorem. TLC has also checked the
inductive invariants above on the instances of the runs before they were proved.

## Not modelled

Transfers, enrollment and trust rotation, sensitive results, the Adminer handoff and
sessions are planned (below). Left out for good: the work that handlers do on the host
(files, nginx, PHP, databases, certificates, VPN, Restic), which is input and output;
the migration of sites from other panels, one long script of such work; the shell
release scripts; the web interface, by far the largest part of the repository, which
shows what the API stores; the scheduler and monitoring loops, which keep no state of
their own. Measured in lines, most of the repository is of these kinds.

## Plan

1. *(done)* Operation queue, locks, worker, backup reservation; leases and locks
   proved.
2. *(done)* Agent job; truth and recoverability of results proved.
3. *(done)* `WebhookDelivery` with the idempotency claims and the deploys of the target;
   the abstract `PushDelivery` and the refinement, proved.
4. *(done)* `PanelAccessCutover`; safety proved for any number of overlapping calls.
5. Small single-use protocols: sensitive results, Adminer tickets, session rotation.
6. `Enrollment`: the other two-sided protocol, with half-done registrations.
7. `TransferSession`: quotas and expiry.
8. An abstract lock service (who may act on which resource), implemented by
   OperationsWorker; and the composition of an operation with its agent job, to
   derive how often a job's effects can happen from the operation's policy.
9. *(done)* Proofs of the remaining safety properties: the limits and single execution of
   the queue, cancellation outcomes, scopes and backups; the agent job with overlapping callers.

Bounds stay in the configurations (`MaxBoots`, `MaxCalls`, `MaxBeats`, `MaxDrops`, `MaxLoad`,
`MaxPollAge`, `MaintenanceBatch`, `MaxAttempts`, `MaxRedrives`, `MaxFaults`), each named in
the module that uses it.
