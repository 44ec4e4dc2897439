--------------------------- MODULE OperationsWorker ---------------------------
(***************************************************************************)
(* The API process on top of the tables of OperationsStore: the worker's   *)
(* poll loop and its executions (operations-worker.service), the requests  *)
(* that own inline operations, users who cancel, backups, restarts and the *)
(* clock.  Everything here but the tables is lost at a restart.            *)
(*                                                                         *)
(* There is one API process.  Its worker id is drawn at start-up and kept, *)
(* so every claim of one process carries the same lease owner: the number  *)
(* of the boot stands for it.                                              *)
(***************************************************************************)
EXTENDS OperationsStore

CONSTANTS
    Exec,               \* places for executions; bounds how many overlap
    MaxActive,          \* active.size of pollOnce, 2 in the code
    MaxBoots,           \* bound on process starts
    MaintenanceBatch    \* rows that a loop of maintainQueue takes, 16 in the code

ASSUME WorkerBounds ==
    /\ Exec \subseteq Nat
    /\ MaxActive \in Nat /\ MaxBoots \in Nat \ {0} /\ MaintenanceBatch \in Nat \ {0}

VARIABLES
    boot,        \* the current process
    interrupted, \* rows that its onModuleInit has read and not yet recovered
    ready,       \* the modules have registered their handlers
    pollPc, pollOp, \* the poll in progress: the next statement, its row
    pollAge,     \* ticks since it read the clock
    again,       \* it has been through maintenance a second time
    batch,       \* rows a loop of maintainQueue has selected, with their status
    maintWait,   \* ticks until nextQueueMaintenanceAt
    active,      \* keys of the worker's map of executions
    pc, on, snap, lost, \* per execution: where it is, its operation, the
                 \* attempt it was given, leaseLost
    owner        \* per inline operation: the request that drives it

pollVars == <<pollPc, pollOp, pollAge, again, batch>>
execVars == <<pc, on, snap, lost>>
procVars == <<boot, interrupted, ready, pollVars, maintWait, active, execVars, owner>>
vars     == <<storeVars, procVars>>

PollPc  == {"idle", "lease", "deadline", "unlock", "attempts", "claim", "load"}
ExecPc  == {"idle", "unhandled", "starting", "running", "returned", "errored",
            "failing", "attention", "cancelling", "retrying"}
OwnerPc == {"none", "begun", "running", "lost"}

Init ==
    /\ StoreInit
    /\ boot = 1
    /\ interrupted = {}
    /\ ready = TRUE
    /\ pollPc = "idle" /\ pollOp = None /\ pollAge = 0
    /\ again = FALSE /\ batch = {}
    /\ maintWait = 0
    /\ active = {}
    /\ pc = [e \in Exec |-> "idle"]
    /\ on = [e \in Exec |-> None]
    /\ snap = [e \in Exec |-> 0]
    /\ lost = [e \in Exec |-> FALSE]
    /\ owner = [o \in Op |-> "none"]

ProcTypeOK ==
    /\ boot \in 1..MaxBoots
    /\ interrupted \subseteq Op
    /\ ready \in BOOLEAN
    /\ pollPc \in PollPc /\ pollOp \in Op \cup {None} /\ pollAge \in 0..MaxPollAge
    /\ again \in BOOLEAN /\ batch \subseteq Op \X Status
    /\ maintWait \in 0..LeaseTicks
    /\ active \subseteq Op
    /\ pc \in [Exec -> ExecPc]
    /\ on \in [Exec -> Op \cup {None}]
    /\ snap \in [Exec -> Nat]
    /\ lost \in [Exec -> BOOLEAN]
    /\ owner \in [Op -> OwnerPc]

\* Every column and every variable of the process has its type.
TypeOK == StoreTypeOK /\ ProcTypeOK

-------------------------------------------------------------------------------
(***************************************************************************)
(* Callers.                                                                *)
(***************************************************************************)

\* A caller begins an operation.  A child is begun by the request that owns
\* its parent, after it started the parent.
BeginOperation(o, r, p) ==
    /\ Begin(o, r, p)
    /\ p # None => owner[p] = "running"
    /\ owner' = [owner EXCEPT ![o] = IF r.mode = "INLINE" THEN "begun" ELSE "none"]
    /\ UNCHANGED <<boot, interrupted, ready, pollVars, maintWait, active, execVars>>

\* The owner starts its operation; a start that finds the row changed throws,
\* and the owner gives up.
OwnerStarts(o) ==
    /\ owner[o] = "begun"
    /\ \/ Start(o) /\ owner' = [owner EXCEPT ![o] = "running"]
       \/ /\ status[o] # "PENDING"
          /\ owner' = [owner EXCEPT ![o] = "lost"]
          /\ UNCHANGED storeVars
    /\ UNCHANGED <<boot, interrupted, ready, pollVars, maintWait, active, execVars>>

\* The owner widens the scope to what it has just created.  Only site-wide
\* operations do.
OwnerAttaches(o, s, d) ==
    /\ owner[o] = "running"
    /\ req[o].lockSite /\ ~req[o].child
    /\ d # None => SiteOf[d] = s
    /\ AttachScope(o, s, d)
    /\ UNCHANGED procVars

OwnerSucceeds(o) ==
    /\ owner[o] = "running"
    /\ Succeed(o)
    /\ owner' = [owner EXCEPT ![o] = "lost"]
    /\ UNCHANGED <<boot, interrupted, ready, pollVars, maintWait, active, execVars>>

\* Any error of the owner, a refused step() or succeed() included.
OwnerFails(o) ==
    /\ owner[o] = "running"
    /\ Fail(o)
    /\ owner' = [owner EXCEPT ![o] = "lost"]
    /\ UNCHANGED <<boot, interrupted, ready, pollVars, maintWait, active, execVars>>

\* The owner's last database call fails too; the row stays as it is.
OwnerGivesUp(o) ==
    /\ owner[o] \in {"begun", "running"}
    /\ owner' = [owner EXCEPT ![o] = "lost"]
    /\ UNCHANGED <<storeVars, boot, interrupted, ready, pollVars, maintWait, active,
                   execVars>>

RequestCancellation(o) ==
    /\ CancelWaiting(o) \/ CancelRunning(o)
    /\ UNCHANGED procVars

BackupStarts(s) == ReserveBackup(s) /\ UNCHANGED procVars
BackupEnds(s)   == FinishBackup(s) /\ UNCHANGED procVars

-------------------------------------------------------------------------------
(***************************************************************************)
(* The poll loop: pollOnce and claimNext.                                  *)
(***************************************************************************)

\* What the SELECT of a loop of maintainQueue may return of the rows R: all of
\* them or MaintenanceBatch of them, with the status each has now.
Batches(R) ==
    {{<<o, status[o]>> : o \in B} :
        B \in {B \in SUBSET R : \/ B = R /\ Cardinality(B) <= MaintenanceBatch
                               \/ Cardinality(B) = MaintenanceBatch}}

LapsedRows(age)  == {o \in Op : LeaseLapsed(o, age)}
ExpiredRows(age) == {o \in Op : DeadlinePassed(o, age)}
RetriedRows      == {o \in Op : Queued(o) /\ status[o] = "QUEUED" /\ attempt[o] >= 1}

PollEnds ==
    /\ pollPc' = "idle" /\ pollOp' = None /\ pollAge' = 0
    /\ again' = FALSE /\ batch' = {}

\* claimNext reads the clock once; every statement of the poll compares with
\* that reading.  Maintenance comes first when it is due.  Nothing orders the
\* first poll of a process after the recovery: both are hooks of one module.
PollStarts ==
    /\ pollPc = "idle"
    /\ Cardinality(active) < MaxActive
    /\ \E e \in Exec : pc[e] = "idle"
    /\ \/ maintWait = 0 /\ pollPc' = "lease" /\ batch' \in Batches(LapsedRows(0))
       \/ maintWait > 0 /\ pollPc' = "claim" /\ UNCHANGED batch
    /\ UNCHANGED <<storeVars, boot, interrupted, ready, pollOp, pollAge, again,
                   maintWait, active, execVars, owner>>

\* The loops treat the rows of their batch one statement each.  The UPDATE
\* repeats the condition of the SELECT and misses a row that has changed since.
MaintainLease(row) ==
    /\ pollPc = "lease" /\ row \in batch
    /\ \/ status[row[1]] = row[2] /\ LoseLease(row[1], pollAge)
       \/ /\ ~(status[row[1]] = row[2] /\ LeaseLapsed(row[1], pollAge))
          /\ UNCHANGED storeVars
    /\ batch' = batch \ {row}
    /\ UNCHANGED <<boot, interrupted, ready, pollPc, pollOp, pollAge, again,
                   maintWait, active, execVars, owner>>

MaintainDeadline(row) ==
    /\ pollPc = "deadline" /\ row \in batch
    /\ \/ /\ status[row[1]] = row[2]
          /\ ExpireRow(row[1], pollAge)
          /\ pollPc' = "unlock" /\ pollOp' = row[1]
       \/ /\ ~(status[row[1]] = row[2] /\ DeadlinePassed(row[1], pollAge))
          /\ UNCHANGED <<storeVars, pollPc, pollOp>>
    /\ batch' = batch \ {row}
    /\ UNCHANGED <<boot, interrupted, ready, pollAge, again, maintWait, active,
                   execVars, owner>>

MaintainUnlock ==
    /\ pollPc = "unlock"
    /\ DropLocks(pollOp)
    /\ pollPc' = "deadline" /\ pollOp' = None
    /\ UNCHANGED <<boot, interrupted, ready, pollAge, again, batch, maintWait,
                   active, execVars, owner>>

MaintainAttempts(row) ==
    /\ pollPc = "attempts" /\ row \in batch
    /\ \/ ExhaustRow(row[1])
       \/ ~AttemptsSpent(row[1]) /\ UNCHANGED storeVars
    /\ batch' = batch \ {row}
    /\ UNCHANGED <<boot, interrupted, ready, pollPc, pollOp, pollAge, again,
                   maintWait, active, execVars, owner>>

\* The end of a loop.  After the last one the claim follows, and a maintenance
\* that was due is not due again for 30 s.
MaintainNext ==
    /\ batch = {}
    /\ \/ /\ pollPc = "lease" /\ pollPc' = "deadline"
          /\ batch' \in Batches(ExpiredRows(pollAge))
          /\ UNCHANGED maintWait
       \/ /\ pollPc = "deadline" /\ pollPc' = "attempts"
          /\ batch' \in Batches(RetriedRows)
          /\ UNCHANGED maintWait
       \/ /\ pollPc = "attempts" /\ pollPc' = "claim"
          /\ UNCHANGED batch
          /\ maintWait' = IF maintWait = 0 THEN LeaseTicks ELSE maintWait
    /\ UNCHANGED <<storeVars, boot, interrupted, ready, pollOp, pollAge, again,
                   active, execVars, owner>>

PollClaims(o) ==
    /\ pollPc = "claim"
    /\ ClaimRow(o, boot, pollAge)
    /\ pollPc' = "load" /\ pollOp' = o
    /\ UNCHANGED <<boot, interrupted, ready, pollAge, again, batch, maintWait,
                   active, execVars, owner>>

\* The UPDATE matched no row: the poll ends, unless a lapsed lease is worth one
\* more maintenance and one more claim.
PollFindsNothing ==
    /\ pollPc = "claim"
    /\ ~(CapacityLeft(pollAge) /\ \E o \in Op : Claimable(o, pollAge))
    /\ \/ /\ ~again /\ LapsedRows(pollAge) # {}
          /\ pollPc' = "lease" /\ again' = TRUE
          /\ batch' \in Batches(LapsedRows(pollAge))
          /\ UNCHANGED <<pollOp, pollAge>>
       \/ /\ again \/ LapsedRows(pollAge) = {}
          /\ PollEnds
    /\ UNCHANGED <<storeVars, boot, interrupted, ready, maintWait, active,
                   execVars, owner>>

\* The claimed row is read back and decrypted, and execute() is entered; it
\* looks the handler up at once.  The loop then polls again.
PollExecutes(e) ==
    /\ pollPc = "load"
    /\ pc[e] = "idle" /\ \A f \in Exec : pc[f] = "idle" => e <= f
    /\ pc' = [pc EXCEPT ![e] = IF ready THEN "starting" ELSE "unhandled"]
    /\ on' = [on EXCEPT ![e] = pollOp]
    /\ snap' = [snap EXCEPT ![e] = attempt[pollOp]]
    /\ lost' = [lost EXCEPT ![e] = FALSE]
    /\ active' = active \cup {pollOp}
    /\ PollEnds
    /\ UNCHANGED <<storeVars, boot, interrupted, ready, maintWait, owner>>

\* The row is incomplete or its payload cannot be decrypted.
PollRejectsPayload ==
    /\ pollPc = "load"
    /\ IF leaseOwner[pollOp] = boot THEN RequireAttention(pollOp, boot)
                                    ELSE UNCHANGED storeVars
    /\ PollEnds
    /\ UNCHANGED <<boot, interrupted, ready, maintWait, active, execVars, owner>>

\* Any statement of the poll may throw; the poll is dropped where it stands.
PollFails ==
    /\ pollPc # "idle"
    /\ PollEnds
    /\ UNCHANGED <<storeVars, boot, interrupted, ready, maintWait, active,
                   execVars, owner>>

-------------------------------------------------------------------------------
(***************************************************************************)
(* execute(): one claimed operation.                                       *)
(***************************************************************************)

\* The promise of execution e settles; the map loses the operation's key, even
\* when a later execution of the same operation has put it there.
Ends(e) ==
    /\ pc' = [pc EXCEPT ![e] = "idle"]
    /\ on' = [on EXCEPT ![e] = None]
    /\ snap' = [snap EXCEPT ![e] = 0]
    /\ lost' = [lost EXCEPT ![e] = FALSE]
    /\ active' = active \ {on[e]}
    /\ UNCHANGED <<boot, interrupted, ready, pollVars, maintWait, owner>>

MovesTo(e, l) ==
    /\ pc' = [pc EXCEPT ![e] = l]
    /\ UNCHANGED <<boot, interrupted, ready, pollVars, maintWait, active, on, snap,
                   lost, owner>>

\* startClaimed; a stale claim throws out of execute().
ExecStarts(e) ==
    /\ pc[e] = "starting"
    /\ \/ StartClaimed(on[e], boot) /\ MovesTo(e, "running")
       \/ /\ ~(status[on[e]] = "CLAIMED" /\ leaseOwner[on[e]] = boot
                 /\ leaseLeft[on[e]] > 0)
          /\ UNCHANGED storeVars
          /\ Ends(e)

\* The heartbeat timer and context.heartbeat(): from the first beat that does
\* not renew, or fails, leaseLost stays set and no beat follows.
ExecHeartbeat(e) ==
    /\ pc[e] \notin {"idle", "unhandled", "starting"} /\ ~lost[e]
    /\ \/ HeartbeatClaim(on[e], boot) /\ UNCHANGED lost
       \/ UNCHANGED storeVars /\ lost' = [lost EXCEPT ![e] = TRUE]
    /\ UNCHANGED <<boot, interrupted, ready, pollVars, maintWait, active, pc, on,
                   snap, owner>>

\* The handler returns a result, or throws.  It throws OperationCancelledError
\* only after it has seen the request.
HandlerReturns(e) ==
    /\ pc[e] = "running"
    /\ UNCHANGED storeVars
    /\ MovesTo(e, IF lost[e] THEN "errored" ELSE "returned")

HandlerThrows(e) ==
    /\ pc[e] = "running"
    /\ UNCHANGED storeVars
    /\ \/ MovesTo(e, "failing")
       \/ MovesTo(e, "attention")
       \/ MovesTo(e, "errored")
       \/ CancellationSeen(on[e], boot) /\ MovesTo(e, "cancelling")

\* succeedClaimed; a stale claim or a transaction that does not commit is
\* handled like an error of the handler.
ExecSucceeds(e) ==
    /\ pc[e] = "returned"
    /\ \/ SucceedClaimed(on[e], boot) /\ Ends(e)
       \/ UNCHANGED storeVars /\ MovesTo(e, "errored")

\* The catch block reads whether cancellation was requested, and acts on the
\* answer in a later statement.
ExecChecksCancel(e) ==
    /\ pc[e] = "errored"
    /\ UNCHANGED storeVars
    /\ MovesTo(e, IF CancellationSeen(on[e], boot) THEN "cancelling" ELSE "retrying")

ExecFails(e) ==
    pc[e] = "failing" /\ FailClaimed(on[e], boot) /\ Ends(e)

ExecCancels(e) ==
    pc[e] = "cancelling" /\ CancelClaimed(on[e], boot) /\ Ends(e)

ExecRetries(e) ==
    pc[e] = "retrying" /\ RetryOrRequireAttention(on[e], boot, snap[e]) /\ Ends(e)

ExecRequiresAttention(e) ==
    pc[e] \in {"attention", "unhandled"} /\ RequireAttention(on[e], boot) /\ Ends(e)

\* A finalizer throws, because the claim is stale or the
\* database refuses: the execution ends and the row keeps what it has.
ExecGivesUp(e) ==
    /\ pc[e] \in {"errored", "failing", "cancelling", "retrying", "attention",
                 "unhandled"}
    /\ UNCHANGED storeVars
    /\ Ends(e)

-------------------------------------------------------------------------------
(***************************************************************************)
(* Process life and time.                                                  *)
(***************************************************************************)

\* The process dies and a new one starts; its onModuleInit has read the rows
\* to recover, its first statement, issued before the worker arms its timer.
Restart ==
    /\ boot < MaxBoots
    /\ boot' = boot + 1
    /\ interrupted' = Interrupted
    /\ ready' = FALSE
    /\ PollEnds
    /\ maintWait' = 0
    /\ active' = {}
    /\ pc' = [e \in Exec |-> "idle"]
    /\ on' = [e \in Exec |-> None]
    /\ snap' = [e \in Exec |-> 0]
    /\ lost' = [e \in Exec |-> FALSE]
    /\ owner' = [o \in Op |-> "none"]
    /\ UNCHANGED storeVars

\* The recovery transaction.  Its WHERE names the rows by id only.
Recover ==
    /\ interrupted # {}
    /\ RecoverRows(interrupted)
    /\ interrupted' = {}
    /\ UNCHANGED <<boot, ready, pollVars, maintWait, active, execVars, owner>>

\* The other modules' onModuleInit register their handlers after this module's.
HandlersRegister ==
    /\ ~ready /\ interrupted = {}
    /\ ready' = TRUE
    /\ UNCHANGED <<storeVars, boot, interrupted, pollVars, maintWait, active,
                   execVars, owner>>

Tick ==
    /\ pollPc # "idle" => pollAge < MaxPollAge
    /\ Elapse
    /\ pollAge' = IF pollPc = "idle" THEN 0 ELSE pollAge + 1
    /\ maintWait' = IF maintWait > 0 THEN maintWait - 1 ELSE 0
    /\ UNCHANGED <<boot, interrupted, ready, pollPc, pollOp, again, batch, active,
                   execVars, owner>>

\* The API listens only after every module has been initialised.
Caller ==
    /\ ready
    /\ \/ \E o \in Op, r \in Request, p \in Op \cup {None} : BeginOperation(o, r, p)
       \/ \E o \in Op, s \in Site, d \in Domain \cup {None} : OwnerAttaches(o, s, d)
       \/ \E o \in Op : RequestCancellation(o)
       \/ \E s \in Site : BackupStarts(s) \/ BackupEnds(s)

OwnerStep(o) ==
    OwnerStarts(o) \/ OwnerSucceeds(o) \/ OwnerFails(o) \/ OwnerGivesUp(o)

PollStep ==
    \/ PollStarts \/ MaintainUnlock \/ MaintainNext \/ PollFindsNothing
    \/ PollRejectsPayload
    \/ \E row \in batch : \/ MaintainLease(row) \/ MaintainDeadline(row)
                         \/ MaintainAttempts(row)
    \/ \E o \in Op : PollClaims(o)
    \/ \E e \in Exec : PollExecutes(e)

ExecStep(e) ==
    \/ ExecStarts(e) \/ HandlerReturns(e) \/ HandlerThrows(e) \/ ExecSucceeds(e)
    \/ ExecChecksCancel(e) \/ ExecFails(e) \/ ExecCancels(e) \/ ExecRetries(e)
    \/ ExecRequiresAttention(e) \/ ExecGivesUp(e)

Next ==
    \/ Caller
    \/ \E o \in Op : OwnerStep(o)
    \/ PollStep \/ PollFails
    \/ \E e \in Exec : ExecStep(e) \/ ExecHeartbeat(e)
    \/ Restart \/ Recover \/ HandlersRegister
    \/ Tick

Spec == Init /\ [][Next]_vars

\* The timers of the process keep firing and its statements do not fail for
\* ever: schedule() re-arms the poll after every outcome, each execution moves
\* on (a handler's calls have time limits), the loops of maintainQueue are
\* completed again and again, and time passes.  Nothing is assumed of callers,
\* cancellations, heartbeats, restarts or owners.
Fairness ==
    /\ SF_vars(Tick)
    /\ WF_vars(Recover) /\ WF_vars(HandlersRegister)
    /\ WF_vars(PollStep)
    /\ SF_vars(\E row \in batch : MaintainLease(row))
    /\ SF_vars(\E row \in batch : MaintainDeadline(row))
    /\ SF_vars(pollPc = "lease" /\ MaintainNext)
    /\ \A e \in Exec : WF_vars(ExecStep(e))

FairSpec == Spec /\ Fairness

-------------------------------------------------------------------------------
(***************************************************************************)
(* Properties.                                                             *)
(***************************************************************************)

Running(o) == {e \in Exec : on[e] = o /\ pc[e] = "running"}

\* A queued row carries a lease exactly while it is claimed, running or asked
\* to cancel, and the lease is that of the living process: what requireAttention
\* relies on when it matches a row by its lease owner alone.
LeaseDiscipline ==
    \A o \in Op :
        /\ leaseOwner[o] # 0 <=> Queued(o) /\ status[o] \in Leased
        /\ leaseOwner[o] # 0 => leaseOwner[o] = boot \/ o \in interrupted

\* The claim never lets more than MaxClaimed leases live, although it counts
\* with a clock reading that may be old and heartbeats extend leases meanwhile.
LiveLeasesBounded == Cardinality(LiveLeases(0)) <= MaxClaimed

\* A queued row past its deadline.
PastDeadline(o) == Queued(o) /\ deadlineLeft[o] <= 0

\* A finished operation stays as it finished, whatever late finalizer, owner,
\* cancellation or recovery still reaches its row, but for one case: a recovery
\* that has read a row before the first poll expired it reopens it, since it
\* writes by id (onModuleInit).  What succeeded or was cancelled is final.
TerminalIsFinal ==
    [][\A o \in Op : status[o] \in Terminal /\ status'[o] # status[o] =>
          /\ o \in interrupted /\ PastDeadline(o)
          /\ status[o] = "FAILED" /\ status'[o] = "RECOVERING"]_vars

\* A lock row goes only in a step after which its owner is finished
\* (api/prisma/schema.prisma, OperationLock).
LocksOutliveOwner ==
    [][\A x \in Resource :
          locks[x] # None /\ locks'[x] # locks[x] => status'[locks[x]] \in Terminal]_vars

\* While an operation may still have effects, or waits for an operator, it holds
\* every lock of the scope it began with.  Only a row that waits to be expired
\* may be without them: one that a recovery has reopened after its deadline.
LockCoverage ==
    \A o \in Op :
        status[o] \in LockHolding /\ ~(status[o] = "RECOVERING" /\ PastDeadline(o)) =>
            LockSpecs(req[o], parent[o]) \subseteq Held(o)

\* Site-wide operations exclude the domain and database operations of the site,
\* but for their own children.
SiteExclusion ==
    \A s \in Site, x \in Nested :
        LET o == locks[s]  q == locks[x]
        IN  SiteOf[x] = s /\ o \in Op /\ q \in Op /\ o # q /\ status[q] \in LockHolding
                => parent[q] = o

\* Work whose policy is MANUAL is executed once: no second execution of it is
\* ever alive, and it never waits in the queue again after its claim.
ManualRunsOnce ==
    \A o \in Op : Queued(o) /\ req[o].policy = "MANUAL" =>
        /\ Cardinality(Running(o)) <= 1
        /\ attempt[o] <= 1
        /\ attempt[o] = 1 => status[o] \notin {"QUEUED", "RECOVERING"}

\* The admission limits bound the queue at all times, not only at admission.
QueueBounded ==
    LET inQueue == {o \in Op : Queued(o) /\ status[o] \in InQueue}
    IN  /\ Cardinality(inQueue) <= MaxQueuedPerTarget
        /\ \A u \in User :
              Cardinality({o \in inQueue : req[o].user = u}) <= MaxQueuedPerActor

\* The cancellation outcome a user reads is true: a cancelled operation was
\* asked to cancel, and one that succeeded says whether a request came too late.
CancelOutcomeTrue ==
    \A o \in Op :
        /\ status[o] = "CANCELLED" => cancelRequested[o] /\ cancelOutcome[o] = "CANCELLED"
        /\ Queued(o) /\ status[o] = "SUCCEEDED" =>
              (cancelOutcome[o] = "TOO_LATE" <=> cancelRequested[o])

\* No inline operation is under way on a site while a backup of the site is
\* active, unless it has been asked to cancel: reserveSiteBackupRows does not
\* look at such an operation, though it may still be at work (BackupExcludesWork).
BackupExcludesInline ==
    \A s \in backup, o \in Op :
        ~Queued(o) /\ status[o] \in {"PENDING", "RUNNING"} =>
            site[o] # s /\ locks[s] # o

\* Locks without a living owner are left only by a deadline expiry that was cut
\* short between its two statements.
OrphansAreExpired ==
    \A x \in Resource : locks[x] \in Op =>
        \/ status[locks[x]] \in LockHolding
        \/ status[locks[x]] = "FAILED" /\ Queued(locks[x])
             /\ deadlineLeft[locks[x]] <= 0

\* Queued work settles: whatever fails, is cancelled or restarts, an admitted
\* operation ends or is handed to an operator.
QueuedWorkSettles ==
    \A o \in Op :
        Queued(o) ~> status[o] \in Terminal \cup {"NEEDS_ATTENTION"}

-------------------------------------------------------------------------------
(***************************************************************************)
(* What the documents and tests of the repository say and the code does    *)
(* not keep.                                                               *)
(***************************************************************************)

\* Lost work becomes NEEDS_ATTENTION and keeps its locks: an operation that is
\* failed for its deadline, "before execution" in the words of maintainQueue,
\* has no handler at work.
ExpiredBeforeExecution == pollPc = "unlock" => Running(pollOp) = {}

\* Lost work becomes NEEDS_ATTENTION: after a restart no inline operation is
\* left in an executing status.
InterruptedNeedsAttention ==
    \A o \in Op : ~Queued(o) /\ owner[o] = "none" /\ status[o] \in Executing
                    => o \in interrupted

\* A site backup and a mutating site operation cannot run together: no handler
\* of a queued operation and no owner of an inline one is at work on the site.
BackupExcludesWork ==
    \A s \in backup, o \in Op :
        site[o] = s => Running(o) = {} /\ ~(owner[o] = "running" /\ status[o] \in Executing)
===============================================================================
