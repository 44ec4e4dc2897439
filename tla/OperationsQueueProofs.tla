------------------------- MODULE OperationsQueueProofs -------------------------
(***************************************************************************)
(* Theorems about the queue of OperationsWorker: the limits on leases and  *)
(* on admitted work hold at all times, MANUAL work is executed once, what  *)
(* a user reads of a cancellation is true, and locks without a living      *)
(* owner come from an expiry only.  Unless a theorem says so, it does not  *)
(* depend on recovery coming before the first poll.                        *)
(***************************************************************************)
EXTENDS OperationsSafetyProofs, FiniteSetTheorems

-------------------------------------------------------------------------------
(***************************************************************************)
(* Locks without a living owner.                                           *)
(***************************************************************************)

\* The inductive invariant behind OrphansAreExpired.
OrphanInv == LeaseInv /\ OrphansAreExpired

\* A statement that ends an operation deletes its locks, but for the expiry of
\* a deadline.
LEMMA StatementKeepsOrphans ==
    ASSUME OrphanInv, Statement
    PROVE  OrphansAreExpired'
  <1>0. None \notin Op /\ boot # 0 /\ "FREE" \notin LockHolding
    BY OpsNumbered DEF OrphanInv, LeaseInv, TypeOK, ProcTypeOK, LockHolding, Executing
  <1>. USE <1>0 DEF OrphanInv, LeaseInv, TypeOK, StoreTypeOK, OrphansAreExpired, Queued,
                    rowVars, leaseVars, cancelVars
  <1>1. ASSUME NEW o \in Op, NEW r \in Request, NEW p \in Op \cup {None}, Begin(o, r, p)
        PROVE  OrphansAreExpired'
    <2>1. status'[o] \in LockHolding
      BY <1>1 DEF Begin, LockHolding, Executing
    <2>2. \A x \in Resource : locks[x] # o
      BY <1>1 DEF Begin
    <2>. QED
      BY <1>1, <2>1, <2>2 DEF Begin
  <1>2. ASSUME NEW o \in Op, NEW s \in Site, NEW d \in Domain \cup {None},
               AttachScope(o, s, d)
        PROVE  OrphansAreExpired'
    BY <1>2 DEF AttachScope, LockHolding
  <1>3. ASSUME NEW s \in Site, ReserveBackup(s) \/ FinishBackup(s)
        PROVE  OrphansAreExpired'
    BY <1>3 DEF ReserveBackup, FinishBackup
  <1>4. ASSUME NEW o \in Op, OwnerStatement(o)
        PROVE  OrphansAreExpired'
    <2>1. CASE Start(o)
      BY <2>1 DEF Start, LockHolding, Executing
    <2>2. CASE Succeed(o)
      BY <2>2 DEF Succeed, Release
    <2>3. CASE Fail(o)
      BY <2>3 DEF Fail, Release, Children
    <2>. QED
      BY <1>4, <2>1, <2>2, <2>3 DEF OwnerStatement
  <1>5. ASSUME NEW o \in Op, CancelWaiting(o) \/ CancelRunning(o)
        PROVE  OrphansAreExpired'
    <2>1. CASE CancelWaiting(o)
      BY <2>1 DEF CancelWaiting, Release
    <2>2. CASE CancelRunning(o)
      BY <2>2 DEF CancelRunning, LockHolding, Executing
    <2>. QED
      BY <1>5, <2>1, <2>2
  <1>6. ASSUME NEW o \in Op, ClaimRow(o, boot, pollAge)
        PROVE  OrphansAreExpired'
    BY <1>6 DEF ClaimRow, LockHolding, Executing
  <1>7. ASSUME NEW o \in Op, Maintenance(o, pollAge)
        PROVE  OrphansAreExpired'
    <2>1. CASE LoseLease(o, pollAge)
      BY <2>1 DEF LoseLease, LockHolding, Executing
    <2>2. CASE ExpireRow(o, pollAge)
      <3>1. deadlineLeft[o] <= 0
        BY <2>2, BoundsAreNaturals DEF ExpireRow, DeadlinePassed, ProcTypeOK
      <3>. QED
        BY <2>2, <3>1 DEF ExpireRow, DeadlinePassed
    <2>3. CASE ExhaustRow(o)
      BY <2>3 DEF ExhaustRow, LockHolding
    <2>4. CASE DropLocks(o)
      BY <2>4 DEF DropLocks, Release
    <2>. QED
      BY <1>7, <2>1, <2>2, <2>3, <2>4 DEF Maintenance
  <1>8. ASSUME NEW o \in Op, StartClaimed(o, boot) \/ HeartbeatClaim(o, boot)
        PROVE  OrphansAreExpired'
    BY <1>8 DEF StartClaimed, HeartbeatClaim, LockHolding, Executing
  <1>9. ASSUME NEW o \in Op, NEW n \in Nat, Finalizer(o, n)
        PROVE  OrphansAreExpired'
    <2>1. PICK s, outcome :
              Settle(o, s, outcome) /\ s \in Terminal \cup {"QUEUED", "NEEDS_ATTENTION"}
      BY <1>9 DEF Finalizer, SucceedClaimed, FailClaimed, CancelClaimed,
                  RetryOrRequireAttention, RequireAttention, Terminal
    <2>2. CASE s \in Terminal
      BY <2>1, <2>2 DEF Settle, Release
    <2>3. CASE s \in {"QUEUED", "NEEDS_ATTENTION"}
      BY <2>1, <2>3 DEF Settle, LockHolding, Executing, Terminal
    <2>. QED
      BY <2>1, <2>2, <2>3
  <1>10. CASE Recover
    BY <1>10 DEF Recover, RecoverRows, LockHolding, Executing
  <1>11. CASE Elapse
    BY <1>11, BoundsAreNaturals DEF Elapse
  <1>12. CASE UNCHANGED storeVars
    BY <1>12 DEF storeVars
  <1>. QED
    BY <1>1, <1>2, <1>3, <1>4, <1>5, <1>6, <1>7, <1>8, <1>9, <1>10, <1>11, <1>12
       DEF Statement

\* OrphanInv holds throughout.
LEMMA OrphanInvariance == Spec => []OrphanInv
  <1>1. Init => OrphanInv
    BY LeaseInit, OpsNumbered DEF OrphanInv, OrphansAreExpired, Init, StoreInit
  <1>2. OrphanInv /\ [Next]_vars => OrphanInv'
    BY LeaseStep, StepIsStatement, StatementKeepsOrphans DEF OrphanInv, LeaseInv
  <1>. QED
    BY <1>1, <1>2, PTL DEF Spec

\* A lock without a living owner is left behind by one thing only: a deadline
\* expiry of queued work, whose two statements (the UPDATE and the DELETE of the
\* lock rows) are not one transaction.  Nothing else leaks a lock.
THEOREM OrphansOnlyByExpiry == Spec => []OrphansAreExpired
  BY OrphanInvariance, PTL DEF OrphanInv

-------------------------------------------------------------------------------
(***************************************************************************)
(* How the poll and the executions move: an execution keeps its operation  *)
(* until it ends, and starts with the row that the poll has claimed.       *)
(***************************************************************************)

\* A busy execution was busy with the same operation, or has just been given
\* the row that the poll had loaded, which the poll then forgets.
ExecsMove ==
    \A e \in Exec : pc'[e] # "idle" =>
        \/ pc[e] # "idle" /\ on'[e] = on[e]
        \/ /\ pollPc = "load" /\ on'[e] = pollOp /\ pc[e] = "idle" /\ pollPc' = "idle"
           /\ pc'[e] # "cancelling" /\ \A f \in Exec \ {e} : pc'[f] = pc[f]

\* An execution turns to cancelling only on a request it has read in the row.
CancelsMove ==
    \A e \in Exec : pc'[e] = "cancelling" =>
        on'[e] = on[e] /\ (pc[e] = "cancelling" \/ cancelRequested[on[e]])

\* The poll loads a row only by claiming it.
LoadsMove ==
    pollPc' = "load" =>
        \/ pollPc = "load" /\ pollOp' = pollOp
        \/ pollOp' \in Op /\ ClaimRow(pollOp', boot, pollAge)
           /\ UNCHANGED <<pc, on>>

\* Every step moves the poll and the executions in these ways.
LEMMA ProcessMoves ==
    ASSUME TypeOK, [Next]_vars
    PROVE  ExecsMove /\ CancelsMove /\ LoadsMove
  <1>. DEFINE Goal == ExecsMove /\ CancelsMove /\ LoadsMove
  <1>. USE DEF ExecsMove, CancelsMove, LoadsMove
  <1>1. CASE UNCHANGED <<pollPc, pollOp, pc, on>>
    BY <1>1
  <1>2. CASE Caller \/ \E o \in Op : OwnerStep(o)
    <2>1. UNCHANGED <<pollPc, pollOp, pc, on>>
      BY <1>2 DEF Caller, BeginOperation, OwnerAttaches, RequestCancellation,
                  BackupStarts, BackupEnds, OwnerStep, OwnerStarts, OwnerSucceeds,
                  OwnerFails, OwnerGivesUp, procVars, pollVars, execVars
    <2>. QED
      BY <1>1, <2>1
  <1>3. CASE PollStep \/ PollFails
    <2>1. ASSUME NEW e \in Exec, PollExecutes(e)
          PROVE  Goal
      <3>1. /\ pc[e] = "idle" /\ pollPc = "load" /\ pollPc' = "idle"
            /\ pc' = [pc EXCEPT ![e] = IF ready THEN "starting" ELSE "unhandled"]
            /\ on' = [on EXCEPT ![e] = pollOp]
        BY <2>1 DEF PollExecutes, PollEnds
      <3>2. pc \in [Exec -> ExecPc] /\ on \in [Exec -> Op \cup {None}]
        BY DEF TypeOK, ProcTypeOK
      <3>. QED
        BY <3>1, <3>2
    <2>2. ASSUME NEW o \in Op, PollClaims(o)
          PROVE  Goal
      BY <2>2 DEF PollClaims, execVars
    <2>3. CASE \/ PollStarts \/ MaintainUnlock \/ MaintainNext \/ PollFindsNothing
               \/ PollRejectsPayload \/ PollFails
      BY <2>3 DEF PollStarts, MaintainUnlock, MaintainNext, PollFindsNothing,
                  PollRejectsPayload, PollFails, PollEnds, execVars
    <2>4. ASSUME NEW row \in batch,
                 MaintainLease(row) \/ MaintainDeadline(row) \/ MaintainAttempts(row)
          PROVE  Goal
      BY <2>4 DEF MaintainLease, MaintainDeadline, MaintainAttempts, execVars
    <2>. QED
      BY <1>3, <2>1, <2>2, <2>3, <2>4 DEF PollStep
  <1>4. ASSUME NEW e \in Exec, ExecStep(e) \/ ExecHeartbeat(e)
        PROVE  Goal
    <2>1. pc \in [Exec -> ExecPc] /\ on \in [Exec -> Op \cup {None}]
      BY DEF TypeOK, ProcTypeOK
    <2>2. pollPc' = pollPc /\ pollOp' = pollOp
      BY <1>4 DEF ExecStep, ExecHeartbeat, ExecStarts, HandlerReturns, HandlerThrows,
             ExecSucceeds, ExecChecksCancel, ExecFails, ExecCancels, ExecRetries,
             ExecRequiresAttention, ExecGivesUp, Ends, MovesTo, pollVars
    <2>3. CASE Ends(e)
      BY <2>1, <2>2, <2>3 DEF Ends
    <2>4. ASSUME NEW l, MovesTo(e, l), pc[e] # "idle",
                 l = "cancelling" => cancelRequested[on[e]]
          PROVE  Goal
      BY <2>1, <2>2, <2>4 DEF MovesTo
    <2>5. CASE ExecStarts(e) \/ HandlerReturns(e) \/ ExecSucceeds(e)
      BY <2>3, <2>4, <2>5 DEF ExecStarts, HandlerReturns, ExecSucceeds
    <2>6. CASE HandlerThrows(e)
      BY <2>4, <2>6 DEF HandlerThrows, CancellationSeen
    <2>7. CASE ExecChecksCancel(e)
      BY <2>4, <2>7 DEF ExecChecksCancel, CancellationSeen
    <2>8. CASE ExecFails(e) \/ ExecCancels(e) \/ ExecRetries(e)
               \/ ExecRequiresAttention(e) \/ ExecGivesUp(e)
      BY <2>3, <2>8 DEF ExecFails, ExecCancels, ExecRetries, ExecRequiresAttention,
                        ExecGivesUp
    <2>9. CASE ExecHeartbeat(e)
      BY <1>1, <2>2, <2>9 DEF ExecHeartbeat
    <2>. QED
      BY <1>4, <2>5, <2>6, <2>7, <2>8, <2>9 DEF ExecStep
  <1>5. CASE Restart
    BY <1>5 DEF Restart, PollEnds
  <1>6. CASE Recover \/ HandlersRegister \/ Tick \/ UNCHANGED vars
    <2>1. UNCHANGED <<pollPc, pollOp, pc, on>>
      BY <1>6 DEF Recover, HandlersRegister, Tick, vars, procVars, pollVars, execVars
    <2>. QED
      BY <1>1, <2>1
  <1>. QED
    BY <1>2, <1>3, <1>4, <1>5, <1>6 DEF Next

-------------------------------------------------------------------------------
(***************************************************************************)
(* Cancellation.                                                           *)
(***************************************************************************)

\* The catch block of execute() and a handler's OperationCancelledError rest on
\* a request that stands in the row.
CancelsAreAsked == \A e \in Exec : pc[e] = "cancelling" => cancelRequested[on[e]]

\* The inductive invariant behind CancelOutcomeTrue.
CancelInv == LeaseInv /\ CancelsAreAsked /\ CancelOutcomeTrue

\* No statement takes a cancellation request back.
RequestsStay == \A o \in Op : cancelRequested[o] => cancelRequested'[o]

\* Statements that end an operation write the outcome that fits the request.
LEMMA StatementKeepsOutcome ==
    ASSUME CancelInv, Statement
    PROVE  CancelOutcomeTrue' /\ RequestsStay
  <1>. DEFINE Goal == CancelOutcomeTrue' /\ RequestsStay
  <1>0. boot # 0
    BY DEF CancelInv, LeaseInv, TypeOK, ProcTypeOK
  <1>. USE DEF CancelInv, LeaseInv, TypeOK, StoreTypeOK, CancelOutcomeTrue, RequestsStay,
               Queued, rowVars, leaseVars, cancelVars
  <1>1. ASSUME NEW o \in Op, NEW r \in Request, NEW p \in Op \cup {None}, Begin(o, r, p)
        PROVE  Goal
    BY <1>1 DEF Begin
  <1>2. ASSUME NEW o \in Op, OwnerStatement(o)
        PROVE  Goal
    <2>1. ~Queued(o)
      BY <1>2 DEF OwnerStatement, Owners
    <2>2. CASE Start(o)
      BY <2>2 DEF Start
    <2>3. CASE Succeed(o)
      BY <2>1, <2>3 DEF Succeed
    <2>4. CASE Fail(o)
      BY <2>4 DEF Fail
    <2>. QED
      BY <1>2, <2>2, <2>3, <2>4 DEF OwnerStatement
  <1>3. ASSUME NEW o \in Op, CancelWaiting(o) \/ CancelRunning(o)
        PROVE  Goal
    BY <1>3 DEF CancelWaiting, CancelRunning
  <1>4. ASSUME NEW o \in Op,
               ClaimRow(o, boot, pollAge) \/ Maintenance(o, pollAge)
        PROVE  Goal
    BY <1>4 DEF ClaimRow, Maintenance, LoseLease, ExpireRow, ExhaustRow, DropLocks
  <1>5. ASSUME NEW o \in Op, StartClaimed(o, boot) \/ HeartbeatClaim(o, boot)
        PROVE  Goal
    BY <1>5 DEF StartClaimed, HeartbeatClaim
  <1>6. ASSUME NEW o \in Op, NEW n \in Nat, Finalizer(o, n)
        PROVE  Goal
    <2>1. leaseOwner[o] = boot
      BY <1>6 DEF Finalizer, SucceedClaimed, FailClaimed, CancelClaimed, Finishable,
                  OwnsLease, RetryOrRequireAttention, RequireAttention
    <2>2. status[o] \in Leased
      BY <1>0, <2>1 DEF LeaseDiscipline
    <2>3. CASE SucceedClaimed(o, boot)
      BY <2>2, <2>3 DEF SucceedClaimed, Settle, Leased
    <2>4. CASE Cancels(o) /\ CancelClaimed(o, boot)
      <3>1. cancelRequested[o]
        BY <2>4 DEF Cancels, CancelsAreAsked
      <3>. QED
        BY <2>4, <3>1 DEF CancelClaimed, Settle
    <2>5. CASE \/ FailClaimed(o, boot) \/ RetryOrRequireAttention(o, boot, n)
               \/ RequireAttention(o, boot)
      BY <2>5 DEF FailClaimed, RetryOrRequireAttention, RequireAttention, Settle
    <2>. QED
      BY <1>6, <2>3, <2>4, <2>5 DEF Finalizer
  <1>7. CASE Recover
    BY <1>7 DEF Recover, RecoverRows
  <1>8. CASE \/ \E o \in Op, s \in Site, d \in Domain \cup {None} : AttachScope(o, s, d)
             \/ \E s \in Site : ReserveBackup(s) \/ FinishBackup(s)
             \/ Elapse \/ UNCHANGED storeVars
    <2>1. UNCHANGED <<status, req, cancelRequested, cancelOutcome>>
      BY <1>8 DEF AttachScope, ReserveBackup, FinishBackup, Elapse, storeVars
    <2>. QED
      BY <2>1
  <1>. QED
    BY <1>1, <1>2, <1>3, <1>4, <1>5, <1>6, <1>7, <1>8 DEF Statement

\* What a user reads of a cancellation is true: an operation that ends as
\* cancelled was asked to, although the execution reads the request in one
\* statement and finalizes in a later one, and one that succeeded says whether
\* a request came too late.
THEOREM CancellationsAreTrue == Spec => []CancelOutcomeTrue
  <1>1. Init => CancelInv
    BY LeaseInit DEF CancelInv, CancelsAreAsked, CancelOutcomeTrue, Init, StoreInit
  <1>2. ASSUME CancelInv, [Next]_vars
        PROVE  CancelInv'
    <2>1. LeaseInv' /\ CancelOutcomeTrue' /\ RequestsStay
      BY <1>2, LeaseStep, StepIsStatement, StatementKeepsOutcome DEF CancelInv, LeaseInv
    <2>2. CancelsMove /\ Focus'
      BY <1>2, <2>1, ProcessMoves DEF CancelInv, LeaseInv
    <2>3. CancelsAreAsked'
      BY <1>2, <2>1, <2>2 DEF CancelInv, CancelsAreAsked, CancelsMove, RequestsStay, Focus
    <2>. QED
      BY <2>1, <2>3 DEF CancelInv
  <1>3. CancelInv => CancelOutcomeTrue
    BY DEF CancelInv
  <1>. QED
    BY <1>1, <1>2, <1>3, PTL DEF Spec

-------------------------------------------------------------------------------
(***************************************************************************)
(* The table is finite at all times, however many operations may still be  *)
(* begun: the counts in claimNext and begin() are natural numbers.         *)
(***************************************************************************)

\* The rows of the table.
Rows == {o \in Op : status[o] # "FREE"}

\* Recovery has read rows of the table only.
TableFinite == IsFiniteSet(Rows) /\ interrupted \subseteq Rows

\* The inductive invariant behind the theorems on counts.
CountInv == LeaseInv /\ TableFinite

\* A statement adds one row at most.
LEMMA StatementAddsOne ==
    ASSUME CountInv, Statement
    PROVE  \E o \in Op \cup {None} : Rows' \subseteq Rows \cup {o}
  <1>. DEFINE Goal == \E o \in Op \cup {None} : Rows' \subseteq Rows \cup {o}
  <1>0. boot # 0 /\ status \in [Op -> Status]
    BY DEF CountInv, LeaseInv, TypeOK, StoreTypeOK, ProcTypeOK
  <1>. USE <1>0 DEF Rows
  <1>1. ASSUME \A o \in Op : status[o] = "FREE" => status'[o] = "FREE"
        PROVE  Goal
    BY <1>1
  <1>2. ASSUME NEW o \in Op, \A q \in Op \ {o} : status'[q] = status[q]
        PROVE  Goal
    BY <1>2
  <1>3. ASSUME NEW o \in Op,
               \/ \E r \in Request, p \in Op \cup {None} : Begin(o, r, p)
               \/ CancelWaiting(o) \/ CancelRunning(o)
               \/ ClaimRow(o, boot, pollAge) \/ Maintenance(o, pollAge)
               \/ StartClaimed(o, boot) \/ Start(o) \/ Succeed(o)
               \/ \E n \in Nat : Finalizer(o, n)
        PROVE  Goal
    <2>1. CASE \E n \in Nat : Finalizer(o, n)
      <3>1. PICK s, outcome : Settle(o, s, outcome)
        BY <2>1 DEF Finalizer, SucceedClaimed, FailClaimed, CancelClaimed,
                    RetryOrRequireAttention, RequireAttention
      <3>. QED
        BY <1>2, <3>1 DEF Settle
    <2>. QED
      BY <1>2, <1>3, <2>1 DEF Begin, CancelWaiting, CancelRunning, ClaimRow, Maintenance,
           LoseLease, ExpireRow, ExhaustRow, DropLocks, StartClaimed, Start, Succeed
  <1>4. ASSUME NEW o \in Op, OwnerStatement(o)
        PROVE  Goal
    BY <1>1, <1>3, <1>4 DEF OwnerStatement, Fail, Children, LockHolding, Executing
  <1>5. CASE Recover
    <2>1. \A o \in Op : status[o] = "FREE" => o \notin interrupted
      BY DEF CountInv, TableFinite
    <2>. QED
      BY <1>1, <1>5, <2>1 DEF Recover, RecoverRows
  <1>6. CASE \/ \E o \in Op, s \in Site, d \in Domain \cup {None} : AttachScope(o, s, d)
             \/ \E s \in Site : ReserveBackup(s) \/ FinishBackup(s)
             \/ \E o \in Op : HeartbeatClaim(o, boot)
             \/ Elapse \/ UNCHANGED storeVars
    BY <1>1, <1>6 DEF AttachScope, ReserveBackup, FinishBackup, HeartbeatClaim, Elapse,
                      storeVars
  <1>. QED
    BY <1>3, <1>4, <1>5, <1>6 DEF Statement

\* The table stays finite.
LEMMA CountStep ==
    ASSUME CountInv, [Next]_vars
    PROVE  CountInv'
  <1>1. LeaseInv' /\ Statement
    BY LeaseStep, StepIsStatement DEF CountInv, LeaseInv
  <1>2. IsFiniteSet(Rows')
    <2>1. PICK o \in Op \cup {None} : Rows' \subseteq Rows \cup {o}
      BY <1>1, StatementAddsOne
    <2>2. IsFiniteSet(Rows \cup {o})
      BY FS_AddElement DEF CountInv, TableFinite
    <2>. QED
      BY <2>1, <2>2, FS_Subset
  <1>3. RowsStay
    BY <1>1, StatementKeepsRows DEF CountInv, LeaseInv, LeaseDiscipline, LeaseMatchesStatus
  <1>4. (interrupted \subseteq Rows)'
    <2>1. CASE Restart
      BY <2>1 DEF Restart, storeVars, Interrupted, Rows, Leased
    <2>2. CASE Recover
      BY <2>2 DEF Recover
    <2>3. CASE interrupted' = interrupted
      BY <1>3, <2>3 DEF CountInv, TableFinite, Rows, RowsStay
    <2>. QED
      BY <2>1, <2>2, <2>3, BootsMove
  <1>. QED
    BY <1>1, <1>2, <1>4 DEF CountInv, TableFinite

\* The table is empty at first.
LEMMA CountInit == Init => CountInv
  <1>1. Init => Rows = {} /\ interrupted = {}
    BY DEF Init, StoreInit, Rows
  <1>. QED
    BY <1>1, LeaseInit, FS_EmptySet DEF CountInv, TableFinite

-------------------------------------------------------------------------------
(***************************************************************************)
(* Live leases.                                                            *)
(***************************************************************************)

\* The leases that live by the clock of now.
Live == LiveLeases(0)

\* A lease that lives now lives by every older reading of the clock too.
LEMMA OlderClockSeesMore ==
    ASSUME TypeOK, NEW age \in 0..MaxPollAge
    PROVE  Live \subseteq LiveLeases(age)
  BY BoundsAreNaturals DEF Live, LiveLeases, TypeOK, StoreTypeOK

\* A statement revives no lease; only a claim adds one.
LEMMA StatementKeepsLive ==
    ASSUME LeaseInv, Statement
    PROVE  \/ Live' \subseteq Live
           \/ \E o \in Op :
                  CapacityLeft(pollAge) /\ Live' \subseteq Live \cup {o}
  <1>. DEFINE Goal == Live' \subseteq Live
  <1>0. boot # 0
    BY DEF LeaseInv, TypeOK, ProcTypeOK
  <1>. USE DEF LeaseInv, TypeOK, StoreTypeOK, Live, LiveLeases, Queued, Leased, rowVars,
               leaseVars, cancelVars
  <1>1. ASSUME NEW o \in Op, NEW r \in Request, NEW p \in Op \cup {None}, Begin(o, r, p)
        PROVE  Goal
    BY <1>1 DEF Begin
  <1>2. ASSUME NEW o \in Op, OwnerStatement(o)
        PROVE  Goal
    BY <1>2 DEF OwnerStatement, Owners, Start, Succeed, Fail
  <1>3. ASSUME NEW o \in Op, CancelWaiting(o) \/ CancelRunning(o)
        PROVE  Goal
    BY <1>3 DEF CancelWaiting, CancelRunning
  <1>4. ASSUME NEW o \in Op, ClaimRow(o, boot, pollAge)
        PROVE  CapacityLeft(pollAge) /\ Live' \subseteq Live \cup {o}
    BY <1>4 DEF ClaimRow, SetLease
  <1>5. ASSUME NEW o \in Op, Maintenance(o, pollAge)
        PROVE  Goal
    BY <1>5 DEF Maintenance, LoseLease, SetLease, ExpireRow, ExhaustRow, DropLocks
  <1>6. ASSUME NEW o \in Op, StartClaimed(o, boot) \/ HeartbeatClaim(o, boot)
        PROVE  Goal
    <2>1. Queued(o)
      BY <1>0, <1>6 DEF StartClaimed, HeartbeatClaim, Renewable, LeaseDiscipline
    <2>. QED
      BY <1>6, <2>1 DEF StartClaimed, HeartbeatClaim, Renewable, SetLease
  <1>7. ASSUME NEW o \in Op, NEW n \in Nat, Finalizer(o, n)
        PROVE  Goal
    <2>1. PICK s, outcome :
              Settle(o, s, outcome) /\ s \in Terminal \cup {"QUEUED", "NEEDS_ATTENTION"}
      BY <1>7 DEF Finalizer, SucceedClaimed, FailClaimed, CancelClaimed,
                  RetryOrRequireAttention, RequireAttention, Terminal
    <2>. QED
      BY <2>1 DEF Settle, SetLease, Terminal
  <1>8. CASE Recover
    BY <1>8 DEF Recover, RecoverRows
  <1>9. CASE Elapse
    BY <1>9, BoundsAreNaturals DEF Elapse
  <1>10. CASE \/ \E o \in Op, s \in Site, d \in Domain \cup {None} : AttachScope(o, s, d)
              \/ \E s \in Site : ReserveBackup(s) \/ FinishBackup(s)
              \/ UNCHANGED storeVars
    <2>1. UNCHANGED <<status, req, leaseLeft>>
      BY <1>10 DEF AttachScope, ReserveBackup, FinishBackup, storeVars
    <2>. QED
      BY <2>1
  <1>. QED
    BY <1>1, <1>2, <1>3, <1>4, <1>5, <1>6, <1>7, <1>8, <1>9, <1>10 DEF Statement

\* There are never more live leases than MaxClaimed: the claim counts with a
\* clock reading that may be old, heartbeats extend leases meanwhile and the
\* clock moves on, but an old reading only counts more leases as living.
THEOREM LeasesBounded == Spec => []LiveLeasesBounded
  <1>. DEFINE Inv == CountInv /\ LiveLeasesBounded
  <1>1. Init => Inv
    <2>1. Init => LiveLeases(0) = {}
      BY DEF Init, StoreInit, LiveLeases, Leased
    <2>. QED
      BY <2>1, CountInit, FS_EmptySet, BoundsAreNaturals DEF LiveLeasesBounded
  <1>2. ASSUME Inv, [Next]_vars
        PROVE  Inv'
    <2>1. CountInv' /\ Statement
      BY <1>2, CountStep, StepIsStatement DEF CountInv, LeaseInv
    <2>2. \A age \in 0..MaxPollAge : LiveLeases(age) \subseteq Rows
      BY DEF LiveLeases, Rows, Leased
    <2>3. \A age \in 0..MaxPollAge : IsFiniteSet(LiveLeases(age))
      BY <1>2, <2>2, FS_Subset DEF CountInv, TableFinite
    <2>4. IsFiniteSet(Live) /\ Cardinality(Live) \in Nat
      BY <2>3, FS_CardinalityType, BoundsAreNaturals DEF Live
    <2>5. ASSUME NEW o \in Op, CapacityLeft(pollAge),
                 Live' \subseteq Live \cup {o}
          PROVE  Cardinality(Live') <= MaxClaimed
      <3>0. pollAge \in 0..MaxPollAge
        BY <1>2 DEF CountInv, LeaseInv, TypeOK, ProcTypeOK
      <3>1. Cardinality(Live) <= Cardinality(LiveLeases(pollAge))
        BY <1>2, <2>3, <3>0, OlderClockSeesMore, FS_Subset DEF CountInv, LeaseInv
      <3>2. /\ IsFiniteSet(Live \cup {o})
            /\ Cardinality(Live \cup {o}) <= Cardinality(Live) + 1
        BY <2>4, FS_AddElement
      <3>3. /\ Cardinality(Live') <= Cardinality(Live \cup {o})
            /\ Cardinality(Live') \in Nat /\ Cardinality(Live \cup {o}) \in Nat
        BY <2>5, <3>2, FS_Subset, FS_CardinalityType
      <3>4. Cardinality(LiveLeases(pollAge)) \in Nat /\ MaxClaimed \in Nat
        BY <2>3, <3>0, FS_CardinalityType, BoundsAreNaturals
      <3>. QED
        BY <2>4, <2>5, <3>1, <3>2, <3>3, <3>4 DEF CapacityLeft
    <2>6. CASE Live' \subseteq Live
      <3>1. Cardinality(Live') <= Cardinality(Live) /\ Cardinality(Live') \in Nat
        BY <2>4, <2>6, FS_Subset, FS_CardinalityType
      <3>. QED
        BY <1>2, <2>1, <2>4, <3>1, BoundsAreNaturals DEF LiveLeasesBounded, Live
    <2>. QED
      BY <1>2, <2>1, <2>5, <2>6, StatementKeepsLive DEF CountInv, LiveLeasesBounded, Live
  <1>. QED
    BY <1>1, <1>2, PTL DEF Spec

-------------------------------------------------------------------------------
(***************************************************************************)
(* Admission.                                                              *)
(***************************************************************************)

\* The queued work that admission counts; with it, the work that the recovery
\* may return to the queue; and that of one user.
Counted == {o \in Op : Queued(o) /\ status[o] \in InQueue}
Admitted == Counted \cup {o \in interrupted : Queued(o)}
AdmittedOf(u) == {o \in Admitted : req[o].user = u}

\* Work enters the queue through begin() and an open admission only: a retry, a
\* lost lease and a recovery return work that was admitted all the time.
LEMMA StatementKeepsCounted ==
    ASSUME OverlapInv, Statement
    PROVE  \/ Counted' \subseteq Admitted
           \/ \E o \in Op :
                 /\ ready /\ status[o] = "FREE" /\ AdmissionOpen(req'[o].user)
                 /\ Counted' \subseteq Admitted \cup {o}
  <1>. DEFINE Goal == Counted' \subseteq Admitted
  <1>0. boot # 0
    BY DEF OverlapInv, LeaseInv, TypeOK, ProcTypeOK
  <1>. USE DEF OverlapInv, LeaseInv, TypeOK, StoreTypeOK, Counted, Admitted, Queued,
               InQueue, Leased, rowVars, leaseVars, cancelVars
  <1>1. ASSUME NEW o \in Op, NEW r \in Request, NEW p \in Op \cup {None}, Begin(o, r, p)
        PROVE  \/ Counted' \subseteq Admitted
               \/ /\ status[o] = "FREE" /\ AdmissionOpen(req'[o].user)
                  /\ Counted' \subseteq Admitted \cup {o}
    <2>1. req'[o] = r
      BY <1>1 DEF Begin
    <2>2. Counted' \subseteq Admitted \cup {o}
      BY <1>1 DEF Begin
    <2>3. CASE r.mode = "QUEUED"
      BY <1>1, <2>1, <2>2, <2>3 DEF Begin
    <2>4. CASE r.mode # "QUEUED"
      <3>1. o \notin Counted'
        BY <2>1, <2>4
      <3>. QED
        BY <2>2, <3>1
    <2>. QED
      BY <2>3, <2>4
  <1>2. ASSUME NEW o \in Op, OwnerStatement(o)
        PROVE  Goal
    BY <1>2 DEF OwnerStatement, Owners, Start, Succeed, Fail
  <1>3. ASSUME NEW o \in Op, CancelWaiting(o) \/ CancelRunning(o)
        PROVE  Goal
    BY <1>3 DEF CancelWaiting, CancelRunning
  <1>4. ASSUME NEW o \in Op,
               ClaimRow(o, boot, pollAge) \/ Maintenance(o, pollAge)
        PROVE  Goal
    BY <1>4 DEF ClaimRow, Claimable, Maintenance, LoseLease, LeaseLapsed, ExpireRow,
                ExhaustRow, DropLocks
  <1>5. ASSUME NEW o \in Op, StartClaimed(o, boot) \/ HeartbeatClaim(o, boot)
        PROVE  Goal
    BY <1>5 DEF StartClaimed, HeartbeatClaim
  <1>6. ASSUME NEW o \in Op, NEW n \in Nat, Finalizer(o, n)
        PROVE  Goal
    <2>1. leaseOwner[o] = boot
      BY <1>6 DEF Finalizer, SucceedClaimed, FailClaimed, CancelClaimed, Finishable,
                  OwnsLease, RetryOrRequireAttention, RequireAttention
    <2>2. o \in Admitted
      BY <1>0, <2>1 DEF LeaseDiscipline
    <2>3. PICK s, outcome : Settle(o, s, outcome)
      BY <1>6 DEF Finalizer, SucceedClaimed, FailClaimed, CancelClaimed,
                  RetryOrRequireAttention, RequireAttention
    <2>. QED
      BY <2>2, <2>3 DEF Settle
  <1>7. CASE Recover
    BY <1>7 DEF Recover, RecoverRows
  <1>8. CASE \/ \E o \in Op, s \in Site, d \in Domain \cup {None} : AttachScope(o, s, d)
             \/ \E s \in Site : ReserveBackup(s) \/ FinishBackup(s)
             \/ Elapse \/ UNCHANGED storeVars
    <2>1. UNCHANGED <<status, req>>
      BY <1>8 DEF AttachScope, ReserveBackup, FinishBackup, Elapse, storeVars
    <2>. QED
      BY <2>1
  <1>. QED
    BY <1>1, <1>2, <1>3, <1>4, <1>5, <1>6, <1>7, <1>8 DEF Statement

\* One more than fewer than n are n at most.
LEMMA OneMore ==
    ASSUME NEW S, IsFiniteSet(S), NEW x, NEW T, T \subseteq S \cup {x}, NEW n \in Nat,
           Cardinality(S) < n
    PROVE  Cardinality(T) <= n
  <1>1. /\ IsFiniteSet(S \cup {x}) /\ Cardinality(S) \in Nat
        /\ Cardinality(S \cup {x}) <= Cardinality(S) + 1
    BY FS_AddElement, FS_CardinalityType
  <1>2. IsFiniteSet(T) /\ Cardinality(T) <= Cardinality(S \cup {x})
    BY <1>1, FS_Subset
  <1>3. Cardinality(T) \in Nat /\ Cardinality(S \cup {x}) \in Nat
    BY <1>1, <1>2, FS_CardinalityType
  <1>. QED
    BY <1>1, <1>2, <1>3

\* A part of n at most is n at most.
LEMMA NoMore ==
    ASSUME NEW S, IsFiniteSet(S), NEW T, T \subseteq S, NEW n \in Nat,
           Cardinality(S) <= n
    PROVE  Cardinality(T) <= n
  <1>1. IsFiniteSet(T) /\ Cardinality(T) <= Cardinality(S)
    BY FS_Subset
  <1>2. Cardinality(T) \in Nat /\ Cardinality(S) \in Nat
    BY <1>1, FS_CardinalityType
  <1>. QED
    BY <1>1, <1>2

\* Only begin() and a restart add to the admitted work, and a restart adds
\* nothing: what it will recover is in the queue.
LEMMA AdmittedMove ==
    ASSUME OverlapInv, [Next]_vars
    PROVE  \/ Admitted' \subseteq Admitted
           \/ \E o \in Op :
                 /\ Admitted = Counted
                 /\ status[o] = "FREE" /\ AdmissionOpen(req'[o].user)
                 /\ Admitted' \subseteq Admitted \cup {o}
  <1>1. Statement
    BY StepIsStatement DEF OverlapInv, LeaseInv
  <1>2. RowsStay
    BY <1>1, StatementKeepsRows DEF OverlapInv, LeaseInv, LeaseDiscipline, LeaseMatchesStatus
  <1>3. {o \in interrupted' : Queued(o)'} \subseteq Admitted
    <2>1. CASE Restart
      BY <2>1 DEF Restart, storeVars, Interrupted, Admitted, Counted, InQueue, Queued
    <2>2. CASE Recover
      BY <2>2 DEF Recover
    <2>3. CASE interrupted' = interrupted
      <3>1. \A o \in interrupted : req'[o] = req[o]
        BY <1>2 DEF RowsStay, OverlapInv, Overlap, LeaseInv, TypeOK, ProcTypeOK
      <3>. QED
        BY <2>3, <3>1 DEF Admitted, Queued
    <2>. QED
      BY <2>1, <2>2, <2>3, BootsMove
  <1>4. Admitted' = Counted' \cup {o \in interrupted' : Queued(o)'}
    BY DEF Admitted
  <1>5. ready => Admitted = Counted
    BY DEF Admitted, OverlapInv, Overlap
  <1>6. CASE Counted' \subseteq Admitted
    BY <1>3, <1>4, <1>6
  <1>7. ASSUME NEW o \in Op, ready, status[o] = "FREE", AdmissionOpen(req'[o].user),
               Counted' \subseteq Admitted \cup {o}
        PROVE  /\ Admitted = Counted
               /\ Admitted' \subseteq Admitted \cup {o}
    BY <1>3, <1>4, <1>5, <1>7
  <1>. QED
    BY <1>1, <1>6, <1>7, StatementKeepsCounted

\* The admission limits hold at all times, although begin() is the only place
\* that looks at them: also while a recovery and the first poll overlap, and
\* after a recovery that reopens work the poll has failed.
THEOREM QueueStaysBounded == Spec => []QueueBounded
  <1>. DEFINE Bounded == /\ Cardinality(Admitted) <= MaxQueuedPerTarget
                         /\ \A u \in User : Cardinality(AdmittedOf(u)) <= MaxQueuedPerActor
  <1>. DEFINE Inv == OverlapInv /\ CountInv /\ Bounded
  <1>0. MaxQueuedPerTarget \in Nat /\ MaxQueuedPerActor \in Nat
    BY BoundsAreNaturals
  <1>1. Inv => QueueBounded
    <2>. SUFFICES ASSUME Inv
                  PROVE  /\ Cardinality(Counted) <= MaxQueuedPerTarget
                         /\ \A u \in User :
                               Cardinality({o \in Counted : req[o].user = u})
                                   <= MaxQueuedPerActor
      BY DEF QueueBounded, Counted
    <2>1. Admitted \subseteq Rows
      BY DEF Admitted, Counted, Rows, InQueue, Leased, OverlapInv, Overlap, LeaseInv, TypeOK,
             ProcTypeOK
    <2>2. /\ IsFiniteSet(Admitted)
          /\ \A u \in User : IsFiniteSet(AdmittedOf(u))
      BY <2>1, FS_Subset DEF AdmittedOf, CountInv, TableFinite
    <2>3. Counted \subseteq Admitted
      BY DEF Admitted
    <2>4. \A u \in User : {o \in Counted : req[o].user = u} \subseteq AdmittedOf(u)
      BY <2>3 DEF AdmittedOf
    <2>. QED
      BY <1>0, <2>2, <2>3, <2>4, NoMore
  <1>2. Init => Inv
    <2>1. Init => Admitted = {} /\ \A u \in User : AdmittedOf(u) = {}
      BY DEF Init, StoreInit, Admitted, Counted, AdmittedOf, InQueue, Leased
    <2>2. Init => OverlapInv
      BY LeaseInit DEF OverlapInv, Overlap, Init, StoreInit
    <2>. QED
      BY <1>0, <2>1, <2>2, CountInit, FS_EmptySet
  <1>3. ASSUME Inv, [Next]_vars
        PROVE  Inv'
    <2>1. OverlapInv' /\ CountInv' /\ Statement
      BY <1>3, OverlapStep, CountStep, StepIsStatement DEF OverlapInv, LeaseInv
    <2>2. RowsStay
      BY <1>3, <2>1, StatementKeepsRows
         DEF OverlapInv, LeaseInv, LeaseDiscipline, LeaseMatchesStatus
    <2>3. Admitted \subseteq Rows
      BY <1>3 DEF Admitted, Counted, Rows, InQueue, Leased, OverlapInv, Overlap, LeaseInv,
                  TypeOK, ProcTypeOK
    <2>4. /\ IsFiniteSet(Admitted)
          /\ \A u \in User : IsFiniteSet(AdmittedOf(u))
      BY <1>3, <2>3, FS_Subset DEF AdmittedOf, CountInv, TableFinite
    <2>5. /\ Cardinality(Admitted) <= MaxQueuedPerTarget
          /\ \A u \in User : Cardinality(AdmittedOf(u)) <= MaxQueuedPerActor
      BY <1>3
    <2>6. \A o \in Admitted, u \in User : req'[o].user = u => o \in AdmittedOf(u)
      BY <2>2, <2>3 DEF RowsStay, AdmittedOf, Rows
    <2>7. CASE Admitted' \subseteq Admitted
      <3>1. Cardinality(Admitted') <= MaxQueuedPerTarget
        BY <1>0, <2>4, <2>5, <2>7, NoMore
      <3>2. ASSUME NEW u \in User
            PROVE  Cardinality(AdmittedOf(u)') <= MaxQueuedPerActor
        <4>1. AdmittedOf(u)' \subseteq AdmittedOf(u)
          BY <2>6, <2>7 DEF AdmittedOf
        <4>. QED
          BY <1>0, <2>4, <2>5, <4>1, NoMore
      <3>. QED
        BY <2>1, <3>1, <3>2
    <2>8. ASSUME NEW o \in Op, Admitted = Counted, AdmissionOpen(req'[o].user),
                 Admitted' \subseteq Admitted \cup {o}
          PROVE  Inv'
      <3>1. /\ Cardinality(Admitted) < MaxQueuedPerTarget
            /\ \A u \in User : u = req'[o].user => Cardinality(AdmittedOf(u)) < MaxQueuedPerActor
        BY <2>8 DEF AdmissionOpen, Counted, AdmittedOf
      <3>2. Cardinality(Admitted') <= MaxQueuedPerTarget
        BY <1>0, <2>4, <2>8, <3>1, OneMore
      <3>3. ASSUME NEW u \in User
            PROVE  Cardinality(AdmittedOf(u)') <= MaxQueuedPerActor
        <4>1. AdmittedOf(u)' \subseteq AdmittedOf(u) \cup {o}
          BY <2>6, <2>8 DEF AdmittedOf
        <4>2. CASE u = req'[o].user
          BY <1>0, <2>4, <3>1, <4>1, <4>2, OneMore
        <4>3. CASE u # req'[o].user
          <5>1. AdmittedOf(u)' \subseteq AdmittedOf(u)
            BY <4>1, <4>3 DEF AdmittedOf
          <5>. QED
            BY <1>0, <2>4, <2>5, <5>1, NoMore
        <4>. QED
          BY <4>2, <4>3
      <3>. QED
        BY <2>1, <3>2, <3>3
    <2>. QED
      BY <1>3, <2>7, <2>8, AdmittedMove
  <1>. QED
    BY <1>1, <1>2, <1>3, PTL DEF Spec

-------------------------------------------------------------------------------
(***************************************************************************)
(* MANUAL work.                                                            *)
(***************************************************************************)

\* Queued work that nobody may repeat.
Manual(o) == Queued(o) /\ req[o].policy = "MANUAL"

\* Its row: no attempt before the claim, one after it, and no way back.  A row
\* that does not exist yet has had no attempt.
ManualRows ==
    \A o \in Op :
        /\ status[o] = "FREE" => attempt[o] = 0
        /\ Manual(o) => /\ status[o] # "RECOVERING"
                        /\ attempt[o] \in {0, 1}
                        /\ attempt[o] = 1 => status[o] # "QUEUED"

\* Its executions: the poll and the executions deal with queued work; what they
\* hold has been claimed, and no two of them hold the same MANUAL operation.
ManualExecs ==
    /\ \A e \in Exec : pc[e] # "idle" =>
          /\ Queued(on[e])
          /\ Manual(on[e]) =>
                /\ attempt[on[e]] = 1
                /\ \A f \in Exec \ {e} : pc[f] # "idle" => on[f] # on[e]
    /\ pollPc = "load" =>
          /\ Queued(pollOp)
          /\ Manual(pollOp) =>
                /\ attempt[pollOp] = 1
                /\ \A e \in Exec : pc[e] # "idle" => on[e] # pollOp

\* The inductive invariant behind ManualRunsOnce.
ManualInv == LeaseInv /\ ManualRows /\ ManualExecs

\* Attempts are counted by the claim only, of a row that waits.
AttemptsMove ==
    \A o \in Op : attempt'[o] # attempt[o] =>
        status[o] = "QUEUED" /\ attempt'[o] = attempt[o] + 1

\* No statement returns claimed MANUAL work to the queue.
LEMMA StatementKeepsManual ==
    ASSUME LeaseInv, ManualRows, Statement
    PROVE  ManualRows' /\ AttemptsMove
  <1>. DEFINE Goal == ManualRows' /\ AttemptsMove
  <1>0. boot # 0
    BY DEF LeaseInv, TypeOK, ProcTypeOK
  <1>. USE DEF LeaseInv, TypeOK, StoreTypeOK, ManualRows, AttemptsMove, Manual, Queued,
               rowVars, leaseVars, cancelVars
  <1>1. ASSUME NEW o \in Op, NEW r \in Request, NEW p \in Op \cup {None}, Begin(o, r, p)
        PROVE  Goal
    BY <1>1 DEF Begin
  <1>2. ASSUME NEW o \in Op, OwnerStatement(o)
        PROVE  Goal
    BY <1>2 DEF OwnerStatement, Owners, Start, Succeed, Fail
  <1>3. ASSUME NEW o \in Op, CancelWaiting(o) \/ CancelRunning(o)
        PROVE  Goal
    BY <1>3 DEF CancelWaiting, CancelRunning
  <1>4. ASSUME NEW o \in Op, ClaimRow(o, boot, pollAge)
        PROVE  Goal
    BY <1>4 DEF ClaimRow, Claimable
  <1>5. ASSUME NEW o \in Op, Maintenance(o, pollAge)
        PROVE  Goal
    BY <1>5 DEF Maintenance, LoseLease, LeaseLapsed, Recoverable, ExpireRow, ExhaustRow,
                DropLocks
  <1>6. ASSUME NEW o \in Op, StartClaimed(o, boot) \/ HeartbeatClaim(o, boot)
        PROVE  Goal
    BY <1>6 DEF StartClaimed, HeartbeatClaim
  <1>7. ASSUME NEW o \in Op, NEW n \in Nat, Finalizer(o, n)
        PROVE  Goal
    <2>1. ASSUME NEW s, NEW outcome, Settle(o, s, outcome),
                 s \notin {"FREE", "RECOVERING"},
                 s = "QUEUED" => req[o].policy = "RETRY_SAFE"
          PROVE  Goal
      BY <2>1 DEF Settle
    <2>2. CASE RetryOrRequireAttention(o, boot, n)
      <3>1. CASE Settle(o, "NEEDS_ATTENTION", cancelOutcome[o])
        BY <2>1, <3>1
      <3>2. CASE Settle(o, "QUEUED", cancelOutcome[o]) /\ req[o].policy = "RETRY_SAFE"
        BY <2>1, <3>2
      <3>. QED
        BY <2>2, <3>1, <3>2 DEF RetryOrRequireAttention
    <2>3. CASE SucceedClaimed(o, boot)
      BY <2>1, <2>3 DEF SucceedClaimed
    <2>4. CASE FailClaimed(o, boot) \/ CancelClaimed(o, boot) \/ RequireAttention(o, boot)
      BY <2>1, <2>4 DEF FailClaimed, CancelClaimed, RequireAttention
    <2>. QED
      BY <1>7, <2>2, <2>3, <2>4 DEF Finalizer
  <1>8. CASE Recover
    BY <1>8 DEF Recover, RecoverRows, Recoverable
  <1>9. CASE \/ \E o \in Op, s \in Site, d \in Domain \cup {None} : AttachScope(o, s, d)
             \/ \E s \in Site : ReserveBackup(s) \/ FinishBackup(s)
             \/ Elapse \/ UNCHANGED storeVars
    <2>1. UNCHANGED <<status, req, attempt>>
      BY <1>9 DEF AttachScope, ReserveBackup, FinishBackup, Elapse, storeVars
    <2>. QED
      BY <2>1
  <1>. QED
    BY <1>1, <1>2, <1>3, <1>4, <1>5, <1>6, <1>7, <1>8, <1>9 DEF Statement

\* No second execution of MANUAL work comes into being.
LEMMA ManualStep ==
    ASSUME ManualInv, [Next]_vars
    PROVE  ManualInv'
  <1>. USE DEF ManualInv
  <1>1. LeaseInv' /\ Statement
    BY LeaseStep, StepIsStatement DEF LeaseInv
  <1>2. ManualRows' /\ AttemptsMove /\ RowsStay
    BY <1>1, StatementKeepsManual, StatementKeepsRows
       DEF LeaseInv, LeaseDiscipline, LeaseMatchesStatus
  <1>3. ExecsMove /\ LoadsMove
    BY ProcessMoves DEF LeaseInv
  <1>4. Focus /\ Focus' /\ TypeOK
    BY <1>1 DEF LeaseInv
  <1>5. ASSUME NEW o \in Op, Queued(o)
        PROVE  /\ req'[o] = req[o]
               /\ Manual(o) /\ attempt[o] = 1 => attempt'[o] = 1
    <2>1. status[o] # "FREE"
      BY <1>5 DEF LeaseInv, Modes
    <2>. QED
      BY <1>2, <2>1 DEF RowsStay, AttemptsMove, ManualRows
  <1>6. ASSUME NEW e \in Exec, pc'[e] # "idle"
        PROVE  /\ Queued(on[e])'
               /\ Manual(on[e])' =>
                     /\ attempt'[on'[e]] = 1
                     /\ \A f \in Exec \ {e} : pc'[f] # "idle" => on'[f] # on'[e]
    <2>1. CASE pc[e] # "idle" /\ on'[e] = on[e]
      <3>1. on[e] \in Op /\ Queued(on[e])
        BY <1>4, <2>1 DEF Focus, ManualExecs
      <3>2. Queued(on[e])' /\ (Manual(on[e])' => Manual(on[e]) /\ attempt'[on[e]] = 1)
        BY <1>5, <2>1, <3>1 DEF Queued, Manual, ManualExecs
      <3>3. ASSUME Manual(on[e]), NEW f \in Exec \ {e}, pc'[f] # "idle"
            PROVE  on'[f] # on[e]
        <4>1. CASE pc[f] # "idle" /\ on'[f] = on[f]
          BY <2>1, <3>3, <4>1 DEF ManualExecs
        <4>2. CASE pollPc = "load" /\ on'[f] = pollOp
          BY <2>1, <3>3, <4>2 DEF ManualExecs
        <4>. QED
          BY <1>3, <3>3, <4>1, <4>2 DEF ExecsMove
      <3>. QED
        BY <2>1, <3>2, <3>3
    <2>2. CASE /\ pollPc = "load" /\ on'[e] = pollOp
               /\ pc[e] = "idle" /\ \A f \in Exec \ {e} : pc'[f] = pc[f]
      <3>1. pollOp \in Op /\ Queued(pollOp)
        BY <1>4, <2>2 DEF Focus, ManualExecs
      <3>2. Queued(on[e])' /\ (Manual(on[e])' => Manual(pollOp) /\ attempt'[pollOp] = 1)
        BY <1>5, <2>2, <3>1 DEF Queued, Manual, ManualExecs
      <3>3. ASSUME Manual(pollOp), NEW f \in Exec \ {e}, pc'[f] # "idle"
            PROVE  on'[f] # pollOp
        <4>1. pc[f] # "idle"
          BY <2>2, <3>3
        <4>2. on'[f] = on[f]
          BY <1>3, <3>3, <4>1 DEF ExecsMove
        <4>. QED
          BY <2>2, <3>3, <4>1, <4>2 DEF ManualExecs
      <3>. QED
        BY <2>2, <3>2, <3>3
    <2>. QED
      BY <1>3, <1>6, <2>1, <2>2 DEF ExecsMove
  <1>7. ASSUME pollPc' = "load"
        PROVE  /\ Queued(pollOp)'
               /\ Manual(pollOp)' =>
                     /\ attempt'[pollOp'] = 1
                     /\ \A e \in Exec : pc'[e] # "idle" => on'[e] # pollOp'
    <2>1. CASE pollPc = "load" /\ pollOp' = pollOp
      <3>1. pollOp \in Op /\ Queued(pollOp)
        BY <1>4, <2>1 DEF Focus, ManualExecs
      <3>2. Queued(pollOp)' /\ (Manual(pollOp)' => Manual(pollOp) /\ attempt'[pollOp] = 1)
        BY <1>5, <2>1, <3>1 DEF Queued, Manual, ManualExecs
      <3>3. \A e \in Exec : pc'[e] # "idle" => pc[e] # "idle" /\ on'[e] = on[e]
        BY <1>3, <1>7 DEF ExecsMove
      <3>. QED
        BY <2>1, <3>2, <3>3 DEF ManualExecs
    <2>2. CASE /\ pollOp' \in Op /\ ClaimRow(pollOp', boot, pollAge)
               /\ UNCHANGED <<pc, on>>
      <3>. DEFINE o == pollOp'
      <3>1. o \in Op /\ Queued(o) /\ status[o] \in {"QUEUED", "RECOVERING"}
        BY <2>2 DEF ClaimRow, Claimable
      <3>2. req'[o] = req[o]
        BY <1>5, <3>1
      <3>3. ASSUME Manual(o)
            PROVE  attempt[o] = 0 /\ attempt'[o] = 1
        <4>1. attempt[o] = 0 /\ status[o] = "QUEUED"
          BY <3>1, <3>3 DEF ManualRows
        <4>. QED
          BY <1>4, <2>2, <3>1, <4>1 DEF ClaimRow, TypeOK, StoreTypeOK
      <3>4. ASSUME Manual(o), NEW e \in Exec, pc'[e] # "idle"
            PROVE  on'[e] # o
        BY <2>2, <3>3, <3>4 DEF ManualExecs
      <3>. QED
        BY <3>1, <3>2, <3>3, <3>4 DEF Queued, Manual
    <2>. QED
      BY <1>3, <1>7, <2>1, <2>2 DEF LoadsMove
  <1>8. ManualExecs'
    BY <1>6, <1>7 DEF ManualExecs, Queued, Manual
  <1>. QED
    BY <1>1, <1>2, <1>8

\* MANUAL work is executed once, whatever leases are lost, processes restart or
\* finalizers fail: it is claimed once, never waits again after its claim, and
\* no two handlers of it are ever at work.
THEOREM ManualIsExecutedOnce == Spec => []ManualRunsOnce
  <1>1. Init => ManualInv
    BY LeaseInit DEF ManualInv, ManualRows, ManualExecs, Manual, Queued, Init, StoreInit,
                     NoRequest
  <1>2. ManualInv /\ [Next]_vars => ManualInv'
    BY ManualStep
  <1>3. ManualInv => ManualRunsOnce
    <2>. SUFFICES ASSUME ManualInv, NEW o \in Op, Queued(o), req[o].policy = "MANUAL"
                  PROVE  /\ Cardinality(Running(o)) <= 1
                         /\ attempt[o] <= 1
                         /\ attempt[o] = 1 => status[o] \notin {"QUEUED", "RECOVERING"}
      BY DEF ManualRunsOnce
    <2>1. attempt[o] <= 1 /\ (attempt[o] = 1 => status[o] \notin {"QUEUED", "RECOVERING"})
      BY DEF ManualInv, ManualRows, Manual
    <2>2. \A e, f \in Running(o) : e = f
      BY DEF Running, ManualInv, ManualExecs, Manual
    <2>3. CASE Running(o) = {}
      BY <2>1, <2>3, FS_EmptySet
    <2>4. ASSUME NEW e \in Running(o)
          PROVE  Cardinality(Running(o)) <= 1
      <3>1. Running(o) = {e}
        BY <2>2, <2>4
      <3>. QED
        BY <3>1, FS_Singleton
    <2>. QED
      BY <2>1, <2>3, <2>4
  <1>. QED
    BY <1>1, <1>2, <1>3, PTL DEF Spec
===============================================================================
