------------------------ MODULE OperationsSafetyProofs ------------------------
(***************************************************************************)
(* The safety theorems about OperationsWorker.  Each step of the process   *)
(* runs at most one statement on the tables; what a statement may do to a  *)
(* row is shown once (StatementKeepsRows) and the theorems follow from it. *)
(***************************************************************************)
EXTENDS OperationsProofs

\* The statements of an inline operation's owner.
OwnerStatement(o) ==
    owner[o] \in {"begun", "running"} /\ (Start(o) \/ Succeed(o) \/ Fail(o))

\* The statements of maintainQueue on one row.
Maintenance(o, age) ==
    LoseLease(o, age) \/ ExpireRow(o, age) \/ ExhaustRow(o) \/ DropLocks(o)

\* An execution of o is about to end it as cancelled.
Cancels(o) == \E e \in Exec : pc[e] = "cancelling" /\ on[e] = o

\* The statements that a claimed execution issues.
Finalizer(o, n) ==
    \/ SucceedClaimed(o, boot) \/ FailClaimed(o, boot)
    \/ Cancels(o) /\ CancelClaimed(o, boot)
    \/ RetryOrRequireAttention(o, boot, n) \/ RequireAttention(o, boot)

\* Who may widen the scope of o, and to what.
MayAttach(o, s, d) ==
    /\ owner[o] = "running" /\ req[o].lockSite /\ ~req[o].child
    /\ d # None => SiteOf[d] = s

\* Everything the program ever does to the tables.
Statement ==
    \/ ready /\ \E o \in Op, r \in Request, p \in Op \cup {None} : Begin(o, r, p)
    \/ ready /\ \E o \in Op, s \in Site, d \in Domain \cup {None} :
          MayAttach(o, s, d) /\ AttachScope(o, s, d)
    \/ \E s \in Site : ReserveBackup(s) \/ FinishBackup(s)
    \/ \E o \in Op : OwnerStatement(o)
    \/ \E o \in Op : CancelWaiting(o) \/ CancelRunning(o)
    \/ \E o \in Op : ClaimRow(o, boot, pollAge)
    \/ \E o \in Op : Maintenance(o, pollAge)
    \/ \E o \in Op : StartClaimed(o, boot) \/ HeartbeatClaim(o, boot)
    \/ \E o \in Op, n \in Nat : Finalizer(o, n)
    \/ Recover
    \/ Elapse
    \/ UNCHANGED storeVars

\* Every step of the process is one statement on the tables.
LEMMA StepIsStatement == TypeOK /\ Focus /\ [Next]_vars => Statement
  <1>. SUFFICES ASSUME TypeOK, Focus, [Next]_vars
                PROVE  Statement
    OBVIOUS
  <1>1. CASE Caller
    BY <1>1 DEF Caller, BeginOperation, OwnerAttaches, RequestCancellation, BackupStarts,
                BackupEnds, MayAttach, Statement
  <1>2. CASE \E o \in Op : OwnerStep(o)
    BY <1>2 DEF OwnerStep, OwnerStarts, OwnerSucceeds, OwnerFails, OwnerGivesUp,
                OwnerStatement, Statement
  <1>3. CASE PollStep \/ PollFails
    <2>2. ASSUME NEW row \in batch,
                 MaintainLease(row) \/ MaintainDeadline(row) \/ MaintainAttempts(row)
          PROVE  Statement
      <3>1. row[1] \in Op
        BY DEF TypeOK, ProcTypeOK
      <3>. QED
        BY <2>2, <3>1 DEF MaintainLease, MaintainDeadline, MaintainAttempts,
                                Maintenance, Statement
    <2>3. CASE MaintainUnlock
      <3>1. pollOp \in Op
        BY <2>3 DEF MaintainUnlock, Focus
      <3>. QED
        BY <2>3, <3>1 DEF MaintainUnlock, Maintenance, Statement
    <2>4. CASE PollRejectsPayload
      <3>1. pollOp \in Op
        BY <2>4 DEF PollRejectsPayload, Focus
      <3>. QED
        BY <2>4, <3>1 DEF PollRejectsPayload, Finalizer, Statement
    <2>5. CASE \E o \in Op : PollClaims(o)
      BY <2>5 DEF PollClaims, Statement
    <2>6. CASE \/ PollStarts \/ MaintainNext \/ PollFindsNothing \/ PollFails
               \/ \E e \in Exec : PollExecutes(e)
      BY <2>6 DEF PollStarts, MaintainNext, PollFindsNothing, PollFails, PollExecutes,
                  Statement
    <2>. QED
      BY <1>3, <2>2, <2>3, <2>4, <2>5, <2>6 DEF PollStep
  <1>4. ASSUME NEW e \in Exec, ExecStep(e) \/ ExecHeartbeat(e)
        PROVE  Statement
    <2>1. on[e] \in Op /\ snap[e] \in Nat
      BY <1>4 DEF TypeOK, ProcTypeOK, Focus, ExecStep, ExecHeartbeat, ExecStarts,
             HandlerReturns, HandlerThrows, ExecSucceeds, ExecChecksCancel, ExecFails,
             ExecCancels, ExecRetries, ExecRequiresAttention, ExecGivesUp
    <2>. QED
      BY <1>4, <2>1 DEF ExecStep, ExecHeartbeat, ExecStarts, HandlerReturns,
             HandlerThrows, ExecSucceeds, ExecChecksCancel, ExecFails, ExecCancels,
             ExecRetries, ExecRequiresAttention, ExecGivesUp, Cancels, Finalizer, Statement
  <1>5. CASE Restart \/ Recover \/ HandlersRegister \/ Tick
    BY <1>5 DEF Restart, HandlersRegister, Tick, Statement
  <1>6. CASE UNCHANGED vars
    BY <1>6 DEF vars, Statement
  <1>. QED
    BY <1>1, <1>2, <1>3, <1>4, <1>5, <1>6 DEF Next

-------------------------------------------------------------------------------
(***************************************************************************)
(* The inductive invariant behind LeaseDiscipline.  A row's mode limits    *)
(* its status (Modes), and only inline rows have an owner at work (Owners).*)
(***************************************************************************)

\* Inline and queued rows keep to their own statuses.
Modes ==
    \A o \in Op :
        /\ Queued(o) => status[o] \notin {"FREE", "PENDING"}
        /\ ~Queued(o) => status[o] \notin {"QUEUED", "CLAIMED", "RECOVERING"}
        /\ parent[o] # None => ~Queued(o)

\* Only inline rows have an owner in the process.
Owners ==
    \A o \in Op :
        owner[o] \in {"begun", "running"} => ~Queued(o) /\ status[o] # "FREE"

\* The first half of LeaseDiscipline.
LeaseMatchesStatus ==
    \A o \in Op : leaseOwner[o] # 0 <=> Queued(o) /\ status[o] \in Leased

\* A row that exists keeps the request it was begun with.
RowsStay ==
    \A o \in Op : status[o] # "FREE" =>
        status'[o] # "FREE" /\ req'[o] = req[o] /\ parent'[o] = parent[o]

\* A lease is kept, given up, or taken by the living process.
LeasesMove ==
    \A o \in Op : leaseOwner'[o] \in {0, leaseOwner[o], boot}

\* Every statement keeps modes and leases in step, and no row is replaced.
LEMMA StatementKeepsRows ==
    ASSUME TypeOK, Modes, Owners, LeaseMatchesStatus, Statement
    PROVE  Modes' /\ LeaseMatchesStatus' /\ RowsStay /\ LeasesMove
  <1>. DEFINE Goal == Modes' /\ LeaseMatchesStatus' /\ RowsStay /\ LeasesMove
  <1>0. boot \in Nat \ {0} /\ None \notin Op
    BY WorkerBounds, OpsNumbered DEF TypeOK, ProcTypeOK
  <1>. USE <1>0 DEF TypeOK, StoreTypeOK, Modes, Owners, LeaseMatchesStatus, RowsStay,
                    LeasesMove, Queued, Leased, rowVars, leaseVars, cancelVars
  <1>1. ASSUME NEW o \in Op, NEW r \in Request, NEW p \in Op \cup {None}, Begin(o, r, p)
        PROVE  Goal
    <2>1. p # None => r.mode = "INLINE"
      BY <1>1, RequestsWellFormed DEF Begin, ParentCompatible
    <2>2. r.mode \in {"INLINE", "QUEUED"}
      BY RequestsWellFormed DEF RequestType, Mode
    <2>. QED
      BY <1>1, <2>1, <2>2 DEF Begin
  <1>2. ASSUME NEW o \in Op, NEW s \in Site, NEW d \in Domain \cup {None},
               AttachScope(o, s, d)
        PROVE  Goal
    BY <1>2 DEF AttachScope
  <1>3. ASSUME NEW s \in Site, ReserveBackup(s) \/ FinishBackup(s)
        PROVE  Goal
    BY <1>3 DEF ReserveBackup, FinishBackup
  <1>4. ASSUME NEW o \in Op, OwnerStatement(o)
        PROVE  Goal
    <2>1. ~Queued(o)
      BY <1>4 DEF OwnerStatement
    <2>2. CASE Start(o)
      BY <2>1, <2>2 DEF Start
    <2>3. CASE Succeed(o)
      BY <2>1, <2>3 DEF Succeed
    <2>4. CASE Fail(o)
      BY <2>1, <2>4, <1>4 DEF Fail, Children, LockHolding, Executing, OwnerStatement
    <2>. QED
      BY <1>4, <2>2, <2>3, <2>4 DEF OwnerStatement
  <1>5. ASSUME NEW o \in Op, CancelWaiting(o) \/ CancelRunning(o)
        PROVE  Goal
    BY <1>5 DEF CancelWaiting, CancelRunning
  <1>6. ASSUME NEW o \in Op, ClaimRow(o, boot, pollAge)
        PROVE  Goal
    BY <1>6 DEF ClaimRow, Claimable, SetLease
  <1>7. ASSUME NEW o \in Op, Maintenance(o, pollAge)
        PROVE  Goal
    BY <1>7 DEF Maintenance, LoseLease, LeaseLapsed, SetLease, ExpireRow, DeadlinePassed,
                ExhaustRow, AttemptsSpent, DropLocks
  <1>8. ASSUME NEW o \in Op, StartClaimed(o, boot) \/ HeartbeatClaim(o, boot)
        PROVE  Goal
    BY <1>8 DEF StartClaimed, HeartbeatClaim, Renewable, SetLease
  <1>9. ASSUME NEW o \in Op, NEW n \in Nat, Finalizer(o, n)
        PROVE  Goal
    <2>1. PICK s, outcome :
              /\ Settle(o, s, outcome)
              /\ s \in {"SUCCEEDED", "FAILED", "CANCELLED", "QUEUED", "NEEDS_ATTENTION"}
      BY <1>9 DEF Finalizer, SucceedClaimed, FailClaimed, CancelClaimed,
                  RetryOrRequireAttention, RequireAttention
    <2>2. leaseOwner[o] = boot
      BY <1>9 DEF Finalizer, SucceedClaimed, FailClaimed, CancelClaimed, Finishable,
                  OwnsLease, RetryOrRequireAttention, RequireAttention
    <2>. QED
      BY <2>1, <2>2 DEF Settle, SetLease
  <1>10. CASE Recover
    BY <1>10 DEF Recover, RecoverRows, ProcTypeOK, Interrupted
  <1>11. CASE Elapse
    BY <1>11 DEF Elapse
  <1>12. CASE UNCHANGED storeVars
    BY <1>12 DEF storeVars
  <1>. QED
    BY <1>1, <1>2, <1>3, <1>4, <1>5, <1>6, <1>7, <1>8, <1>9, <1>10, <1>11, <1>12
       DEF Statement

\* The inductive invariant behind LeaseDiscipline.
LeaseInv == TypeOK /\ Focus /\ Modes /\ Owners /\ LeaseDiscipline

\* An owner at work was at work before, or has just begun an inline operation.
LEMMA OwnersMove ==
    ASSUME TypeOK, [Next]_vars, NEW o \in Op, owner'[o] \in {"begun", "running"}
    PROVE  \/ owner[o] \in {"begun", "running"}
           \/ \E r \in Request, p \in Op \cup {None} : Begin(o, r, p) /\ r.mode = "INLINE"
  <1>. USE DEF TypeOK, ProcTypeOK, OwnerPc
  <1>1. CASE Caller
    <2>1. ASSUME NEW q \in Op, NEW r \in Request, NEW p \in Op \cup {None},
                 BeginOperation(q, r, p), owner[o] \notin {"begun", "running"}
          PROVE  Begin(o, r, p) /\ r.mode = "INLINE"
      BY <2>1 DEF BeginOperation
    <2>2. CASE UNCHANGED procVars
      BY <2>2 DEF procVars
    <2>. QED
      BY <1>1, <2>1, <2>2 DEF Caller, OwnerAttaches, RequestCancellation, BackupStarts,
                              BackupEnds
  <1>2. CASE \E q \in Op : OwnerStep(q)
    BY <1>2 DEF OwnerStep, OwnerStarts, OwnerSucceeds, OwnerFails, OwnerGivesUp
  <1>3. CASE PollStep \/ PollFails
    BY <1>3 DEF PollStep, PollStarts, MaintainUnlock, MaintainNext, PollFindsNothing,
                PollRejectsPayload, MaintainLease, MaintainDeadline, MaintainAttempts,
                PollClaims, PollExecutes, PollFails
  <1>4. CASE \E e \in Exec : ExecStep(e) \/ ExecHeartbeat(e)
    BY <1>4 DEF ExecStep, ExecHeartbeat, ExecStarts, HandlerReturns, HandlerThrows,
                ExecSucceeds, ExecChecksCancel, ExecFails, ExecCancels, ExecRetries,
                ExecRequiresAttention, ExecGivesUp, Ends, MovesTo
  <1>5. CASE Restart \/ Recover \/ HandlersRegister \/ Tick
    BY <1>5 DEF Restart, Recover, HandlersRegister, Tick
  <1>6. CASE UNCHANGED vars
    BY <1>6 DEF vars, procVars
  <1>. QED
    BY <1>1, <1>2, <1>3, <1>4, <1>5, <1>6 DEF Next

\* Only a restart and the recovery after it change the process and its debt.
LEMMA BootsMove ==
    ASSUME [Next]_vars
    PROVE  Restart \/ Recover \/ (boot' = boot /\ interrupted' = interrupted)
  <1>1. CASE Caller
    BY <1>1 DEF Caller, BeginOperation, OwnerAttaches, RequestCancellation, BackupStarts,
                BackupEnds, procVars
  <1>2. CASE \E q \in Op : OwnerStep(q)
    BY <1>2 DEF OwnerStep, OwnerStarts, OwnerSucceeds, OwnerFails, OwnerGivesUp
  <1>3. CASE PollStep \/ PollFails
    BY <1>3 DEF PollStep, PollStarts, MaintainUnlock, MaintainNext, PollFindsNothing,
                PollRejectsPayload, MaintainLease, MaintainDeadline, MaintainAttempts,
                PollClaims, PollExecutes, PollFails
  <1>4. CASE \E e \in Exec : ExecStep(e) \/ ExecHeartbeat(e)
    BY <1>4 DEF ExecStep, ExecHeartbeat, ExecStarts, HandlerReturns, HandlerThrows,
                ExecSucceeds, ExecChecksCancel, ExecFails, ExecCancels, ExecRetries,
                ExecRequiresAttention, ExecGivesUp, Ends, MovesTo
  <1>5. CASE Restart \/ Recover \/ HandlersRegister \/ Tick
    BY <1>5 DEF HandlersRegister, Tick
  <1>6. CASE UNCHANGED vars
    BY <1>6 DEF vars, procVars
  <1>. QED
    BY <1>1, <1>2, <1>3, <1>4, <1>5, <1>6 DEF Next

\* There is no lease at first.
LEMMA LeaseInit == Init => LeaseInv
  BY TypeInit DEF LeaseInv, Init, StoreInit, Modes, Owners, LeaseDiscipline, Queued,
                  NoRequest, Leased

\* Every step keeps the leases disciplined, restarts included.
LEMMA LeaseStep == LeaseInv /\ [Next]_vars => LeaseInv'
  <1>. SUFFICES ASSUME LeaseInv, [Next]_vars
                PROVE  LeaseInv'
    OBVIOUS
  <1>. USE DEF LeaseInv
  <1>1. TypeOK' /\ Focus'
    BY TypeStep
  <1>2. Modes' /\ LeaseMatchesStatus' /\ RowsStay /\ LeasesMove
    BY StepIsStatement, StatementKeepsRows DEF LeaseDiscipline, LeaseMatchesStatus
  <1>3. Owners'
    <2>. SUFFICES ASSUME NEW o \in Op, owner'[o] \in {"begun", "running"}
                  PROVE  (~Queued(o))' /\ status'[o] # "FREE"
      BY DEF Owners
    <2>1. CASE owner[o] \in {"begun", "running"}
      BY <1>2, <2>1 DEF Owners, RowsStay, Queued
    <2>2. ASSUME NEW r \in Request, NEW p \in Op \cup {None}, Begin(o, r, p),
                 r.mode = "INLINE"
          PROVE  (~Queued(o))' /\ status'[o] # "FREE"
      BY <2>2 DEF Begin, TypeOK, StoreTypeOK, Queued
    <2>. QED
      BY <2>1, <2>2, OwnersMove
  <1>4. ASSUME NEW o \in Op, leaseOwner'[o] # 0
        PROVE  leaseOwner'[o] = boot' \/ o \in interrupted'
    <2>1. CASE boot' = boot /\ interrupted' = interrupted
      BY <1>2, <1>4, <2>1 DEF LeasesMove, LeaseDiscipline
    <2>2. CASE Restart
      BY <1>4, <2>2 DEF Restart, storeVars, LeaseDiscipline, Interrupted
    <2>3. CASE Recover
      BY <1>4, <2>3 DEF Recover, RecoverRows, LeaseDiscipline, TypeOK, StoreTypeOK
    <2>. QED
      BY <2>1, <2>2, <2>3, BootsMove
  <1>. QED
    BY <1>1, <1>2, <1>3, <1>4 DEF LeaseDiscipline, LeaseMatchesStatus

\* A queued row is leased exactly while it is claimed, running or asked to
\* cancel, and only to the living process: the WHERE clauses on lease_owner
\* (requireAttention has no other condition) never reach a row that waits, is
\* finished or has been handed to an operator.
THEOREM LeasesAreDisciplined == Spec => []LeaseDiscipline
  <1>1. Spec => []LeaseInv
    BY LeaseInit, LeaseStep, PTL DEF Spec
  <1>2. LeaseInv => LeaseDiscipline
    BY DEF LeaseInv
  <1>. QED
    BY <1>1, <1>2, PTL

-------------------------------------------------------------------------------
(***************************************************************************)
(* Locks.                                                                  *)
(***************************************************************************)

\* The action of LocksOutliveOwner.
LocksGoWithOwner ==
    \A x \in Resource :
        locks[x] # None /\ locks'[x] # locks[x] => status'[locks[x]] \in Terminal

\* No statement takes a lock from an operation it does not finish.
LEMMA StatementKeepsLocks ==
    ASSUME LeaseInv, Statement
    PROVE  LocksGoWithOwner
  <1>0. None \notin Op
    BY OpsNumbered
  <1>. USE <1>0 DEF LeaseInv, TypeOK, StoreTypeOK, LocksGoWithOwner, Release, Terminal,
                    Status
  <1>1. ASSUME NEW o \in Op, NEW r \in Request, NEW p \in Op \cup {None}, Begin(o, r, p)
        PROVE  LocksGoWithOwner
    BY <1>1 DEF Begin
  <1>2. ASSUME NEW o \in Op, NEW s \in Site, NEW d \in Domain \cup {None},
               AttachScope(o, s, d)
        PROVE  LocksGoWithOwner
    BY <1>2 DEF AttachScope
  <1>3. ASSUME NEW o \in Op, OwnerStatement(o)
        PROVE  LocksGoWithOwner
    <2>1. CASE Start(o)
      BY <2>1 DEF Start
    <2>2. CASE Succeed(o)
      BY <2>2 DEF Succeed
    <2>3. CASE Fail(o)
      BY <1>3, <2>3 DEF Fail, Children, OwnerStatement, Owners
    <2>. QED
      BY <1>3, <2>1, <2>2, <2>3 DEF OwnerStatement
  <1>4. ASSUME NEW o \in Op, CancelWaiting(o) \/ CancelRunning(o)
        PROVE  LocksGoWithOwner
    BY <1>4 DEF CancelWaiting, CancelRunning
  <1>5. ASSUME NEW o \in Op, Maintenance(o, pollAge)
        PROVE  LocksGoWithOwner
    BY <1>5 DEF Maintenance, LoseLease, ExpireRow, ExhaustRow, DropLocks
  <1>6. ASSUME NEW o \in Op, NEW n \in Nat, Finalizer(o, n)
        PROVE  LocksGoWithOwner
    <2>1. PICK s, outcome : Settle(o, s, outcome)
      BY <1>6 DEF Finalizer, SucceedClaimed, FailClaimed, CancelClaimed,
                  RetryOrRequireAttention, RequireAttention
    <2>. QED
      BY <2>1 DEF Settle
  <1>7. CASE \/ \E s \in Site : ReserveBackup(s) \/ FinishBackup(s)
             \/ \E o \in Op : ClaimRow(o, boot, pollAge)
             \/ \E o \in Op : StartClaimed(o, boot) \/ HeartbeatClaim(o, boot)
             \/ Recover \/ Elapse \/ UNCHANGED storeVars
    <2>1. locks' = locks
      BY <1>7 DEF ReserveBackup, FinishBackup, ClaimRow, StartClaimed, HeartbeatClaim,
                  Recover, RecoverRows, Elapse, storeVars
    <2>. QED
      BY <2>1
  <1>. QED
    BY <1>1, <1>2, <1>3, <1>4, <1>5, <1>6, <1>7 DEF Statement

\* A lock row is deleted only together with, or after, the end of the operation
\* that holds it: no cancellation request, lost lease, retry or recovery frees
\* the scope of work that may still have effects.
THEOREM LocksOutlive == Spec => LocksOutliveOwner
  <1>1. LeaseInv /\ [Next]_vars =>
            [\A x \in Resource : locks[x] # None /\ locks'[x] # locks[x] =>
                status'[locks[x]] \in Terminal]_vars
    BY StepIsStatement, StatementKeepsLocks DEF LeaseInv, LocksGoWithOwner
  <1>. QED
    BY <1>1, LeaseInit, LeaseStep, PTL DEF Spec, LocksOutliveOwner

-------------------------------------------------------------------------------
(***************************************************************************)
(* Finished operations.  Recovery and the first poll of a process overlap: *)
(* the recovery UPDATE names its rows by id only, and in the meantime the  *)
(* poll may have lost, expired, claimed or given up the rows its SELECT    *)
(* saw.  Until recovery is done no handler is registered and no caller is  *)
(* served, which limits what can have become of them (Overlap).            *)
(***************************************************************************)

\* A row whose deadline had passed when the poll in progress read its clock: no
\* statement of that poll or of a later one claims it.
Expired(o) == Queued(o) /\ deadlineLeft[o] <= -pollAge

\* What runs beside the recovery, and what it leaves of the rows to recover:
\* none waits in the queue, and one that has finished has expired.
Overlap ==
    /\ ready => interrupted = {}
    /\ ~ready => /\ \A e \in Exec : pc[e] \in {"idle", "unhandled"}
                 /\ \A o \in Op : owner[o] = "none"
    /\ \A o \in Op : status[o] = "RECOVERING" => Recoverable(o)
    /\ \A o \in interrupted :
          /\ status[o] \notin {"FREE", "QUEUED"}
          /\ status[o] \in Terminal =>
                status[o] = "FAILED" /\ Expired(o) /\ Recoverable(o)

\* All that a process does to the tables before its handlers are registered.
StartUpStatement ==
    \/ \E o \in Op : \/ Maintenance(o, pollAge) \/ ClaimRow(o, boot, pollAge)
                    \/ RequireAttention(o, boot)
    \/ Recover \/ Elapse \/ UNCHANGED storeVars

\* A row that has expired stays so.
LEMMA ExpiredStays ==
    ASSUME LeaseInv, [Next]_vars, NEW o \in Op, Expired(o)
    PROVE  Expired(o)'
  <1>0. status[o] # "FREE" /\ pollAge \in Int /\ pollAge >= 0 /\ deadlineLeft[o] \in Int
    BY BoundsAreNaturals DEF LeaseInv, Modes, Expired, TypeOK, ProcTypeOK, StoreTypeOK
  <1>1. ASSUME req'[o] = req[o], deadlineLeft'[o] = deadlineLeft[o], pollAge' \in {pollAge, 0}
        PROVE  Expired(o)'
    BY <1>0, <1>1 DEF Expired, Queued
  <1>. USE <1>0 DEF rowVars, leaseVars, cancelVars, storeVars, procVars, pollVars
  <1>2. CASE Caller
    <2>1. ASSUME NEW q \in Op, NEW r \in Request, NEW p \in Op \cup {None},
                 BeginOperation(q, r, p)
          PROVE  req'[o] = req[o] /\ deadlineLeft'[o] = deadlineLeft[o] /\ pollAge' = pollAge
      <3>1. q # o
        BY <2>1 DEF BeginOperation, Begin
      <3>. QED
        BY <2>1, <3>1 DEF BeginOperation, Begin, LeaseInv, TypeOK, StoreTypeOK
    <2>2. CASE ~\E q \in Op, r \in Request, p \in Op \cup {None} : BeginOperation(q, r, p)
      <3>1. UNCHANGED <<req, deadlineLeft, pollAge>>
        BY <1>2, <2>2 DEF Caller, OwnerAttaches, AttachScope, RequestCancellation,
               CancelWaiting, CancelRunning, BackupStarts, BackupEnds, ReserveBackup,
               FinishBackup
      <3>. QED
        BY <1>1, <3>1
    <2>. QED
      BY <1>1, <2>1, <2>2
  <1>3. CASE \E q \in Op : OwnerStep(q)
    <2>1. UNCHANGED <<req, deadlineLeft, pollAge>>
      BY <1>3 DEF OwnerStep, OwnerStarts, OwnerSucceeds, OwnerFails, OwnerGivesUp, Start,
                  Succeed, Fail
    <2>. QED
      BY <1>1, <2>1
  <1>4. CASE PollStep \/ PollFails
    <2>1. UNCHANGED <<req, deadlineLeft>> /\ pollAge' \in {pollAge, 0}
      <3>1. CASE PollRejectsPayload
        BY <3>1 DEF PollRejectsPayload, RequireAttention, Settle, PollEnds
      <3>2. CASE \E row \in batch : \/ MaintainLease(row) \/ MaintainDeadline(row)
                                   \/ MaintainAttempts(row)
        BY <3>2 DEF MaintainLease, MaintainDeadline, MaintainAttempts, LoseLease,
                    ExpireRow, ExhaustRow
      <3>3. CASE PollStarts \/ MaintainUnlock \/ MaintainNext \/ PollFindsNothing
        BY <3>3 DEF PollStarts, MaintainUnlock, MaintainNext, PollFindsNothing, DropLocks,
                    PollEnds
      <3>4. CASE (\E q \in Op : PollClaims(q)) \/ (\E e \in Exec : PollExecutes(e))
                 \/ PollFails
        BY <3>4 DEF PollClaims, PollExecutes, PollFails, PollEnds, ClaimRow
      <3>. QED
        BY <1>4, <3>1, <3>2, <3>3, <3>4 DEF PollStep
    <2>. QED
      BY <1>1, <2>1
  <1>5. CASE \E e \in Exec : ExecStep(e) \/ ExecHeartbeat(e)
    <2>1. UNCHANGED <<req, deadlineLeft, pollAge>>
      BY <1>5 DEF ExecStep, ExecHeartbeat, ExecStarts, HandlerReturns, HandlerThrows,
             ExecSucceeds, ExecChecksCancel, ExecFails, ExecCancels, ExecRetries,
             ExecRequiresAttention, ExecGivesUp, Ends, MovesTo, StartClaimed,
             HeartbeatClaim, SucceedClaimed, FailClaimed, CancelClaimed,
             RetryOrRequireAttention, RequireAttention, Settle
    <2>. QED
      BY <1>1, <2>1
  <1>6. CASE Restart \/ Recover \/ HandlersRegister
    <2>1. UNCHANGED <<req, deadlineLeft>> /\ pollAge' \in {pollAge, 0}
      BY <1>6 DEF Restart, Recover, RecoverRows, HandlersRegister, PollEnds
    <2>. QED
      BY <1>1, <2>1
  <1>7. CASE Tick
    <2>1. req' = req /\ MaxPollAge \in Nat
      BY <1>7, BoundsAreNaturals DEF Tick, Elapse
    <2>2. deadlineLeft'[o] = IF deadlineLeft[o] > -MaxPollAge THEN deadlineLeft[o] - 1
                                                            ELSE deadlineLeft[o]
      BY <1>7 DEF Tick, Elapse, Expired
    <2>3. pollAge' = 0 \/ (pollAge' = pollAge + 1 /\ pollAge < MaxPollAge)
      <3>1. /\ pollAge' = IF pollPc = "idle" THEN 0 ELSE pollAge + 1
            /\ pollPc # "idle" => pollAge < MaxPollAge
        BY ONLY <1>7 DEF Tick
      <3>. QED
        BY <3>1
    <2>. QED
      BY <2>1, <2>2, <2>3 DEF Expired, Queued
  <1>8. CASE UNCHANGED vars
    BY <1>1, <1>8 DEF vars
  <1>. QED
    BY <1>2, <1>3, <1>4, <1>5, <1>6, <1>7, <1>8 DEF Next

\* Before the handlers are registered only the poll, the executions it starts
\* without a handler, the recovery and the clock move.
LEMMA StartUpStep ==
    ASSUME LeaseInv, Overlap, ~ready, [Next]_vars
    PROVE  StartUpStatement
  <1>1. ~Caller /\ \A o \in Op : ~OwnerStep(o)
    BY DEF Overlap, Caller, OwnerStep, OwnerStarts, OwnerSucceeds, OwnerFails, OwnerGivesUp
  <1>2. CASE PollStep \/ PollFails
    <2>1. ASSUME NEW row \in batch,
                 MaintainLease(row) \/ MaintainDeadline(row) \/ MaintainAttempts(row)
          PROVE  StartUpStatement
      <3>1. row[1] \in Op
        BY DEF LeaseInv, TypeOK, ProcTypeOK
      <3>. QED
        BY <2>1, <3>1 DEF MaintainLease, MaintainDeadline, MaintainAttempts, Maintenance,
                          StartUpStatement
    <2>2. CASE MaintainUnlock \/ PollRejectsPayload
      <3>1. pollOp \in Op
        BY <2>2 DEF MaintainUnlock, PollRejectsPayload, LeaseInv, Focus
      <3>. QED
        BY <2>2, <3>1 DEF MaintainUnlock, PollRejectsPayload, Maintenance, StartUpStatement
    <2>3. CASE \E o \in Op : PollClaims(o)
      BY <2>3 DEF PollClaims, StartUpStatement
    <2>4. CASE \/ PollStarts \/ MaintainNext \/ PollFindsNothing \/ PollFails
               \/ \E e \in Exec : PollExecutes(e)
      BY <2>4 DEF PollStarts, MaintainNext, PollFindsNothing, PollFails, PollExecutes,
                  StartUpStatement
    <2>. QED
      BY <1>2, <2>1, <2>2, <2>3, <2>4 DEF PollStep
  <1>3. ASSUME NEW e \in Exec, ExecStep(e) \/ ExecHeartbeat(e)
        PROVE  StartUpStatement
    <2>1. pc[e] \in {"idle", "unhandled"}
      BY DEF Overlap
    <2>2. pc[e] = "unhandled" /\ (ExecRequiresAttention(e) \/ ExecGivesUp(e))
      BY <1>3, <2>1 DEF ExecStep, ExecHeartbeat, ExecStarts, HandlerReturns, HandlerThrows,
             ExecSucceeds, ExecChecksCancel, ExecFails, ExecCancels, ExecRetries,
             ExecRequiresAttention, ExecGivesUp
    <2>3. on[e] \in Op
      BY <2>2 DEF LeaseInv, Focus
    <2>. QED
      BY <2>2, <2>3 DEF ExecRequiresAttention, ExecGivesUp, StartUpStatement
  <1>4. CASE Restart \/ Recover \/ HandlersRegister \/ Tick \/ UNCHANGED vars
    BY <1>4 DEF Restart, HandlersRegister, Tick, vars, StartUpStatement
  <1>. QED
    BY <1>1, <1>2, <1>3, <1>4 DEF Next

\* Only a restart takes the handlers away, and it stops every execution and
\* every owner; only HandlersRegister brings them back.
LEMMA ReadyMoves ==
    ASSUME TypeOK, Overlap, [Next]_vars
    PROVE  /\ ready' => interrupted' = {}
           /\ ~ready' => /\ \A e \in Exec : pc'[e] \in {"idle", "unhandled"}
                         /\ \A o \in Op : owner'[o] = "none"
  <1>. USE DEF Overlap, TypeOK, ProcTypeOK
  <1>1. CASE Caller \/ (\E q \in Op : OwnerStep(q))
    <2>1. ready' = ready /\ interrupted' = interrupted /\ pc' = pc
      BY <1>1 DEF Caller, BeginOperation, OwnerAttaches, RequestCancellation, BackupStarts,
             BackupEnds, procVars, execVars, OwnerStep, OwnerStarts, OwnerSucceeds,
             OwnerFails, OwnerGivesUp
    <2>2. ready \/ owner' = owner
      BY <1>1 DEF Caller, OwnerStep, OwnerStarts, OwnerSucceeds, OwnerFails, OwnerGivesUp
    <2>. QED
      BY <2>1, <2>2
  <1>2. CASE PollStep \/ PollFails
    <2>1. ready' = ready /\ interrupted' = interrupted /\ owner' = owner
      BY <1>2 DEF PollStep, PollStarts, MaintainUnlock, MaintainNext, PollFindsNothing,
             PollRejectsPayload, MaintainLease, MaintainDeadline, MaintainAttempts,
             PollClaims, PollExecutes, PollFails
    <2>2. pc' = pc \/ \E e \in Exec : pc' = [pc EXCEPT ![e] = IF ready THEN "starting"
                                                                  ELSE "unhandled"]
      BY <1>2 DEF PollStep, PollStarts, MaintainUnlock, MaintainNext, PollFindsNothing,
             PollRejectsPayload, MaintainLease, MaintainDeadline, MaintainAttempts,
             PollClaims, PollExecutes, PollFails, execVars
    <2>. QED
      BY <2>1, <2>2
  <1>3. ASSUME NEW e \in Exec, ExecStep(e) \/ ExecHeartbeat(e)
        PROVE  /\ ready' = ready /\ interrupted' = interrupted /\ owner' = owner
               /\ \A f \in Exec : f # e => pc'[f] = pc[f]
               /\ pc[e] \in {"idle", "unhandled"} => pc'[e] = "idle"
    BY <1>3 DEF ExecStep, ExecHeartbeat, ExecStarts, HandlerReturns, HandlerThrows,
           ExecSucceeds, ExecChecksCancel, ExecFails, ExecCancels, ExecRetries,
           ExecRequiresAttention, ExecGivesUp, Ends, MovesTo
  <1>4. CASE Restart \/ Recover \/ HandlersRegister \/ Tick \/ UNCHANGED vars
    BY <1>4 DEF Restart, Recover, HandlersRegister, Tick, execVars, vars, procVars
  <1>. QED
    BY <1>1, <1>2, <1>3, <1>4 DEF Next

\* Only a lost lease and the recovery set RECOVERING, and both look at the
\* policy first.
LEMMA StatementKeepsRecoverable ==
    ASSUME LeaseInv, Overlap, Statement, RowsStay
    PROVE  \A o \in Op : status'[o] = "RECOVERING" => Recoverable(o)'
  <1>. SUFFICES ASSUME NEW o \in Op, status'[o] = "RECOVERING"
                PROVE  Recoverable(o)'
    OBVIOUS
  <1>. USE DEF LeaseInv, TypeOK, StoreTypeOK, Overlap, Recoverable
  <1>1. CASE status[o] = "RECOVERING"
    BY <1>1 DEF RowsStay
  <1>2. CASE status[o] # "RECOVERING" /\ ~Recover
    <2>1. ASSUME NEW q \in Op, LoseLease(q, pollAge)
          PROVE  Recoverable(o)'
      BY <1>2, <2>1 DEF LoseLease, rowVars
    <2>2. ASSUME NEW q \in Op, NEW n \in Nat, Finalizer(q, n)
          PROVE  status'[o] # "RECOVERING"
      <3>1. PICK s, outcome : Settle(q, s, outcome) /\ s # "RECOVERING"
        BY <2>2 DEF Finalizer, SucceedClaimed, FailClaimed, CancelClaimed,
                    RetryOrRequireAttention, RequireAttention
      <3>. QED
        BY <1>2, <3>1 DEF Settle
    <2>3. ~\E q \in Op, r \in Request, p \in Op \cup {None} : Begin(q, r, p)
      BY <1>2 DEF Begin
    <2>4. ~\E q \in Op : OwnerStatement(q)
      BY <1>2 DEF OwnerStatement, Start, Succeed, Fail
    <2>5. /\ ~\E q \in Op : CancelWaiting(q) \/ CancelRunning(q)
          /\ ~\E q \in Op : ClaimRow(q, boot, pollAge) \/ StartClaimed(q, boot)
          /\ ~\E q \in Op : ExpireRow(q, pollAge) \/ ExhaustRow(q) \/ DropLocks(q)
      BY <1>2 DEF CancelWaiting, CancelRunning, ClaimRow, StartClaimed, ExpireRow,
                  ExhaustRow, DropLocks
    <2>6. ~ \/ \E q \in Op, s \in Site, d \in Domain \cup {None} : AttachScope(q, s, d)
            \/ \E s \in Site : ReserveBackup(s) \/ FinishBackup(s)
            \/ \E q \in Op : HeartbeatClaim(q, boot)
            \/ Elapse \/ UNCHANGED storeVars
      BY <1>2 DEF AttachScope, ReserveBackup, FinishBackup, HeartbeatClaim, Elapse,
                  storeVars
    <2>. QED
      BY <1>2, <2>1, <2>2, <2>3, <2>4, <2>5, <2>6 DEF Statement, Maintenance
  <1>3. CASE Recover
    BY <1>3 DEF Recover, RecoverRows, rowVars
  <1>. QED
    BY <1>1, <1>2, <1>3

\* What the start-up makes of one row that it still has to recover.
LEMMA StartUpKeepsInterrupted ==
    ASSUME LeaseInv, Overlap, StartUpStatement, ~Recover, NEW o \in interrupted
    PROVE  /\ status'[o] \notin {"FREE", "QUEUED"}
           /\ \/ status'[o] = status[o]
              \/ status'[o] \notin Terminal
              \/ status'[o] = "FAILED" /\ Expired(o) /\ Recoverable(o)
  <1>0. /\ o \in Op /\ boot # 0 /\ status[o] \notin {"FREE", "QUEUED"}
        /\ status[o] = "RECOVERING" => Recoverable(o)
    BY DEF LeaseInv, TypeOK, ProcTypeOK, Overlap
  <1>. USE <1>0 DEF LeaseInv, TypeOK, StoreTypeOK, Terminal
  <1>1. ASSUME NEW q \in Op, Maintenance(q, pollAge) \/ ClaimRow(q, boot, pollAge)
        PROVE  /\ status'[o] \notin {"FREE", "QUEUED"}
               /\ \/ status'[o] = status[o]
                  \/ status'[o] \notin Terminal
                  \/ status'[o] = "FAILED" /\ Expired(o) /\ Recoverable(o)
    <2>1. CASE ExpireRow(q, pollAge)
      BY <2>1 DEF ExpireRow, DeadlinePassed, Expired
    <2>2. CASE LoseLease(q, pollAge)
      BY <2>2 DEF LoseLease
    <2>3. CASE ExhaustRow(q) \/ DropLocks(q)
      BY <2>3 DEF ExhaustRow, DropLocks
    <2>4. CASE ClaimRow(q, boot, pollAge)
      BY <2>4 DEF ClaimRow
    <2>. QED
      BY <1>1, <2>1, <2>2, <2>3, <2>4 DEF Maintenance
  <1>2. ASSUME NEW q \in Op, RequireAttention(q, boot)
        PROVE  status'[o] \in {status[o], "NEEDS_ATTENTION"}
    BY <1>2 DEF RequireAttention, Settle
  <1>3. CASE Elapse \/ UNCHANGED storeVars
    BY <1>3 DEF Elapse, storeVars
  <1>. QED
    BY <1>1, <1>2, <1>3 DEF StartUpStatement

\* Leases, and what recovery may meet.
OverlapInv == LeaseInv /\ Overlap

\* Every step keeps what recovery may meet.
LEMMA OverlapStep == OverlapInv /\ [Next]_vars => OverlapInv'
  <1>. SUFFICES ASSUME OverlapInv, [Next]_vars
                PROVE  OverlapInv'
    OBVIOUS
  <1>. USE DEF OverlapInv
  <1>1. LeaseInv' /\ Statement
    BY LeaseStep, StepIsStatement DEF LeaseInv
  <1>2. RowsStay
    BY <1>1, StatementKeepsRows DEF LeaseInv, LeaseDiscipline, LeaseMatchesStatus
  <1>3. \A o \in Op : status'[o] = "RECOVERING" => Recoverable(o)'
    BY <1>1, <1>2, StatementKeepsRecoverable
  <1>4. ASSUME NEW o \in interrupted'
        PROVE  /\ status'[o] \notin {"FREE", "QUEUED"}
               /\ status'[o] \in Terminal =>
                     status'[o] = "FAILED" /\ Expired(o)' /\ Recoverable(o)'
    <2>1. CASE Restart
      BY <1>4, <2>1 DEF Restart, storeVars, Interrupted, Leased, Terminal
    <2>2. CASE Recover
      BY <1>4, <2>2 DEF Recover
    <2>3. CASE ~Recover /\ interrupted' = interrupted
      <3>1. o \in interrupted /\ o \in Op /\ ~ready
        BY <1>4, <2>3 DEF Overlap, LeaseInv, TypeOK, ProcTypeOK
      <3>2. StartUpStatement
        BY <3>1, StartUpStep
      <3>3. /\ status'[o] \notin {"FREE", "QUEUED"}
            /\ status'[o] \in Terminal =>
                  status'[o] = "FAILED" /\ Expired(o) /\ Recoverable(o)
        BY <2>3, <3>1, <3>2, StartUpKeepsInterrupted DEF Overlap
      <3>4. req'[o] = req[o]
        BY <1>2, <3>1 DEF RowsStay, Overlap
      <3>. QED
        BY <3>1, <3>3, <3>4, ExpiredStays DEF Recoverable
    <2>. QED
      BY <2>1, <2>2, <2>3, BootsMove
  <1>5. /\ ready' => interrupted' = {}
        /\ ~ready' => /\ \A e \in Exec : pc'[e] \in {"idle", "unhandled"}
                      /\ \A o \in Op : owner'[o] = "none"
    BY ReadyMoves DEF LeaseInv
  <1>. QED
    BY <1>1, <1>3, <1>4, <1>5 DEF Overlap, Expired, Queued, Recoverable

\* OverlapInv holds throughout.
LEMMA OverlapInvariance == Spec => []OverlapInv
  <1>1. Init => OverlapInv
    BY LeaseInit DEF OverlapInv, Overlap, Init, StoreInit
  <1>. QED
    BY <1>1, OverlapStep, PTL DEF Spec

\* A finished row is left alone, or reopened by the recovery after it expired.
FinishedStay ==
    \A o \in Op : status[o] \in Terminal /\ status'[o] # status[o] =>
        /\ Recover /\ o \in interrupted /\ Expired(o)
        /\ status[o] = "FAILED" /\ status'[o] = "RECOVERING"

\* No statement but the recovery reaches a finished row.
LEMMA StatementKeepsFinished ==
    ASSUME OverlapInv, Statement
    PROVE  FinishedStay
  <1>. DEFINE Same == \A o \in Op : status[o] \in Terminal => status'[o] = status[o]
  <1>0. boot # 0
    BY DEF OverlapInv, LeaseInv, TypeOK, ProcTypeOK
  <1>. USE DEF OverlapInv, LeaseInv, TypeOK, StoreTypeOK, Terminal
  <1>1. ASSUME NEW o \in Op, OwnerStatement(o)
        PROVE  Same
    BY <1>1 DEF OwnerStatement, Start, Succeed, Fail, Children, LockHolding, Executing
  <1>2. ASSUME NEW o \in Op, Maintenance(o, pollAge)
        PROVE  Same
    BY <1>2 DEF Maintenance, LoseLease, LeaseLapsed, Leased, ExpireRow, DeadlinePassed,
                ExhaustRow, AttemptsSpent, DropLocks
  <1>3. ASSUME NEW o \in Op, NEW n \in Nat, Finalizer(o, n)
        PROVE  Same
    <2>1. PICK s, outcome : Settle(o, s, outcome)
      BY <1>3 DEF Finalizer, SucceedClaimed, FailClaimed, CancelClaimed,
                  RetryOrRequireAttention, RequireAttention
    <2>2. leaseOwner[o] = boot
      BY <1>3 DEF Finalizer, SucceedClaimed, FailClaimed, CancelClaimed, Finishable,
                  OwnsLease, RetryOrRequireAttention, RequireAttention
    <2>3. status[o] \notin Terminal
      BY <1>0, <2>2 DEF LeaseDiscipline, Leased
    <2>. QED
      BY <2>1, <2>3 DEF Settle
  <1>4. CASE Recover
    <2>. SUFFICES ASSUME NEW o \in Op, status[o] \in Terminal, status'[o] # status[o]
                  PROVE  /\ o \in interrupted /\ Expired(o)
                         /\ status[o] = "FAILED" /\ status'[o] = "RECOVERING"
      BY <1>4 DEF FinishedStay
    <2>1. o \in interrupted
      BY <1>4 DEF Recover, RecoverRows
    <2>2. status[o] = "FAILED" /\ Expired(o) /\ Recoverable(o)
      BY <2>1 DEF Overlap
    <2>. QED
      BY <1>4, <2>1, <2>2 DEF Recover, RecoverRows, Expired
  <1>5. CASE \/ \E o \in Op, r \in Request, p \in Op \cup {None} : Begin(o, r, p)
             \/ \E o \in Op : CancelWaiting(o) \/ CancelRunning(o)
             \/ \E o \in Op : ClaimRow(o, boot, pollAge)
             \/ \E o \in Op : StartClaimed(o, boot)
    <2>1. ASSUME \E o \in Op, r \in Request, p \in Op \cup {None} : Begin(o, r, p)
          PROVE  Same
      BY <2>1 DEF Begin
    <2>2. ASSUME \E o \in Op : CancelWaiting(o) \/ CancelRunning(o)
          PROVE  Same
      BY <2>2 DEF CancelWaiting, CancelRunning
    <2>3. ASSUME \E o \in Op : ClaimRow(o, boot, pollAge)
          PROVE  Same
      BY <2>3 DEF ClaimRow, Claimable
    <2>4. ASSUME \E o \in Op : StartClaimed(o, boot)
          PROVE  Same
      BY <2>4 DEF StartClaimed
    <2>5. Same
      BY <1>5, <2>1, <2>2, <2>3, <2>4
    <2>. QED
      BY <2>5 DEF FinishedStay
  <1>6. CASE \/ \E o \in Op, s \in Site, d \in Domain \cup {None} : AttachScope(o, s, d)
             \/ \E s \in Site : ReserveBackup(s) \/ FinishBackup(s)
             \/ \E o \in Op : HeartbeatClaim(o, boot)
             \/ Elapse \/ UNCHANGED storeVars
    <2>1. status' = status
      BY <1>6 DEF AttachScope, ReserveBackup, FinishBackup, HeartbeatClaim, Elapse,
                  storeVars
    <2>. QED
      BY <2>1 DEF FinishedStay
  <1>7. Same => FinishedStay
    BY DEF FinishedStay
  <1>. QED
    BY <1>1, <1>2, <1>3, <1>4, <1>5, <1>6, <1>7 DEF Statement

\* A finished operation keeps its final status whatever late finalizer, owner,
\* cancellation or maintenance still reaches for its row.  Only the recovery of
\* the next process may reopen it, and only a queued operation that the first
\* poll of that process failed for its deadline after the recovery had read it.
THEOREM FinishedIsFinal == Spec => TerminalIsFinal
  <1>1. OverlapInv /\ [Next]_vars =>
            [\A o \in Op : status[o] \in Terminal /\ status'[o] # status[o] =>
                /\ o \in interrupted /\ PastDeadline(o)
                /\ status[o] = "FAILED" /\ status'[o] = "RECOVERING"]_vars
    <2>. SUFFICES ASSUME OverlapInv, [Next]_vars, NEW o \in Op, status[o] \in Terminal,
                         status'[o] # status[o]
                  PROVE  /\ o \in interrupted /\ PastDeadline(o)
                         /\ status[o] = "FAILED" /\ status'[o] = "RECOVERING"
      OBVIOUS
    <2>1. FinishedStay
      BY StepIsStatement, StatementKeepsFinished DEF OverlapInv, LeaseInv
    <2>2. pollAge \in Int /\ pollAge >= 0 /\ deadlineLeft[o] \in Int
      BY BoundsAreNaturals DEF OverlapInv, LeaseInv, TypeOK, ProcTypeOK, StoreTypeOK
    <2>. QED
      BY <2>1, <2>2 DEF FinishedStay, Expired, PastDeadline
  <1>. QED
    BY <1>1, OverlapInvariance, PTL DEF Spec, TerminalIsFinal

-------------------------------------------------------------------------------
(***************************************************************************)
(* Lock coverage.  Locks go only with their finished owner and a row keeps *)
(* its request; a finished owner stays finished, or has been reopened by   *)
(* the recovery after it expired, and then nobody claims it any more.  So  *)
(* what begin() took is still held by every row that may have effects.     *)
(***************************************************************************)

\* A row that a recovery reopened: it waits to be expired once more.
Reopened(o) == status[o] = "RECOVERING" /\ Expired(o)

\* LockCoverage, with the exception as the poll sees it.
Covered ==
    \A o \in Op : status[o] \in LockHolding =>
        Reopened(o) \/ LockSpecs(req[o], parent[o]) \subseteq Held(o)

\* The inductive invariant behind LockCoverage.
CoverInv == OverlapInv /\ Covered

\* A row appears only through begin().
LEMMA RowsAppear ==
    ASSUME OverlapInv, Statement, NEW o \in Op, status[o] = "FREE", status'[o] # "FREE"
    PROVE  ready /\ \E r \in Request, p \in Op \cup {None} : Begin(o, r, p)
  <1>0. boot # 0
    BY DEF OverlapInv, LeaseInv, TypeOK, ProcTypeOK
  <1>. USE DEF OverlapInv, LeaseInv, TypeOK, StoreTypeOK
  <1>1. ASSUME NEW q \in Op, NEW r \in Request, NEW p \in Op \cup {None}, Begin(q, r, p)
        PROVE  q = o
    BY <1>1 DEF Begin
  <1>2. ~\E q \in Op : OwnerStatement(q)
    BY DEF OwnerStatement, Start, Succeed, Fail, Children, LockHolding, Executing, Owners
  <1>3. ~\E q \in Op : Maintenance(q, pollAge)
    BY DEF Maintenance, LoseLease, LeaseLapsed, Leased, ExpireRow, DeadlinePassed,
           ExhaustRow, AttemptsSpent, DropLocks
  <1>4. ASSUME NEW q \in Op, NEW n \in Nat, Finalizer(q, n)
        PROVE  FALSE
    <2>1. PICK s, outcome : Settle(q, s, outcome)
      BY <1>4 DEF Finalizer, SucceedClaimed, FailClaimed, CancelClaimed,
                  RetryOrRequireAttention, RequireAttention
    <2>2. leaseOwner[q] = boot
      BY <1>4 DEF Finalizer, SucceedClaimed, FailClaimed, CancelClaimed, Finishable,
                  OwnsLease, RetryOrRequireAttention, RequireAttention
    <2>3. status[q] # "FREE"
      BY <1>0, <2>2 DEF LeaseDiscipline, Leased
    <2>. QED
      BY <2>1, <2>3 DEF Settle
  <1>5. ~Recover
    BY DEF Recover, RecoverRows, Overlap
  <1>6. /\ ~\E q \in Op : CancelWaiting(q) \/ CancelRunning(q)
        /\ ~\E q \in Op : ClaimRow(q, boot, pollAge)
        /\ ~\E q \in Op : StartClaimed(q, boot)
    BY DEF CancelWaiting, CancelRunning, ClaimRow, Claimable, StartClaimed
  <1>7. ~ \/ \E q \in Op, s \in Site, d \in Domain \cup {None} : AttachScope(q, s, d)
          \/ \E s \in Site : ReserveBackup(s) \/ FinishBackup(s)
          \/ \E q \in Op : HeartbeatClaim(q, boot)
          \/ Elapse \/ UNCHANGED storeVars
    BY DEF AttachScope, ReserveBackup, FinishBackup, HeartbeatClaim, Elapse, storeVars
  <1>. QED
    BY <1>1, <1>2, <1>3, <1>4, <1>5, <1>6, <1>7 DEF Statement

\* A reopened row waits, or ends: it is not claimed.
LEMMA ReopenedWaits ==
    ASSUME OverlapInv, Statement, NEW o \in Op, Reopened(o)
    PROVE  status'[o] \in {"RECOVERING"} \cup Terminal
  <1>0. /\ boot # 0 /\ status[o] = "RECOVERING" /\ Recoverable(o) /\ Queued(o)
        /\ deadlineLeft[o] <= -pollAge /\ deadlineLeft[o] \in Int /\ pollAge \in Int
        /\ leaseOwner[o] = 0
    BY BoundsAreNaturals
       DEF OverlapInv, Overlap, LeaseInv, TypeOK, ProcTypeOK, StoreTypeOK, Reopened,
           Expired, LeaseDiscipline, Leased
  <1>. USE <1>0 DEF OverlapInv, LeaseInv, TypeOK, StoreTypeOK, Terminal
  <1>1. ASSUME NEW q \in Op, OwnerStatement(q)
        PROVE  status'[o] \in {"RECOVERING"} \cup Terminal
    BY <1>1 DEF OwnerStatement, Start, Succeed, Fail
  <1>2. ASSUME NEW q \in Op, Maintenance(q, pollAge)
        PROVE  status'[o] \in {"RECOVERING"} \cup Terminal
    BY <1>2 DEF Maintenance, LoseLease, LeaseLapsed, Leased, ExpireRow, ExhaustRow,
                AttemptsSpent, DropLocks
  <1>3. ASSUME NEW q \in Op, NEW n \in Nat, Finalizer(q, n)
        PROVE  status'[o] = "RECOVERING"
    <2>1. PICK s, outcome : Settle(q, s, outcome)
      BY <1>3 DEF Finalizer, SucceedClaimed, FailClaimed, CancelClaimed,
                  RetryOrRequireAttention, RequireAttention
    <2>2. leaseOwner[q] = boot
      BY <1>3 DEF Finalizer, SucceedClaimed, FailClaimed, CancelClaimed, Finishable,
                  OwnsLease, RetryOrRequireAttention, RequireAttention
    <2>. QED
      BY <2>1, <2>2 DEF Settle
  <1>4. ASSUME NEW q \in Op, ClaimRow(q, boot, pollAge)
        PROVE  status'[o] = "RECOVERING"
    <2>1. ~(deadlineLeft[o] > -pollAge)
      OBVIOUS
    <2>2. q # o
      BY <1>4, <2>1 DEF ClaimRow, Claimable
    <2>. QED
      BY <1>4, <2>2 DEF ClaimRow
  <1>5. CASE Recover
    BY <1>5 DEF Recover, RecoverRows
  <1>6. CASE \/ \E q \in Op, r \in Request, p \in Op \cup {None} : Begin(q, r, p)
             \/ \E q \in Op : CancelWaiting(q) \/ CancelRunning(q) \/ StartClaimed(q, boot)
    BY <1>6 DEF Begin, CancelWaiting, CancelRunning, StartClaimed
  <1>7. CASE \/ \E q \in Op, s \in Site, d \in Domain \cup {None} : AttachScope(q, s, d)
             \/ \E s \in Site : ReserveBackup(s) \/ FinishBackup(s)
             \/ \E q \in Op : HeartbeatClaim(q, boot)
             \/ Elapse \/ UNCHANGED storeVars
    BY <1>7 DEF AttachScope, ReserveBackup, FinishBackup, HeartbeatClaim, Elapse, storeVars
  <1>. QED
    BY <1>1, <1>2, <1>3, <1>4, <1>5, <1>6, <1>7 DEF Statement

\* Every step keeps the locks of the operations that need them.
LEMMA CoverStep ==
    ASSUME CoverInv, [Next]_vars
    PROVE  CoverInv'
  <1>. USE DEF CoverInv
  <1>1. Statement
    BY StepIsStatement DEF OverlapInv, LeaseInv
  <1>2. OverlapInv'
    BY OverlapStep
  <1>3. RowsStay /\ LocksGoWithOwner /\ FinishedStay
    BY <1>1, StatementKeepsRows, StatementKeepsLocks, StatementKeepsFinished
       DEF OverlapInv, LeaseInv, LeaseDiscipline, LeaseMatchesStatus
  <1>4. ASSUME NEW o \in Op, status'[o] \in LockHolding
        PROVE  Reopened(o)' \/ (LockSpecs(req[o], parent[o]) \subseteq Held(o))'
    <2>0. status'[o] \notin Terminal /\ o # None
      BY <1>4, OpsNumbered DEF LockHolding, Executing, Terminal
    <2>1. CASE status[o] = "FREE"
      <3>1. PICK r \in Request, p \in Op \cup {None} : Begin(o, r, p)
        BY <1>1, <1>4, <2>1, RowsAppear DEF LockHolding, Executing
      <3>2. req'[o] = r /\ parent'[o] = p
        BY <3>1 DEF Begin, OverlapInv, LeaseInv, TypeOK, StoreTypeOK
      <3>3. LockSpecs(r, p) \subseteq Resource
        BY RequestsWellFormed DEF LockSpecs, Resource, Nested, RequestType
      <3>. QED
        BY <3>1, <3>2, <3>3 DEF Begin, Held, LockSpecs
    <2>2. CASE status[o] \in Terminal
      <3>1. status'[o] = "RECOVERING" /\ Expired(o)
        BY <1>3, <2>0, <2>2 DEF FinishedStay
      <3>. QED
        BY <3>1, ExpiredStays DEF Reopened, OverlapInv
    <2>3. CASE Reopened(o)
      <3>1. status'[o] = "RECOVERING"
        BY <1>1, <2>0, <2>3, ReopenedWaits
      <3>. QED
        BY <2>3, <3>1, ExpiredStays DEF Reopened, OverlapInv
    <2>4. CASE status[o] \in LockHolding /\ ~Reopened(o)
      <3>2. req'[o] = req[o] /\ parent'[o] = parent[o]
        BY <1>3, <2>4 DEF RowsStay, LockHolding, Executing
      <3>3. \A x \in LockSpecs(req[o], parent[o]) : x \in Resource /\ locks[x] = o
        BY <2>4 DEF Covered, Held
      <3>5. \A x \in LockSpecs(req[o], parent[o]) : locks'[x] = o
        BY <1>3, <3>3, <2>0 DEF LocksGoWithOwner
      <3>. QED
        BY <3>2, <3>3, <3>5 DEF Held, LockSpecs
    <2>. QED
      BY <2>1, <2>2, <2>3, <2>4 DEF OverlapInv, LeaseInv, TypeOK, StoreTypeOK, Status
  <1>5. Covered'
    BY <1>4 DEF Covered
  <1>. QED
    BY <1>2, <1>5

\* An operation that may still have effects, or that waits for an operator,
\* holds every lock of the scope it began with; the exception is a row that a
\* recovery reopened after its deadline, which is never claimed again.
THEOREM LocksCover == Spec => []LockCoverage
  <1>1. Init => Covered
    BY DEF Init, StoreInit, Covered, LockHolding, Executing
  <1>2. CoverInv /\ [Next]_vars => Covered'
    BY CoverStep DEF CoverInv
  <1>3. CoverInv => LockCoverage
    <2>. SUFFICES ASSUME CoverInv, NEW o \in Op, status[o] \in LockHolding,
                         ~(status[o] = "RECOVERING" /\ PastDeadline(o))
                  PROVE  LockSpecs(req[o], parent[o]) \subseteq Held(o)
      BY DEF LockCoverage
    <2>1. pollAge \in Int /\ pollAge >= 0 /\ deadlineLeft[o] \in Int
      BY BoundsAreNaturals
         DEF CoverInv, OverlapInv, LeaseInv, TypeOK, ProcTypeOK, StoreTypeOK
    <2>2. ~Reopened(o)
      BY <2>1 DEF Reopened, Expired, PastDeadline
    <2>. QED
      BY <2>2 DEF CoverInv, Covered
  <1>. QED
    BY <1>1, <1>2, <1>3, OverlapInvariance, PTL DEF Spec, CoverInv
===============================================================================
