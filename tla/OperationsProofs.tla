--------------------------- MODULE OperationsProofs ---------------------------
(***************************************************************************)
(* Theorems about OperationsWorker, for every set of operations, resources *)
(* and requests and every value of the bounds.                             *)
(***************************************************************************)
EXTENDS OperationsWorker, TLAPS

-------------------------------------------------------------------------------
(***************************************************************************)
(* The statements of OperationsStore keep the types of the tables.         *)
(***************************************************************************)

\* What an UPDATE of begin() writes has the right type.
LEMMA BeginType ==
    ASSUME StoreTypeOK, NEW o \in Op, NEW r \in Request, NEW p \in Op \cup {None},
           Begin(o, r, p)
    PROVE  StoreTypeOK'
  <1>1. r \in RequestType
    BY RequestsWellFormed
  <1>2. /\ r.site \in Site \cup {None} /\ r.domain \in Domain \cup {None}
        /\ r.ttl \in Nat
    BY <1>1 DEF RequestType
  <1>. QED
    BY <1>2 DEF StoreTypeOK, Begin, Status, LockHolding, Executing, CancelOutcome,
                leaseVars

\* So has what the widening of a scope writes.
LEMMA AttachType ==
    ASSUME StoreTypeOK, NEW o \in Op, NEW s \in Site, NEW d \in Domain \cup {None},
           AttachScope(o, s, d)
    PROVE  StoreTypeOK'
  BY DEF StoreTypeOK, AttachScope, leaseVars, cancelVars

\* The statements of owners and of users who cancel.
LEMMA OwnerType ==
    ASSUME StoreTypeOK, NEW o \in Op,
           \/ Start(o) \/ Succeed(o) \/ Fail(o)
           \/ CancelWaiting(o) \/ CancelRunning(o)
    PROVE  StoreTypeOK'
  <1>. USE DEF StoreTypeOK, Status, LockHolding, Executing, Terminal, CancelOutcome,
               rowVars, leaseVars, cancelVars, Release
  <1>1. CASE Start(o)
    BY <1>1 DEF Start
  <1>2. CASE Succeed(o)
    BY <1>2 DEF Succeed
  <1>3. CASE Fail(o)
    BY <1>3 DEF Fail
  <1>4. CASE CancelWaiting(o)
    BY <1>4 DEF CancelWaiting
  <1>5. CASE CancelRunning(o)
    BY <1>5 DEF CancelRunning
  <1>. QED
    BY <1>1, <1>2, <1>3, <1>4, <1>5

\* The finalizers write through Settle.
LEMMA SettleType ==
    ASSUME StoreTypeOK, NEW o \in Op, NEW w \in Nat, NEW n \in Nat,
           \/ SucceedClaimed(o, w) \/ FailClaimed(o, w) \/ CancelClaimed(o, w)
           \/ RetryOrRequireAttention(o, w, n) \/ RequireAttention(o, w)
    PROVE  StoreTypeOK'
  <1>1. PICK s \in {"SUCCEEDED", "FAILED", "CANCELLED", "QUEUED", "NEEDS_ATTENTION"},
             outcome \in CancelOutcome : Settle(o, s, outcome)
    BY DEF StoreTypeOK, SucceedClaimed, FailClaimed, CancelClaimed,
           RetryOrRequireAttention, RequireAttention, CancelOutcome
  <1>. QED
    BY <1>1 DEF Settle, SetLease, Release, StoreTypeOK, Status, LockHolding, Executing,
                Terminal, rowVars

\* The statements of claims, leases, maintenance and recovery, and the clock.
LEMMA QueueType ==
    ASSUME StoreTypeOK, NEW o \in Op, NEW w \in Nat, NEW age \in 0..MaxPollAge,
           NEW I \in SUBSET Op,
           \/ ClaimRow(o, w, age) \/ LoseLease(o, age) \/ ExpireRow(o, age)
           \/ DropLocks(o) \/ ExhaustRow(o) \/ StartClaimed(o, w)
           \/ HeartbeatClaim(o, w) \/ RecoverRows(I)
    PROVE  StoreTypeOK'
  <1>. USE BoundsAreNaturals
           DEF StoreTypeOK, Status, LockHolding, Executing, Terminal, CancelOutcome,
               rowVars, leaseVars, cancelVars, SetLease
  <1>1. CASE ClaimRow(o, w, age)
    BY <1>1 DEF ClaimRow
  <1>2. CASE LoseLease(o, age)
    BY <1>2 DEF LoseLease
  <1>3. CASE ExpireRow(o, age)
    BY <1>3 DEF ExpireRow
  <1>4. CASE DropLocks(o)
    BY <1>4 DEF DropLocks, Release
  <1>5. CASE ExhaustRow(o)
    BY <1>5 DEF ExhaustRow
  <1>6. CASE StartClaimed(o, w)
    BY <1>6 DEF StartClaimed
  <1>7. CASE HeartbeatClaim(o, w)
    BY <1>7 DEF HeartbeatClaim
  <1>8. CASE RecoverRows(I)
    BY <1>8 DEF RecoverRows
  <1>. QED
    BY <1>1, <1>2, <1>3, <1>4, <1>5, <1>6, <1>7, <1>8

\* The clock keeps the columns well typed.
LEMMA ElapseType == StoreTypeOK /\ Elapse => StoreTypeOK'
  BY BoundsAreNaturals DEF Elapse, StoreTypeOK, cancelVars

\* A step that leaves the tables alone keeps their types.
LEMMA StutterType == StoreTypeOK /\ UNCHANGED storeVars => StoreTypeOK'
  BY DEF StoreTypeOK, storeVars

-------------------------------------------------------------------------------
(***************************************************************************)
(* Type correctness.  TypeOK is not inductive by itself: the steps that    *)
(* read pollOp and on[e] need them to name an operation.                  *)
(***************************************************************************)

\* The poll and the executions name the operation they are about to touch.
Focus ==
    /\ pollPc \in {"load", "unlock"} => pollOp \in Op
    /\ \A e \in Exec : pc[e] # "idle" => on[e] \in Op

\* The types of the poll's own variables.
PollTypeOK ==
    /\ pollPc \in PollPc /\ pollOp \in Op \cup {None} /\ pollAge \in 0..MaxPollAge
    /\ again \in BOOLEAN /\ batch \subseteq Op \X Status

\* A poll that ends leaves its variables well typed and its row unread.
LEMMA PollEndsType == PollEnds => PollTypeOK' /\ pollPc' = "idle"
  <1>1. {} \subseteq Op \X Status /\ 0 \in 0..MaxPollAge
    BY BoundsAreNaturals
  <1>. QED
    BY <1>1 DEF PollEnds, PollTypeOK, PollPc

\* begin, attachScope, requestCancellation, the backups and the inline owners.
LEMMA CallersKeepTypes ==
    ASSUME TypeOK, Focus, Caller \/ \E o \in Op : OwnerStep(o)
    PROVE  TypeOK' /\ Focus'
  <1>. USE DEF TypeOK, Focus
  <1>1. ASSUME NEW o \in Op, NEW r \in Request, NEW p \in Op \cup {None},
               BeginOperation(o, r, p)
        PROVE  TypeOK' /\ Focus'
    <2>1. StoreTypeOK'
      BY <1>1, BeginType DEF BeginOperation
    <2>. QED
      BY <1>1, <2>1 DEF BeginOperation, ProcTypeOK, OwnerPc, execVars, pollVars
  <1>2. ASSUME NEW o \in Op, NEW s \in Site, NEW d \in Domain \cup {None},
               OwnerAttaches(o, s, d)
        PROVE  TypeOK' /\ Focus'
    <2>1. StoreTypeOK'
      BY <1>2, AttachType DEF OwnerAttaches
    <2>. QED
      BY <1>2, <2>1 DEF OwnerAttaches, ProcTypeOK, procVars, execVars, pollVars
  <1>3. ASSUME NEW o \in Op, RequestCancellation(o)
        PROVE  TypeOK' /\ Focus'
    <2>1. StoreTypeOK'
      BY <1>3, OwnerType DEF RequestCancellation
    <2>. QED
      BY <1>3, <2>1 DEF RequestCancellation, ProcTypeOK, procVars, execVars, pollVars
  <1>4. ASSUME NEW s \in Site, BackupStarts(s) \/ BackupEnds(s)
        PROVE  TypeOK' /\ Focus'
    <2>1. StoreTypeOK'
      BY <1>4 DEF StoreTypeOK, BackupStarts, BackupEnds, ReserveBackup, FinishBackup,
                  rowVars, leaseVars, cancelVars
    <2>. QED
      BY <1>4, <2>1 DEF BackupStarts, BackupEnds, ProcTypeOK, procVars, execVars, pollVars
  <1>5. ASSUME NEW o \in Op, OwnerStep(o)
        PROVE  TypeOK' /\ Focus'
    <2>1. StoreTypeOK'
      BY <1>5, OwnerType, StutterType
         DEF OwnerStep, OwnerStarts, OwnerSucceeds, OwnerFails, OwnerGivesUp
    <2>. QED
      BY <1>5, <2>1 DEF OwnerStep, OwnerStarts, OwnerSucceeds, OwnerFails,
                        OwnerGivesUp, ProcTypeOK, OwnerPc, execVars, pollVars
  <1>. QED
    BY <1>1, <1>2, <1>3, <1>4, <1>5 DEF Caller

\* Every statement of claimNext and maintainQueue, failing ones included.
LEMMA PollKeepsTypes ==
    ASSUME TypeOK, Focus, PollStep \/ PollFails
    PROVE  TypeOK' /\ Focus'
  <1>. USE DEF TypeOK, Focus
  <1>1. boot \in Nat /\ pollAge \in 0..MaxPollAge
    BY WorkerBounds DEF ProcTypeOK
  <1>2. ASSUME PollStarts \/ MaintainNext \/ PollFindsNothing
        PROVE  TypeOK' /\ Focus'
    <2>1. \A R \in SUBSET Op : \A B \in Batches(R) : B \in SUBSET (Op \X Status)
      BY DEF Batches, StoreTypeOK
    <2>2. /\ LapsedRows(0) \in SUBSET Op /\ LapsedRows(pollAge) \in SUBSET Op
          /\ ExpiredRows(pollAge) \in SUBSET Op /\ RetriedRows \in SUBSET Op
      BY DEF LapsedRows, ExpiredRows, RetriedRows
    <2>3. StoreTypeOK'
      BY <1>2, StutterType DEF PollStarts, MaintainNext, PollFindsNothing
    <2>4. CASE PollStarts
      BY <2>1, <2>2, <2>3, <2>4 DEF PollStarts, ProcTypeOK, PollPc, execVars, pollVars
    <2>5. CASE MaintainNext
      BY <2>1, <2>2, <2>3, <2>5, BoundsAreNaturals
         DEF MaintainNext, ProcTypeOK, PollPc, execVars, pollVars
    <2>6. CASE PollFindsNothing
      <3>1. PollTypeOK' /\ pollPc' # "load" /\ pollPc' # "unlock"
        BY <2>1, <2>2, <2>6, PollEndsType DEF PollFindsNothing, PollTypeOK, ProcTypeOK, PollPc
      <3>. QED
        BY <2>3, <2>6, <3>1 DEF PollFindsNothing, PollTypeOK, ProcTypeOK, execVars
    <2>. QED
      BY <1>2, <2>4, <2>5, <2>6
  <1>3. ASSUME NEW row \in batch, MaintainLease(row) \/ MaintainAttempts(row)
        PROVE  TypeOK' /\ Focus'
    <2>1. row[1] \in Op
      BY DEF ProcTypeOK
    <2>2. StoreTypeOK'
      BY <1>1, <1>3, <2>1, QueueType, StutterType DEF MaintainLease, MaintainAttempts
    <2>. QED
      BY <1>3, <2>2 DEF MaintainLease, MaintainAttempts, ProcTypeOK, PollPc, execVars, pollVars
  <1>4. ASSUME NEW row \in batch, MaintainDeadline(row)
        PROVE  TypeOK' /\ Focus'
    <2>1. row[1] \in Op
      BY DEF ProcTypeOK
    <2>2. StoreTypeOK'
      BY <1>1, <1>4, <2>1, QueueType, StutterType DEF MaintainDeadline
    <2>. QED
      BY <1>4, <2>1, <2>2 DEF MaintainDeadline, ProcTypeOK, PollPc, execVars, pollVars
  <1>5. ASSUME MaintainUnlock
        PROVE  TypeOK' /\ Focus'
    <2>1. StoreTypeOK'
      BY <1>1, <1>5, QueueType DEF MaintainUnlock
    <2>. QED
      BY <1>5, <2>1 DEF MaintainUnlock, ProcTypeOK, PollPc, execVars, pollVars
  <1>6. ASSUME NEW o \in Op, PollClaims(o)
        PROVE  TypeOK' /\ Focus'
    <2>1. StoreTypeOK'
      BY <1>1, <1>6, QueueType DEF PollClaims
    <2>. QED
      BY <1>6, <2>1 DEF PollClaims, ProcTypeOK, PollPc, execVars, pollVars
  <1>7. ASSUME NEW e \in Exec, PollExecutes(e)
        PROVE  TypeOK' /\ Focus'
    <2>1. StoreTypeOK'
      BY <1>7, StutterType DEF PollExecutes
    <2>2. attempt[pollOp] \in Nat
      BY <1>7 DEF PollExecutes, StoreTypeOK
    <2>. QED
      BY <1>7, <2>1, <2>2, PollEndsType
         DEF PollExecutes, PollTypeOK, ProcTypeOK, ExecPc
  <1>8. ASSUME PollRejectsPayload \/ PollFails
        PROVE  TypeOK' /\ Focus'
    <2>1. StoreTypeOK'
      BY <1>1, <1>8, SettleType, StutterType DEF PollRejectsPayload, PollFails
    <2>. QED
      BY <1>8, <2>1, PollEndsType
         DEF PollRejectsPayload, PollFails, PollTypeOK, ProcTypeOK, execVars
  <1>. QED
    BY <1>2, <1>3, <1>4, <1>5, <1>6, <1>7, <1>8 DEF PollStep

\* Every step of execute() and its heartbeat.
LEMMA ExecutionsKeepTypes ==
    ASSUME TypeOK, Focus, NEW e \in Exec, ExecStep(e) \/ ExecHeartbeat(e)
    PROVE  TypeOK' /\ Focus'
  <1>. USE DEF TypeOK, Focus
  <1>1. boot \in Nat /\ snap[e] \in Nat /\ 0 \in 0..MaxPollAge /\ {} \in SUBSET Op
    BY WorkerBounds, BoundsAreNaturals DEF ProcTypeOK
  <1>2. pc[e] # "idle" /\ on[e] \in Op
    BY DEF ExecStep, ExecHeartbeat, ExecStarts, HandlerReturns, HandlerThrows,
           ExecSucceeds, ExecChecksCancel, ExecFails, ExecCancels, ExecRetries,
           ExecRequiresAttention, ExecGivesUp
  <1>3. StoreTypeOK'
    <2>1. CASE ExecStarts(e) \/ ExecHeartbeat(e)
      BY <1>1, <1>2, <2>1, QueueType, StutterType DEF ExecStarts, ExecHeartbeat
    <2>2. CASE \/ ExecSucceeds(e) \/ ExecFails(e) \/ ExecCancels(e) \/ ExecRetries(e)
               \/ ExecRequiresAttention(e)
      BY <1>1, <1>2, <2>2, SettleType, StutterType
         DEF ExecSucceeds, ExecFails, ExecCancels, ExecRetries, ExecRequiresAttention
    <2>3. CASE \/ HandlerReturns(e) \/ HandlerThrows(e) \/ ExecChecksCancel(e)
               \/ ExecGivesUp(e)
      BY <2>3, StutterType
         DEF HandlerReturns, HandlerThrows, ExecChecksCancel, ExecGivesUp
    <2>. QED
      BY <2>1, <2>2, <2>3 DEF ExecStep
  <1>4. CASE Ends(e)
    BY <1>3, <1>4 DEF Ends, ProcTypeOK, ExecPc, pollVars
  <1>5. ASSUME NEW l \in ExecPc, MovesTo(e, l)
        PROVE  TypeOK' /\ Focus'
    BY <1>2, <1>3, <1>5 DEF MovesTo, ProcTypeOK, pollVars
  <1>6. CASE ExecHeartbeat(e)
    BY <1>3, <1>6 DEF ExecHeartbeat, ProcTypeOK, pollVars
  <1>7. ExecHeartbeat(e) \/ Ends(e) \/ \E l \in ExecPc : MovesTo(e, l)
    BY DEF ExecStep, ExecStarts, HandlerReturns, HandlerThrows, ExecSucceeds,
           ExecChecksCancel, ExecFails, ExecCancels, ExecRetries,
           ExecRequiresAttention, ExecGivesUp, ExecPc
  <1>. QED
    BY <1>4, <1>5, <1>6, <1>7

\* Restart, recovery, registration of the handlers and time.
LEMMA ProcessKeepsTypes ==
    ASSUME TypeOK, Focus, Restart \/ Recover \/ HandlersRegister \/ Tick
    PROVE  TypeOK' /\ Focus'
  <1>. USE WorkerBounds, BoundsAreNaturals DEF TypeOK, Focus
  <1>1. CASE Restart
    <2>1. StoreTypeOK'
      BY <1>1, StutterType DEF Restart
    <2>2. boot' \in 1..MaxBoots /\ maintWait' \in 0..LeaseTicks
      BY <1>1 DEF Restart, ProcTypeOK
    <2>3. interrupted' \subseteq Op
      BY <1>1 DEF Restart, Interrupted
    <2>4. /\ pc' \in [Exec -> ExecPc] /\ on' \in [Exec -> Op \cup {None}]
          /\ snap' \in [Exec -> Nat] /\ lost' \in [Exec -> BOOLEAN]
          /\ owner' \in [Op -> OwnerPc] /\ active' \subseteq Op /\ ready' \in BOOLEAN
      BY <1>1 DEF Restart, ExecPc, OwnerPc
    <2>5. Focus' /\ PollTypeOK'
      BY <1>1, PollEndsType DEF Restart
    <2>. QED
      BY <2>1, <2>2, <2>3, <2>4, <2>5 DEF PollTypeOK, ProcTypeOK
  <1>2. CASE Recover
    <2>1. PICK o \in Op : o \in interrupted
      BY <1>2 DEF Recover, ProcTypeOK
    <2>2. StoreTypeOK'
      BY <1>2, <2>1, QueueType DEF Recover, ProcTypeOK
    <2>. QED
      BY <1>2, <2>2 DEF Recover, ProcTypeOK, execVars, pollVars
  <1>3. CASE HandlersRegister
    BY <1>3, StutterType DEF HandlersRegister, ProcTypeOK, execVars, pollVars
  <1>4. CASE Tick
    BY <1>4, ElapseType DEF Tick, ProcTypeOK, execVars, pollVars
  <1>. QED
    BY <1>1, <1>2, <1>3, <1>4

\* Every step keeps the types.
LEMMA TypeStep == TypeOK /\ Focus /\ [Next]_vars => TypeOK' /\ Focus'
  <1>. SUFFICES ASSUME TypeOK, Focus, [Next]_vars
                PROVE  TypeOK' /\ Focus'
    OBVIOUS
  <1>1. CASE Next
    BY <1>1, CallersKeepTypes, PollKeepsTypes, ExecutionsKeepTypes, ProcessKeepsTypes
       DEF Next
  <1>2. CASE UNCHANGED vars
    BY <1>2, StutterType DEF TypeOK, Focus, ProcTypeOK, vars, procVars, execVars, pollVars
  <1>. QED
    BY <1>1, <1>2

\* The initial state has the types.
LEMMA TypeInit == Init => TypeOK /\ Focus
  <1>. SUFFICES ASSUME Init PROVE TypeOK /\ Focus
    OBVIOUS
  <1>. USE DEF Init
  <1>1. StoreTypeOK
    BY DEF StoreInit, StoreTypeOK, Status, CancelOutcome
  <1>2. /\ 1 \in 1..MaxBoots /\ 0 \in 0..LeaseTicks /\ 0 \in 0..MaxPollAge
        /\ {} \subseteq Op \X Status
    BY WorkerBounds, BoundsAreNaturals
  <1>3. ProcTypeOK
    BY <1>2 DEF ProcTypeOK, PollPc, ExecPc, OwnerPc
  <1>. QED
    BY <1>1, <1>3 DEF TypeOK, Focus

\* The columns of the tables and the variables of the process keep their types,
\* under every interleaving of callers, polls, executions and restarts.
THEOREM TypeCorrectness == Spec => []TypeOK
  <1>. QED
    BY TypeInit, TypeStep, PTL DEF Spec
===============================================================================
