--------------------------- MODULE OperationsStore ---------------------------
(***************************************************************************)
(* The durable half of the operations subsystem: the tables `operations`   *)
(* and `operation_locks`, the site rows of `backups`, and the SQL          *)
(* statements and transactions that api/src/operations/operations.service  *)
(* runs on them.  A statement (or a Prisma transaction) is one step.       *)
(*                                                                         *)
(* An operation is named by its idempotency key, which the table keeps     *)
(* unique; a row that does not exist yet has status "FREE".  Rows are      *)
(* numbered in the order of created_at.                                    *)
(*                                                                         *)
(* Time is relative.  leaseLeft[o] and deadlineLeft[o] are the ticks until *)
(* lease_expires_at and deadline_at; they count down through zero and stop *)
(* at -MaxPollAge, the oldest `now` that any statement compares them with. *)
(***************************************************************************)
EXTENDS Integers, FiniteSets

CONSTANTS
    Op,                  \* operations, numbered by creation
    User,                \* createdByUserId
    Site, Domain, Database, Global,  \* the resources, one set per lock kind
    SiteOf,              \* the site a domain or a database belongs to
    None,                \* SQL NULL, and "no lock row"
    Request,             \* the calls of begin() that the callers make
    LeaseTicks,          \* the 30 s lease
    MaxPollAge,          \* how far the `now` of a poll may lag behind
    MaxQueuedPerTarget,  \* 128 in the code
    MaxQueuedPerActor,   \* 32 in the code
    MaxClaimed           \* 2 in the code

Nested   == Domain \cup Database
Resource == Site \cup Nested \cup Global

Policy == {"RETRY_SAFE", "RECONCILE_ONLY", "MANUAL"}
Mode   == {"INLINE", "QUEUED"}

RequestType ==
    [mode : Mode, user : User, child : BOOLEAN, lockSite : BOOLEAN,
     site : Site \cup {None}, domain : Domain \cup {None},
     database : Database \cup {None}, global : Global \cup {None},
     policy : Policy, maxAttempts : Nat \ {0}, ttl : Nat \ {0}]

\* The lock keys carry their kind as a prefix, so the four kinds are disjoint.
ASSUME ResourcesDisjoint ==
    /\ None \notin Resource
    /\ Site \cap (Nested \cup Global) = {}
    /\ Domain \cap Database = {} /\ Nested \cap Global = {}

ASSUME OpsNumbered == Op \subseteq Nat \ {0} /\ None \notin Op

ASSUME BoundsAreNaturals ==
    /\ LeaseTicks \in Nat \ {0}
    /\ MaxPollAge \in Nat
    /\ MaxQueuedPerTarget \in Nat /\ MaxQueuedPerActor \in Nat
    /\ MaxClaimed \in Nat \ {0}

ASSUME SiteOfType == SiteOf \in [Nested -> Site]

\* The two checks that begin() makes of a request itself (a nested scope needs
\* its site; only top-level operations take a global lock), and what every
\* caller respects: the domain or database belongs to the site it is given
\* with, and only inline operations have a parent.
ASSUME RequestsWellFormed ==
    /\ Request \subseteq RequestType
    /\ \A r \in Request :
          /\ \A x \in {r.domain, r.database} \ {None} : r.site = SiteOf[x]
          /\ r.child => r.global = None /\ r.mode = "INLINE"

Executing   == {"PENDING", "QUEUED", "CLAIMED", "RUNNING", "RECOVERING",
                "CANCEL_REQUESTED"}
LockHolding == Executing \cup {"UNKNOWN_RECOVERY_REQUIRED", "NEEDS_ATTENTION"}
Terminal    == {"SUCCEEDED", "FAILED", "CANCELLED"}
Status      == {"FREE"} \cup LockHolding \cup Terminal
CancelOutcome == {None, "NOT_REQUESTED", "PENDING", "CANCELLED", "TOO_LATE"}

\* The statuses in which a queued row carries a lease.
Leased == {"CLAIMED", "RUNNING", "CANCEL_REQUESTED"}
\* The statuses that admission counts.
InQueue == {"QUEUED", "RECOVERING"} \cup Leased

NoRequest == [mode |-> "INLINE", user |-> None, child |-> FALSE,
              lockSite |-> FALSE, site |-> None, domain |-> None,
              database |-> None, global |-> None, policy |-> "MANUAL",
              maxAttempts |-> 1, ttl |-> 1]

VARIABLES
    status, req, parent, site, domain, attempt,
    leaseOwner,          \* 0 for NULL, else the boot of the worker
    leaseLeft, deadlineLeft,
    cancelRequested,     \* cancel_requested_at is set
    cancelOutcome,
    locks,               \* operation_locks: resource -> owner or None
    backup               \* the sites with a PENDING or IN_PROGRESS backup

rowVars   == <<req, parent, site, domain, deadlineLeft>>
leaseVars == <<leaseOwner, leaseLeft>>
cancelVars == <<cancelRequested, cancelOutcome>>
storeVars == <<status, req, parent, site, domain, attempt, leaseOwner,
               leaseLeft, deadlineLeft, cancelRequested, cancelOutcome,
               locks, backup>>

StoreInit ==
    /\ status = [o \in Op |-> "FREE"]
    /\ req = [o \in Op |-> NoRequest]
    /\ parent = [o \in Op |-> None]
    /\ site = [o \in Op |-> None]
    /\ domain = [o \in Op |-> None]
    /\ attempt = [o \in Op |-> 0]
    /\ leaseOwner = [o \in Op |-> 0]
    /\ leaseLeft = [o \in Op |-> 0]
    /\ deadlineLeft = [o \in Op |-> 0]
    /\ cancelRequested = [o \in Op |-> FALSE]
    /\ cancelOutcome = [o \in Op |-> None]
    /\ locks = [r \in Resource |-> None]
    /\ backup = {}

Queued(o) == req[o].mode = "QUEUED"
Recoverable(o) == req[o].policy \in {"RETRY_SAFE", "RECONCILE_ONLY"}

-------------------------------------------------------------------------------
(***************************************************************************)
(* Scope locks.                                                            *)
(***************************************************************************)

\* operationLockSpecs: a child takes no global and no site lock of its own.
LockSpecs(r, p) ==
    ({r.domain, r.database}
        \cup (IF p = None THEN {r.global} ELSE {})
        \cup (IF p = None /\ r.lockSite THEN {r.site} ELSE {})) \ {None}

Held(o) == {x \in Resource : locks[x] = o}

\* deleteMany of the lock rows of the operations in S.
Release(S) ==
    locks' = [x \in Resource |-> IF locks[x] \in S THEN None ELSE locks[x]]

\* Mutant of ScopeAvailable: a site-wide operation does not look for nested locks.
ScopeAvailable_noNested(s, lockSite, p, self) ==
    s # None /\ ~(p = None /\ lockSite) => locks[s] \in {None, p, self}

\* assertScopeHierarchyAvailable for a scope in site s; `self` is the operation
\* whose own locks do not count.
ScopeAvailable(s, lockSite, p, self) ==
    \/ s = None
    \/ p # None /\ locks[s] \in {None, p, self}
    \/ p = None /\ ~lockSite /\ locks[s] \in {None, self}
    \/ /\ p = None /\ lockSite
       /\ \A x \in Nested, q \in Op \ {self} :
             locks[x] = q => ~(site[q] = s /\ status[q] \in LockHolding)

\* Mutant of AdmissionOpen: one too many.
AdmissionOpen_offByOne(u) ==
    Cardinality({o \in Op : Queued(o) /\ status[o] \in InQueue /\ req[o].user = u})
        <= MaxQueuedPerActor

AdmissionOpen(u) ==
    LET admitted == {o \in Op : Queued(o) /\ status[o] \in InQueue}
    IN  /\ Cardinality(admitted) < MaxQueuedPerTarget
        /\ Cardinality({o \in admitted : req[o].user = u}) < MaxQueuedPerActor

ParentCompatible(r, p) ==
    /\ r.child <=> p # None
    /\ p # None => /\ status[p] \in Executing
                   /\ req[p].user = r.user
                   /\ r.site # None => site[p] = r.site

\* begin(): admission, parent, backup and hierarchy checks, then the row and
\* its locks, all in one transaction.  A second call with the same key finds
\* the row and changes nothing.  Every refusal leaves the tables alone.
Begin(o, r, p) ==
    /\ status[o] = "FREE"
    /\ \A q \in Op : q < o => status[q] # "FREE"
    /\ r.mode = "QUEUED" => AdmissionOpen(r.user)
    /\ ParentCompatible(r, p)
    /\ r.site \notin backup
    /\ ScopeAvailable(r.site, r.lockSite, p, None)
    /\ \A x \in LockSpecs(r, p) : locks[x] = None
    /\ status' = [status EXCEPT ![o] = IF r.mode = "QUEUED" THEN "QUEUED"
                                                            ELSE "PENDING"]
    /\ req' = [req EXCEPT ![o] = r]
    /\ parent' = [parent EXCEPT ![o] = p]
    /\ site' = [site EXCEPT ![o] = r.site]
    /\ domain' = [domain EXCEPT ![o] = r.domain]
    /\ deadlineLeft' = [deadlineLeft EXCEPT ![o] = r.ttl]
    /\ cancelOutcome' = [cancelOutcome EXCEPT
                           ![o] = IF r.mode = "QUEUED" THEN "NOT_REQUESTED"
                                                       ELSE None]
    /\ locks' = [x \in Resource |-> IF x \in LockSpecs(r, p) THEN o ELSE locks[x]]
    /\ UNCHANGED <<attempt, leaseVars, cancelRequested, backup>>

\* Mutant of AttachScope: no look at the backups of the site.
AttachScope_noBackupCheck(o, s, d) ==
    LET wanted == {s, d} \ {None}
    IN  /\ status[o] \in Executing
        /\ ScopeAvailable(s, TRUE, None, o)
        /\ \A x \in wanted : locks[x] \in {None, o}
        /\ locks' = [x \in Resource |-> IF x \in wanted THEN o ELSE locks[x]]
        /\ site' = [site EXCEPT ![o] = s]
        /\ domain' = [domain EXCEPT ![o] = d]
        /\ UNCHANGED <<status, req, parent, attempt, leaseVars, deadlineLeft,
                       cancelVars, backup>>

\* attachScopeWithClient: the operation keeps what it holds and adds the locks
\* of the new scope that it does not own yet.
AttachScope(o, s, d) ==
    LET wanted == {s, d} \ {None}
    IN  /\ status[o] \in Executing
        /\ s \notin backup
        /\ ScopeAvailable(s, TRUE, None, o)
        /\ \A x \in wanted : locks[x] \in {None, o}
        /\ locks' = [x \in Resource |-> IF x \in wanted THEN o ELSE locks[x]]
        /\ site' = [site EXCEPT ![o] = s]
        /\ domain' = [domain EXCEPT ![o] = d]
        /\ UNCHANGED <<status, req, parent, attempt, leaseVars, deadlineLeft,
                       cancelVars, backup>>

\* reserveSiteBackupRows: only PENDING and RUNNING operations of the site stand
\* in the way.
ReserveBackup(s) ==
    /\ ~\E o \in Op : /\ status[o] \in {"PENDING", "RUNNING"}
                      /\ site[o] = s \/ locks[s] = o
    /\ s \notin backup
    /\ backup' = backup \cup {s}
    /\ UNCHANGED <<status, rowVars, attempt, leaseVars, cancelVars, locks>>

\* The backup rows of the site reach a final status.
FinishBackup(s) ==
    /\ s \in backup
    /\ backup' = backup \ {s}
    /\ UNCHANGED <<status, rowVars, attempt, leaseVars, cancelVars, locks>>

-------------------------------------------------------------------------------
(***************************************************************************)
(* Inline operations: the request that began one drives it to its end.     *)
(***************************************************************************)

\* Mutant of Children: finished children too.
Children_all(o) == {c \in Op : parent[c] = o}

Children(o) == {c \in Op : parent[c] = o /\ status[c] \in LockHolding}

Start(o) ==
    /\ status[o] = "PENDING"
    /\ status' = [status EXCEPT ![o] = "RUNNING"]
    /\ UNCHANGED <<rowVars, attempt, leaseVars, cancelVars, locks, backup>>

Succeed(o) ==
    /\ Children(o) = {}
    /\ status[o] = "RUNNING"
    /\ status' = [status EXCEPT ![o] = "SUCCEEDED"]
    /\ Release({o})
    /\ UNCHANGED <<rowVars, attempt, leaseVars, cancelVars, backup>>

\* fail(): the active children go first; the locks go even when the operation
\* itself was already finished.
Fail(o) ==
    /\ status' = [q \in Op |-> IF \/ q \in Children(o)
                                  \/ q = o /\ status[q] \in LockHolding
                               THEN "FAILED" ELSE status[q]]
    /\ Release(Children(o) \cup {o})
    /\ UNCHANGED <<rowVars, attempt, leaseVars, cancelVars, backup>>

\* requestCancellation of work that nobody executes yet: it ends at once.
CancelWaiting(o) ==
    /\ status[o] \in {"PENDING", "QUEUED", "RECOVERING"}
    /\ ~cancelRequested[o]
    /\ status' = [status EXCEPT ![o] = "CANCELLED"]
    /\ cancelRequested' = [cancelRequested EXCEPT ![o] = TRUE]
    /\ cancelOutcome' = [cancelOutcome EXCEPT ![o] = "CANCELLED"]
    /\ Release({o})
    /\ UNCHANGED <<rowVars, attempt, leaseVars, backup>>

\* Mutants of CancelRunning: a status the schema does not know; the locks given
\* back at the request.
CancelRunning_badStatus(o) ==
    /\ status[o] \in {"CLAIMED", "RUNNING"}
    /\ ~cancelRequested[o]
    /\ status' = [status EXCEPT ![o] = "CANCELLING"]
    /\ cancelRequested' = [cancelRequested EXCEPT ![o] = TRUE]
    /\ cancelOutcome' = [cancelOutcome EXCEPT ![o] = "PENDING"]
    /\ UNCHANGED <<rowVars, attempt, leaseVars, locks, backup>>

CancelRunning_unlocks(o) ==
    /\ status[o] \in {"CLAIMED", "RUNNING"}
    /\ ~cancelRequested[o]
    /\ status' = [status EXCEPT ![o] = "CANCEL_REQUESTED"]
    /\ cancelRequested' = [cancelRequested EXCEPT ![o] = TRUE]
    /\ cancelOutcome' = [cancelOutcome EXCEPT ![o] = "PENDING"]
    /\ Release({o})
    /\ UNCHANGED <<rowVars, attempt, leaseVars, backup>>

\* requestCancellation of claimed or running work: only a request.
CancelRunning(o) ==
    /\ status[o] \in {"CLAIMED", "RUNNING"}
    /\ ~cancelRequested[o]
    /\ status' = [status EXCEPT ![o] = "CANCEL_REQUESTED"]
    /\ cancelRequested' = [cancelRequested EXCEPT ![o] = TRUE]
    /\ cancelOutcome' = [cancelOutcome EXCEPT ![o] = "PENDING"]
    /\ UNCHANGED <<rowVars, attempt, leaseVars, locks, backup>>

-------------------------------------------------------------------------------
(***************************************************************************)
(* Queued operations: claims and leases.  `age` is how many ticks ago the  *)
(* caller read its clock; `w` is the lease owner it presents.              *)
(***************************************************************************)

SetLease(o, w, left) ==
    /\ leaseOwner' = [leaseOwner EXCEPT ![o] = w]
    /\ leaseLeft' = [leaseLeft EXCEPT ![o] = left]

Claimable(o, age) ==
    /\ Queued(o)
    /\ status[o] \in {"QUEUED", "RECOVERING"}
    /\ leaseOwner[o] = 0
    /\ ~cancelRequested[o]
    /\ deadlineLeft[o] > -age
    /\ status[o] = "RECOVERING" \/ attempt[o] < req[o].maxAttempts

LiveLeases(age) ==
    {o \in Op : Queued(o) /\ status[o] \in Leased /\ leaseLeft[o] > -age}

\* Mutant of CapacityLeft: off by one.
CapacityLeft_offByOne(age) == Cardinality(LiveLeases(age)) <= MaxClaimed

CapacityLeft(age) == Cardinality(LiveLeases(age)) < MaxClaimed

\* The UPDATE of claimNext: the oldest claimable row, if a slot is free.
ClaimRow(o, w, age) ==
    /\ Claimable(o, age)
    /\ \A q \in Op : Claimable(q, age) => o <= q
    /\ CapacityLeft(age)
    /\ status' = [status EXCEPT ![o] = "CLAIMED"]
    /\ attempt' = [attempt EXCEPT ![o] = IF status[o] = "QUEUED" THEN @ + 1 ELSE @]
    /\ SetLease(o, w, LeaseTicks - age)
    /\ UNCHANGED <<rowVars, cancelVars, locks, backup>>

\* maintainQueue, first loop: a lapsed lease.
LeaseLapsed(o, age) ==
    /\ Queued(o)
    /\ status[o] \in Leased
    /\ leaseLeft[o] <= -age

\* Mutants of LoseLease: the row keeps its lease owner; every policy is
\* recoverable.
LoseLease_keepsOwner(o, age) ==
    /\ LeaseLapsed(o, age)
    /\ status' = [status EXCEPT
                    ![o] = IF @ # "CANCEL_REQUESTED" /\ Recoverable(o)
                           THEN "RECOVERING" ELSE "NEEDS_ATTENTION"]
    /\ UNCHANGED <<rowVars, attempt, leaseVars, cancelVars, locks, backup>>

LoseLease_anyPolicy(o, age) ==
    /\ LeaseLapsed(o, age)
    /\ status' = [status EXCEPT ![o] = "RECOVERING"]
    /\ SetLease(o, 0, 0)
    /\ UNCHANGED <<rowVars, attempt, cancelVars, locks, backup>>

LoseLease(o, age) ==
    /\ LeaseLapsed(o, age)
    /\ status' = [status EXCEPT
                    ![o] = IF @ # "CANCEL_REQUESTED" /\ Recoverable(o)
                           THEN "RECOVERING" ELSE "NEEDS_ATTENTION"]
    /\ SetLease(o, 0, 0)
    /\ UNCHANGED <<rowVars, attempt, cancelVars, locks, backup>>

\* Mutant of DeadlinePassed: only rows that were never claimed expire.
DeadlinePassed_queuedOnly(o, age) ==
    Queued(o) /\ status[o] = "QUEUED" /\ deadlineLeft[o] <= -age

\* maintainQueue, second loop: a row past its deadline.  Its locks are deleted
\* by a statement of their own (DropLocks).
DeadlinePassed(o, age) ==
    /\ Queued(o)
    /\ status[o] \in {"QUEUED", "RECOVERING"}
    /\ deadlineLeft[o] <= -age

ExpireRow(o, age) ==
    /\ DeadlinePassed(o, age)
    /\ status' = [status EXCEPT ![o] = "FAILED"]
    /\ UNCHANGED <<rowVars, attempt, leaseVars, cancelVars, locks, backup>>

DropLocks(o) ==
    /\ IF status[o] = "FAILED" THEN Release({o}) ELSE UNCHANGED locks
    /\ UNCHANGED <<status, rowVars, attempt, leaseVars, cancelVars, backup>>

\* maintainQueue, third loop: no attempt left.
AttemptsSpent(o) ==
    /\ Queued(o)
    /\ status[o] = "QUEUED"
    /\ attempt[o] >= 1 /\ attempt[o] >= req[o].maxAttempts

ExhaustRow(o) ==
    /\ AttemptsSpent(o)
    /\ status' = [status EXCEPT ![o] = "NEEDS_ATTENTION"]
    /\ UNCHANGED <<rowVars, attempt, leaseVars, cancelVars, locks, backup>>

StartClaimed(o, w) ==
    /\ status[o] = "CLAIMED" /\ leaseOwner[o] = w /\ leaseLeft[o] > 0
    /\ status' = [status EXCEPT ![o] = "RUNNING"]
    /\ UNCHANGED <<rowVars, attempt, leaseVars, cancelVars, locks, backup>>

Renewable(o, w) ==
    /\ leaseOwner[o] = w /\ status[o] \in Leased
    /\ leaseLeft[o] > 0 /\ deadlineLeft[o] > 0

HeartbeatClaim(o, w) ==
    /\ Renewable(o, w)
    /\ SetLease(o, w, LeaseTicks)
    /\ UNCHANGED <<status, rowVars, attempt, cancelVars, locks, backup>>

\* isCancellationRequested: what the lease owner reads.
CancellationSeen(o, w) == leaseOwner[o] = w /\ cancelRequested[o]

\* Mutants of Settle: a retry gives the locks back; a failure keeps them.
Settle_unlocksRetry(o, s, outcome) ==
    /\ status' = [status EXCEPT ![o] = s]
    /\ cancelOutcome' = [cancelOutcome EXCEPT ![o] = outcome]
    /\ SetLease(o, 0, 0)
    /\ IF s # "NEEDS_ATTENTION" THEN Release({o}) ELSE UNCHANGED locks
    /\ UNCHANGED <<rowVars, attempt, cancelRequested, backup>>

Settle_failureKeepsLocks(o, s, outcome) ==
    /\ status' = [status EXCEPT ![o] = s]
    /\ cancelOutcome' = [cancelOutcome EXCEPT ![o] = outcome]
    /\ SetLease(o, 0, 0)
    /\ IF s \in Terminal \ {"FAILED"} THEN Release({o}) ELSE UNCHANGED locks
    /\ UNCHANGED <<rowVars, attempt, cancelRequested, backup>>

\* The common tail of the finalizers: the lease goes, and for a terminal
\* status the locks with it, in the same transaction.
Settle(o, s, outcome) ==
    /\ status' = [status EXCEPT ![o] = s]
    /\ cancelOutcome' = [cancelOutcome EXCEPT ![o] = outcome]
    /\ SetLease(o, 0, 0)
    /\ IF s \in Terminal THEN Release({o}) ELSE UNCHANGED locks
    /\ UNCHANGED <<rowVars, attempt, cancelRequested, backup>>

OwnsLease(o, w) == leaseOwner[o] = w /\ status[o] \in Leased

Finishable(o, w) == leaseOwner[o] = w /\ status[o] \in {"RUNNING", "CANCEL_REQUESTED"}

SucceedClaimed(o, w) ==
    /\ Finishable(o, w)
    /\ Settle(o, "SUCCEEDED", IF cancelRequested[o] THEN "TOO_LATE"
                                                    ELSE "NOT_REQUESTED")

FailClaimed(o, w) ==
    OwnsLease(o, w) /\ Settle(o, "FAILED", "NOT_REQUESTED")

\* Mutant of CancelClaimed: the outcome column is forgotten.
CancelClaimed_noOutcome(o, w) ==
    OwnsLease(o, w) /\ Settle(o, "CANCELLED", cancelOutcome[o])

CancelClaimed(o, w) ==
    OwnsLease(o, w) /\ Settle(o, "CANCELLED", "CANCELLED")

\* retryOrRequireAttention: n is the attempt in the claim the worker was given.
RetryOrRequireAttention(o, w, n) ==
    LET canRetry == /\ req[o].policy = "RETRY_SAFE"
                    /\ n < req[o].maxAttempts
                    /\ deadlineLeft[o] > 0
    IN  /\ OwnsLease(o, w)
        /\ Settle(o, IF canRetry THEN "QUEUED" ELSE "NEEDS_ATTENTION",
                  cancelOutcome[o])

\* Mutant of RequireAttention: the row is named by its id only.
RequireAttention_anyOwner(o, w) ==
    Settle(o, "NEEDS_ATTENTION", cancelOutcome[o])

\* requireAttention: the only finalizer whose WHERE has no status.
RequireAttention(o, w) ==
    /\ leaseOwner[o] = w
    /\ Settle(o, "NEEDS_ATTENTION", cancelOutcome[o])

-------------------------------------------------------------------------------
(***************************************************************************)
(* onModuleInit of OperationsService.                                      *)
(***************************************************************************)

Interrupted ==
    {o \in Op : \/ ~Queued(o) /\ status[o] \in {"PENDING", "RUNNING"}
                \/ Queued(o) /\ status[o] \in Leased \cup {"RECOVERING"}}

\* Mutant of RecoverRows: lost work gives its locks back.
RecoverRows_unlocks(I) ==
    /\ status' = [o \in Op |->
          IF o \notin I THEN status[o]
          ELSE IF Queued(o) /\ Recoverable(o) THEN "RECOVERING"
          ELSE "NEEDS_ATTENTION"]
    /\ leaseOwner' = [o \in Op |-> IF o \in I THEN 0 ELSE leaseOwner[o]]
    /\ leaseLeft' = [o \in Op |-> IF o \in I THEN 0 ELSE leaseLeft[o]]
    /\ Release(I)
    /\ UNCHANGED <<rowVars, attempt, cancelVars, backup>>

\* The recovery transaction on the rows I that its SELECT found.
RecoverRows(I) ==
    /\ status' = [o \in Op |->
          IF o \notin I THEN status[o]
          ELSE IF Queued(o) /\ Recoverable(o) THEN "RECOVERING"
          ELSE "NEEDS_ATTENTION"]
    /\ leaseOwner' = [o \in Op |-> IF o \in I THEN 0 ELSE leaseOwner[o]]
    /\ leaseLeft' = [o \in Op |-> IF o \in I THEN 0 ELSE leaseLeft[o]]
    /\ UNCHANGED <<rowVars, attempt, cancelVars, locks, backup>>

\* One tick of the wall clock.
Elapse ==
    LET down(n) == IF n > -MaxPollAge THEN n - 1 ELSE n
    IN  /\ leaseLeft' = [o \in Op |-> IF leaseOwner[o] # 0 THEN down(leaseLeft[o])
                                                          ELSE leaseLeft[o]]
        /\ deadlineLeft' = [o \in Op |-> IF Queued(o) THEN down(deadlineLeft[o])
                                                      ELSE deadlineLeft[o]]
        /\ UNCHANGED <<status, req, parent, site, domain, attempt, leaseOwner,
                       cancelVars, locks, backup>>

StoreTypeOK ==
    /\ status \in [Op -> Status]
    /\ req \in [Op -> Request \cup {NoRequest}]
    /\ parent \in [Op -> Op \cup {None}]
    /\ site \in [Op -> Site \cup {None}]
    /\ domain \in [Op -> Domain \cup {None}]
    /\ attempt \in [Op -> Nat]
    /\ leaseOwner \in [Op -> Nat]
    /\ leaseLeft \in [Op -> Int]
    /\ deadlineLeft \in [Op -> Int]
    /\ cancelRequested \in [Op -> BOOLEAN]
    /\ cancelOutcome \in [Op -> CancelOutcome]
    /\ locks \in [Resource -> Op \cup {None}]
    /\ backup \subseteq Site
===============================================================================
