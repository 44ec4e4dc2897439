------------------------- MODULE OperationsScopeProofs -------------------------
(***************************************************************************)
(* Theorems about the scopes of operations in OperationsWorker: inline     *)
(* operations and backups of a site exclude each other, and so do site-    *)
(* wide operations and operations on a domain or a database of the site.   *)
(***************************************************************************)
EXTENDS OperationsQueueProofs

\* What begin() locks: the only site among it is the site of the request, and
\* every domain or database in it belongs to that site.
LEMMA SpecsInSite ==
    ASSUME NEW r \in Request, NEW p \in Op \cup {None}, NEW x \in LockSpecs(r, p)
    PROVE  /\ x \in Resource
           /\ x \in Site => x = r.site
           /\ x \in Nested => r.site = SiteOf[x]
  <1>1. /\ r.site \in Site \cup {None} /\ r.domain \in Domain \cup {None}
        /\ r.database \in Database \cup {None} /\ r.global \in Global \cup {None}
        /\ \A y \in {r.domain, r.database} \ {None} : r.site = SiteOf[y]
    BY RequestsWellFormed DEF RequestType
  <1>2. x # None /\ x \in {r.domain, r.database, r.global, r.site}
    BY DEF LockSpecs
  <1>. QED
    BY <1>1, <1>2, ResourcesDisjoint DEF Resource, Nested

-------------------------------------------------------------------------------
(***************************************************************************)
(* Backups.                                                                *)
(***************************************************************************)

\* The inductive invariant behind BackupExcludesInline: a row that does not
\* exist yet must hold no lock (OrphanInv).
BackupInv == OrphanInv /\ BackupExcludesInline

\* No statement brings an inline operation and a backup of its site together.
LEMMA StatementKeepsBackups ==
    ASSUME BackupInv, Statement
    PROVE  BackupExcludesInline'
  <1>0. None \notin Op /\ "FREE" \notin LockHolding /\ backup \subseteq Site
    BY OpsNumbered DEF BackupInv, OrphanInv, LeaseInv, TypeOK, StoreTypeOK, LockHolding,
                       Executing
  <1>. USE <1>0 DEF BackupInv, OrphanInv, LeaseInv, TypeOK, StoreTypeOK,
                    BackupExcludesInline, Queued, rowVars, leaseVars, cancelVars
  <1>1. ASSUME NEW o \in Op, NEW r \in Request, NEW p \in Op \cup {None}, Begin(o, r, p)
        PROVE  BackupExcludesInline'
    <2>1. \A x \in Resource : locks[x] # o
      BY <1>1 DEF Begin, OrphansAreExpired
    <2>2. \A s \in backup : s \in Resource /\ s # r.site /\ s \notin LockSpecs(r, p)
      BY <1>1, SpecsInSite DEF Begin, Resource
    <2>. QED
      BY <1>1, <2>1, <2>2 DEF Begin
  <1>2. ASSUME NEW o \in Op, NEW s \in Site, NEW d \in Domain \cup {None},
               AttachScope(o, s, d)
        PROVE  BackupExcludesInline'
    <2>1. \A t \in backup : t \in Resource /\ t # s /\ t \notin {s, d} \ {None}
      BY <1>2, ResourcesDisjoint DEF AttachScope, Resource, Nested
    <2>. QED
      BY <1>2, <2>1 DEF AttachScope
  <1>3. ASSUME NEW s \in Site, ReserveBackup(s) \/ FinishBackup(s)
        PROVE  BackupExcludesInline'
    BY <1>3 DEF ReserveBackup, FinishBackup
  <1>4. ASSUME NEW o \in Op, OwnerStatement(o)
        PROVE  BackupExcludesInline'
    <2>1. CASE Start(o)
      BY <2>1 DEF Start
    <2>2. CASE Succeed(o) \/ Fail(o)
      BY <2>2 DEF Succeed, Fail, Release, Resource
    <2>. QED
      BY <1>4, <2>1, <2>2 DEF OwnerStatement
  <1>5. ASSUME NEW o \in Op, CancelWaiting(o) \/ CancelRunning(o)
        PROVE  BackupExcludesInline'
    BY <1>5 DEF CancelWaiting, CancelRunning, Release, Resource
  <1>6. ASSUME NEW o \in Op,
               ClaimRow(o, boot, pollAge) \/ Maintenance(o, pollAge)
        PROVE  BackupExcludesInline'
    BY <1>6 DEF ClaimRow, Maintenance, LoseLease, ExpireRow, ExhaustRow, DropLocks,
                Release, Resource
  <1>7. ASSUME NEW o \in Op, StartClaimed(o, boot) \/ HeartbeatClaim(o, boot)
        PROVE  BackupExcludesInline'
    BY <1>7 DEF StartClaimed, HeartbeatClaim, Modes
  <1>8. ASSUME NEW o \in Op, NEW n \in Nat, Finalizer(o, n)
        PROVE  BackupExcludesInline'
    <2>1. PICK s, outcome :
              Settle(o, s, outcome) /\ s \in Terminal \cup {"QUEUED", "NEEDS_ATTENTION"}
      BY <1>8 DEF Finalizer, SucceedClaimed, FailClaimed, CancelClaimed,
                  RetryOrRequireAttention, RequireAttention, Terminal
    <2>. QED
      BY <2>1 DEF Settle, Release, Terminal, Resource
  <1>9. CASE Recover
    BY <1>9 DEF Recover, RecoverRows
  <1>10. CASE Elapse \/ UNCHANGED storeVars
    BY <1>10 DEF Elapse, storeVars
  <1>. QED
    BY <1>1, <1>2, <1>3, <1>4, <1>5, <1>6, <1>7, <1>8, <1>9, <1>10 DEF Statement

\* No inline operation is pending or running on a site while a backup of the
\* site is active: begin(), attachScope and reserveSiteBackupRows check each
\* other's tables in one transaction each, and no other statement moves an
\* operation into the site or into those statuses.
THEOREM BackupsExcludeInline == Spec => []BackupExcludesInline
  <1>1. Init => BackupExcludesInline
    BY DEF Init, StoreInit, BackupExcludesInline
  <1>2. BackupInv /\ [Next]_vars => BackupExcludesInline'
    BY StepIsStatement, StatementKeepsBackups DEF BackupInv, OrphanInv, LeaseInv
  <1>. QED
    BY <1>1, <1>2, OrphanInvariance, PTL DEF Spec, BackupInv

-------------------------------------------------------------------------------
(***************************************************************************)
(* Site-wide and nested operations.                                        *)
(***************************************************************************)

\* An operation that may still have effects, or that the recovery will reopen.
Alive(o) == status[o] \in LockHolding \/ o \in interrupted

\* A site-wide operation holds the lock of the site it is in, also after it has
\* moved to another site, unless it has expired and holds nothing any more.
SiteWide ==
    \A q \in Op :
        Alive(q) /\ req[q].lockSite /\ ~req[q].child /\ site[q] # None
            => locks[site[q]] = q \/ Held(q) = {}

\* Who holds a domain or a database is in its site, or holds the site's lock.
NestedInSite ==
    \A x \in Nested, q \in Op :
        locks[x] = q /\ Alive(q) => site[q] = SiteOf[x] \/ locks[SiteOf[x]] = q

\* SiteExclusion, by the holders of the two locks.
Excluded ==
    \A x \in Nested, o, q \in Op :
        locks[SiteOf[x]] = o /\ locks[x] = q /\ o # q /\ Alive(q) => parent[q] = o

\* The inductive invariant behind SiteExclusion.
ScopeInv == OverlapInv /\ OrphansAreExpired /\ SiteWide /\ NestedInSite /\ Excluded

\* No row becomes one to recover but a living one.
InterruptedMove == \A o \in interrupted' : Alive(o) /\ o \in Op

\* A step that neither moves an operation nor adds a lock; an operation that
\* gives locks back gives all of them back.
ScopesStay ==
    /\ site' = site
    /\ \A x \in Resource : locks'[x] \in {None, locks[x]}
    /\ \A q \in Op : Held(q)' \in {{}, Held(q)}

\* Such a step keeps the invariant.
LEMMA StayingKeepsScopes ==
    ASSUME ScopeInv, ScopesStay, RowsStay, FinishedStay, InterruptedMove,
           TypeOK', \A o \in Op : status[o] = "FREE" => status'[o] = "FREE"
    PROVE  SiteWide' /\ NestedInSite' /\ Excluded'
  <1>0. /\ None \notin Op /\ LockHolding \cap Terminal = {} /\ "FREE" \notin LockHolding
        /\ Status = {"FREE"} \cup LockHolding \cup Terminal
        /\ \A x \in Nested : x \in Resource /\ SiteOf[x] \in Resource
        /\ \A q \in Op : site[q] # None => site[q] \in Resource
    BY OpsNumbered, SiteOfType
       DEF LockHolding, Executing, Terminal, Status, Resource, ScopeInv, OverlapInv,
           LeaseInv, TypeOK, StoreTypeOK
  <1>1. ASSUME NEW q \in Op, Alive(q)'
        PROVE  /\ Alive(q)
               /\ req'[q] = req[q] /\ parent'[q] = parent[q] /\ site'[q] = site[q]
    <2>1. Alive(q)
      BY <1>0, <1>1
         DEF Alive, InterruptedMove, FinishedStay, ScopeInv, OverlapInv, LeaseInv, TypeOK,
             StoreTypeOK
    <2>2. status[q] # "FREE"
      BY <1>0, <2>1 DEF Alive, ScopeInv, OverlapInv, Overlap
    <2>. QED
      BY <2>1, <2>2 DEF RowsStay, ScopesStay
  <1>2. \A x \in Resource, o \in Op : locks'[x] = o => locks[x] = o
    BY <1>0 DEF ScopesStay
  <1>3. \A q \in Op : \/ Held(q)' = {} /\ \A x \in Resource : locks'[x] # q
                      \/ Held(q)' = Held(q) /\ \A x \in Resource : locks'[x] = q <=> locks[x] = q
    BY DEF ScopesStay, Held
  <1>4. SiteWide'
    BY <1>0, <1>1, <1>3 DEF SiteWide, ScopeInv
  <1>5. NestedInSite'
    BY <1>0, <1>1, <1>3 DEF NestedInSite, ScopeInv
  <1>6. Excluded'
    BY <1>0, <1>1, <1>2 DEF Excluded, ScopeInv
  <1>. QED
    BY <1>4, <1>5, <1>6

\* begin() takes a site lock only if no living operation holds a domain or a
\* database of the site, and one of those only if the site is free or the
\* parent's.
LEMMA BeginKeepsScopes ==
    ASSUME ScopeInv, ready, interrupted' = interrupted, NEW o \in Op, NEW r \in Request, NEW p \in Op \cup {None},
           Begin(o, r, p)
    PROVE  SiteWide' /\ NestedInSite' /\ Excluded'
  <1>0. /\ None \notin Op /\ None \notin Resource /\ "FREE" \notin LockHolding
        /\ \A x \in Nested : x \in Resource /\ SiteOf[x] \in Resource /\ SiteOf[x] \in Site
        /\ \A q \in Op : site[q] # None => site[q] \in Resource
        /\ Nested \cap Site = {}
    BY OpsNumbered, SiteOfType, ResourcesDisjoint
       DEF LockHolding, Executing, Resource, ScopeInv, OverlapInv, LeaseInv, TypeOK,
           StoreTypeOK
  <1>a. \A q \in Op : /\ Alive(q) <=> status[q] \in LockHolding
                      /\ Alive(q)' <=> status'[q] \in LockHolding
    BY DEF Alive, ScopeInv, OverlapInv, Overlap
  <1>1. /\ status[o] = "FREE"
        /\ \A x \in Resource : locks[x] # o
        /\ ParentCompatible(r, p) /\ ScopeAvailable(r.site, r.lockSite, p, None)
        /\ \A x \in LockSpecs(r, p) : locks[x] = None
        /\ locks' = [x \in Resource |-> IF x \in LockSpecs(r, p) THEN o ELSE locks[x]]
    BY <1>0 DEF Begin, ScopeInv, OrphansAreExpired
  <1>2. /\ req'[o] = r /\ parent'[o] = p /\ site'[o] = r.site
        /\ \A q \in Op \ {o} : /\ status'[q] = status[q] /\ req'[q] = req[q]
                               /\ parent'[q] = parent[q] /\ site'[q] = site[q]
    BY DEF Begin, ScopeInv, OverlapInv, LeaseInv, TypeOK, StoreTypeOK
  <1>3. \A x \in LockSpecs(r, p) :
            /\ x \in Resource
            /\ x \in Site => x = r.site
            /\ x \in Nested => r.site = SiteOf[x]
    BY SpecsInSite
  <1>4. \A x \in Resource :
            /\ locks'[x] = o <=> x \in LockSpecs(r, p)
            /\ \A q \in Op \ {o} : locks'[x] = q <=> locks[x] = q
    BY <1>0, <1>1
  <1>5. SiteWide'
    <2>1. ASSUME r.lockSite, ~r.child, r.site # None
          PROVE  r.site \in LockSpecs(r, p)
      BY <1>1, <2>1 DEF LockSpecs, ParentCompatible
    <2>. QED
      BY <1>0, <1>a, <1>2, <1>3, <1>4, <2>1 DEF SiteWide, Held, ScopeInv
  <1>6. NestedInSite'
    BY <1>0, <1>a, <1>2, <1>3, <1>4 DEF NestedInSite, ScopeInv
  <1>7. ASSUME NEW x \in Nested, NEW s \in Op, NEW q \in Op, s # q,
               locks'[SiteOf[x]] = s, locks'[x] = q, status'[q] \in LockHolding
        PROVE  parent'[q] = s
    <2>1. CASE q # o /\ s # o
      BY <1>0, <1>a, <1>2, <1>4, <1>7, <2>1 DEF Excluded, ScopeInv
    <2>2. CASE s = o
      <3>1. SiteOf[x] \in LockSpecs(r, p) /\ SiteOf[x] = r.site /\ locks[r.site] = None
        BY <1>0, <1>1, <1>3, <1>4, <1>7, <2>2
      <3>2. locks[x] = q /\ status[q] \in LockHolding /\ site[q] = r.site
        BY <1>0, <1>a, <1>2, <1>4, <1>7, <2>2, <3>1 DEF NestedInSite, ScopeInv
      <3>3. p = None /\ r.lockSite
        <4>1. r.site \notin {r.domain, r.database, r.global}
          BY <1>0, <3>1, RequestsWellFormed, ResourcesDisjoint DEF RequestType, Nested
        <4>. QED
          BY <3>1, <4>1 DEF LockSpecs
      <3>. QED
        BY <1>0, <1>1, <3>1, <3>2, <3>3 DEF ScopeAvailable
    <2>3. CASE q = o /\ s # o
      <3>1. x \in LockSpecs(r, p) /\ r.site = SiteOf[x]
        BY <1>0, <1>3, <1>4, <1>7, <2>3
      <3>2. locks[r.site] = s /\ r.site \notin LockSpecs(r, p) /\ r.site # None
        BY <1>0, <1>4, <1>7, <2>3, <3>1
      <3>3. p # None \/ ~r.lockSite
        BY <3>2 DEF LockSpecs
      <3>4. s = p
        BY <1>0, <1>1, <3>2, <3>3 DEF ScopeAvailable
      <3>. QED
        BY <1>2, <2>3, <3>4
    <2>. QED
      BY <2>1, <2>2, <2>3
  <1>8. Excluded'
    BY <1>a, <1>7 DEF Excluded
  <1>. QED
    BY <1>5, <1>6, <1>8

\* attachScope takes the lock of the new site under the same condition, and
\* the operation keeps the lock of the site it leaves.
LEMMA AttachKeepsScopes ==
    ASSUME ScopeInv, ready, interrupted' = interrupted, NEW o \in Op, NEW s \in Site, NEW d \in Domain \cup {None},
           MayAttach(o, s, d), AttachScope(o, s, d)
    PROVE  SiteWide' /\ NestedInSite' /\ Excluded'
  <1>0. /\ None \notin Op /\ None \notin Resource /\ s \in Resource
        /\ \A x \in Nested : x \in Resource /\ SiteOf[x] \in Resource /\ SiteOf[x] \in Site
        /\ \A q \in Op : site[q] # None => site[q] \in Resource
        /\ Nested \cap Site = {} /\ Domain \subseteq Nested
    BY OpsNumbered, SiteOfType, ResourcesDisjoint
       DEF Resource, Nested, ScopeInv, OverlapInv, LeaseInv, TypeOK, StoreTypeOK
  <1>a. \A q \in Op : /\ Alive(q) <=> status[q] \in LockHolding
                      /\ Alive(q)' <=> status'[q] \in LockHolding
    BY DEF Alive, ScopeInv, OverlapInv, Overlap
  <1>1. /\ status[o] \in LockHolding /\ req[o].lockSite /\ ~req[o].child
        /\ \A x \in Nested, q \in Op \ {o} :
              locks[x] = q => ~(site[q] = s /\ status[q] \in LockHolding)
        /\ d # None => SiteOf[d] = s
    BY <1>0 DEF AttachScope, MayAttach, ScopeAvailable, LockHolding
  <1>2. /\ status' = status /\ req' = req /\ parent' = parent /\ site'[o] = s
        /\ \A q \in Op \ {o} : site'[q] = site[q]
    BY DEF AttachScope, ScopeInv, OverlapInv, LeaseInv, TypeOK, StoreTypeOK
  <1>3. \A x \in Resource :
            /\ locks'[x] = o <=> locks[x] = o \/ x \in {s, d} \ {None}
            /\ \A q \in Op \ {o} : locks'[x] = q <=> locks[x] = q
    BY <1>0 DEF AttachScope
  <1>4. SiteWide'
    BY <1>0, <1>a, <1>2, <1>3 DEF SiteWide, Held, ScopeInv
  <1>5. ASSUME NEW x \in Nested, NEW q \in Op, locks'[x] = q, status'[q] \in LockHolding
        PROVE  site'[q] = SiteOf[x] \/ locks'[SiteOf[x]] = q
    <2>1. CASE q # o
      BY <1>0, <1>a, <1>2, <1>3, <1>5, <2>1 DEF NestedInSite, ScopeInv
    <2>2. CASE q = o /\ locks[x] = o
      <3>1. site[o] = SiteOf[x] \/ locks[SiteOf[x]] = o
        BY <1>a, <1>1, <2>2 DEF NestedInSite, ScopeInv
      <3>2. locks[SiteOf[x]] = o
        BY <1>0, <1>a, <1>1, <2>2, <3>1 DEF SiteWide, Held, ScopeInv
      <3>. QED
        BY <1>0, <1>3, <2>2, <3>2
    <2>3. CASE q = o /\ locks[x] # o
      BY <1>0, <1>1, <1>2, <1>3, <1>5, <2>3
    <2>. QED
      BY <2>1, <2>2, <2>3
  <1>6. ASSUME NEW x \in Nested, NEW h \in Op, NEW q \in Op, h # q,
               locks'[SiteOf[x]] = h, locks'[x] = q, status'[q] \in LockHolding
        PROVE  parent'[q] = h
    <2>1. CASE locks[SiteOf[x]] = h /\ locks[x] = q
      BY <1>a, <1>2, <1>6, <2>1 DEF Excluded, ScopeInv
    <2>2. CASE locks[SiteOf[x]] # h
      <3>1. h = o /\ SiteOf[x] = s /\ locks[x] = q
        BY <1>0, <1>3, <1>6, <2>2
      <3>2. site[q] = s \/ locks[s] = q
        BY <1>a, <1>2, <1>6, <3>1 DEF NestedInSite, ScopeInv
      <3>3. locks[s] \in {None, o}
        BY <1>0 DEF AttachScope
      <3>. QED
        BY <1>0, <1>1, <1>2, <1>6, <3>1, <3>2, <3>3
    <2>3. CASE locks[x] # q
      <3>1. q = o /\ x = d /\ SiteOf[x] = s /\ locks'[s] = o
        BY <1>0, <1>1, <1>3, <1>6, <2>3
      <3>. QED
        BY <1>6, <3>1
    <2>. QED
      BY <2>1, <2>2, <2>3
  <1>7. NestedInSite'
    BY <1>a, <1>5 DEF NestedInSite
  <1>8. Excluded'
    BY <1>a, <1>6 DEF Excluded
  <1>. QED
    BY <1>4, <1>7, <1>8

\* Every other statement leaves scopes and locks alone, or gives locks back.
LEMMA StatementKeepsScopes ==
    ASSUME ScopeInv, TypeOK', Statement, InterruptedMove,
           ready => interrupted' = interrupted
    PROVE  SiteWide' /\ NestedInSite' /\ Excluded'
  <1>. DEFINE Goal == SiteWide' /\ NestedInSite' /\ Excluded'
  <1>1. RowsStay /\ FinishedStay
    BY StatementKeepsRows, StatementKeepsFinished
       DEF ScopeInv, OverlapInv, LeaseInv, LeaseDiscipline, LeaseMatchesStatus
  <1>2. ASSUME ready, NEW o \in Op, NEW r \in Request, NEW p \in Op \cup {None},
               Begin(o, r, p)
        PROVE  Goal
    BY <1>2, BeginKeepsScopes
  <1>3. ASSUME ready, NEW o \in Op, NEW s \in Site, NEW d \in Domain \cup {None},
               MayAttach(o, s, d), AttachScope(o, s, d)
        PROVE  Goal
    BY <1>3, AttachKeepsScopes
  <1>. DEFINE Begins == \E o \in Op, r \in Request, p \in Op \cup {None} : Begin(o, r, p)
  <1>. DEFINE Attaches == \E o \in Op, s \in Site, d \in Domain \cup {None} :
                             MayAttach(o, s, d) /\ AttachScope(o, s, d)
  <1>4. ASSUME ~(ready /\ Begins), ~(ready /\ Attaches)
        PROVE  ScopesStay
    <2>1. ASSUME site' = site, locks' = locks
          PROVE  ScopesStay
      BY <2>1 DEF ScopesStay, Held
    <2>2. ASSUME site' = site, NEW S, Release(S)
          PROVE  ScopesStay
      <3>1. \A x \in Resource : locks'[x] = IF locks[x] \in S THEN None ELSE locks[x]
        BY <2>2 DEF Release
      <3>2. \A q \in Op : Held(q)' = IF q \in S THEN {} ELSE Held(q)
        BY <3>1, OpsNumbered DEF Held
      <3>. QED
        BY <2>2, <3>1, <3>2 DEF ScopesStay
    <2>. USE DEF rowVars
    <2>3. CASE \E o \in Op : OwnerStatement(o)
      BY <2>1, <2>2, <2>3 DEF OwnerStatement, Start, Succeed, Fail
    <2>4. CASE \E o \in Op : CancelWaiting(o) \/ CancelRunning(o)
      BY <2>1, <2>2, <2>4 DEF CancelWaiting, CancelRunning
    <2>5. CASE \E o \in Op : ClaimRow(o, boot, pollAge) \/ Maintenance(o, pollAge)
      BY <2>1, <2>2, <2>5 DEF ClaimRow, Maintenance, LoseLease, ExpireRow, ExhaustRow,
                              DropLocks
    <2>6. ASSUME NEW o \in Op, NEW n \in Nat, Finalizer(o, n)
          PROVE  ScopesStay
      <3>1. PICK s, outcome : Settle(o, s, outcome)
        BY <2>6 DEF Finalizer, SucceedClaimed, FailClaimed, CancelClaimed,
                    RetryOrRequireAttention, RequireAttention
      <3>. QED
        BY <2>1, <2>2, <3>1 DEF Settle
    <2>7. CASE \/ \E s \in Site : ReserveBackup(s) \/ FinishBackup(s)
               \/ \E o \in Op : StartClaimed(o, boot) \/ HeartbeatClaim(o, boot)
               \/ Recover \/ Elapse \/ UNCHANGED storeVars
      BY <2>1, <2>7 DEF ReserveBackup, FinishBackup, StartClaimed, HeartbeatClaim, Recover,
                        RecoverRows, Elapse, storeVars
    <2>. QED
      BY <1>4, <2>3, <2>4, <2>5, <2>6, <2>7 DEF Statement
  <1>5. ASSUME ~(ready /\ Begins), NEW o \in Op, status[o] = "FREE"
        PROVE  status'[o] = "FREE"
    BY <1>5, RowsAppear DEF ScopeInv
  <1>. QED
    BY <1>1, <1>2, <1>3, <1>4, <1>5, StayingKeepsScopes

\* A site-wide operation and an operation on a domain or a database of the site
\* are never alive together, but for a parent and its child: whatever is
\* retried, recovered, reopened after its deadline, failed with its children or
\* widened to another site.
THEOREM SitesExclude == Spec => []SiteExclusion
  <1>1. Init => SiteWide /\ NestedInSite /\ Excluded
    BY DEF Init, StoreInit, SiteWide, NestedInSite, Excluded, Alive, LockHolding, Executing
  <1>2. ScopeInv /\ [Next]_vars => SiteWide' /\ NestedInSite' /\ Excluded'
    <2>. SUFFICES ASSUME ScopeInv, [Next]_vars
                  PROVE  SiteWide' /\ NestedInSite' /\ Excluded'
      OBVIOUS
    <2>1. TypeOK' /\ Statement
      BY TypeStep, StepIsStatement DEF ScopeInv, OverlapInv, LeaseInv
    <2>2. RowsStay /\ FinishedStay
      BY <2>1, StatementKeepsRows, StatementKeepsFinished
         DEF ScopeInv, OverlapInv, LeaseInv, LeaseDiscipline, LeaseMatchesStatus
    <2>3. CASE Restart
      <3>1. InterruptedMove
        BY <2>3 DEF Restart, InterruptedMove, Interrupted, Alive, Leased, LockHolding,
                    Executing
      <3>2. ScopesStay
        BY <2>3 DEF Restart, storeVars, ScopesStay, Held
      <3>3. status' = status
        BY <2>3 DEF Restart, storeVars
      <3>. QED
        BY <2>1, <2>2, <3>1, <3>2, <3>3, StayingKeepsScopes
    <2>4. CASE ~Restart
      <3>1. interrupted' = interrupted \/ (Recover /\ interrupted' = {} /\ ~ready)
        BY <2>4, BootsMove DEF Recover, ScopeInv, OverlapInv, Overlap
      <3>2. InterruptedMove
        BY <3>1 DEF InterruptedMove, Alive, ScopeInv, OverlapInv, LeaseInv, TypeOK, ProcTypeOK
      <3>. QED
        BY <2>1, <3>1, <3>2, StatementKeepsScopes
    <2>. QED
      BY <2>3, <2>4
  <1>3. ScopeInv => SiteExclusion
    BY DEF ScopeInv, Excluded, Alive, SiteExclusion
  <1>. QED
    BY <1>1, <1>2, <1>3, OrphanInvariance, OverlapInvariance, PTL
       DEF Spec, OrphanInv, ScopeInv
===============================================================================
