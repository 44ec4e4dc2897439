----------------------------- MODULE MCOperations -----------------------------
(***************************************************************************)
(* Small instances of OperationsWorker.                                    *)
(***************************************************************************)
EXTENDS OperationsWorker

CONSTANTS u1, u2, s1, s2, d1, d2, b1, g1

Ask(mode, policy, attempts, ttl) ==
    [mode |-> mode, user |-> u1, child |-> FALSE, lockSite |-> TRUE,
     site |-> None, domain |-> None, database |-> None, global |-> None,
     policy |-> policy, maxAttempts |-> attempts, ttl |-> ttl]

MCSiteOf == [x \in Nested |-> IF x = d2 THEN s2 ELSE s1]

\* Queued work that competes for one global lock, with every recovery policy.
QueueRequests ==
    {[Ask("QUEUED", "RETRY_SAFE", 2, 2) EXCEPT !.global = g1],
     Ask("QUEUED", "MANUAL", 1, 2),
     [Ask("QUEUED", "RECONCILE_ONLY", 1, 2) EXCEPT !.user = u2]}

\* Work that may be executed again, with time for a second lease.
ProgressRequests ==
    {Ask("QUEUED", "RETRY_SAFE", 2, 2), Ask("QUEUED", "RECONCILE_ONLY", 1, 2)}

\* Deletion of a site: queued, with the lock of the site.
DeletionRequests == {[Ask("QUEUED", "RECONCILE_ONLY", 1, 2) EXCEPT !.site = s1]}

Inline == Ask("INLINE", "MANUAL", 1, 1)

\* The shapes of scope that the callers of begin() use: site creation and its
\* domain children, duplication, a site-wide mutation, and independent domain
\* and database mutations.
ScopeRequests ==
    {[Inline EXCEPT !.global = g1],
     [Inline EXCEPT !.site = s1, !.domain = d1, !.child = TRUE],
     [Inline EXCEPT !.global = g1, !.site = s1, !.domain = d1],
     [Inline EXCEPT !.site = s1],
     [Inline EXCEPT !.site = s1, !.domain = d1, !.lockSite = FALSE],
     [Inline EXCEPT !.site = s1, !.database = b1, !.lockSite = FALSE]}
===============================================================================
