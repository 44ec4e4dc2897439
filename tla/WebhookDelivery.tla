-------------------------- MODULE WebhookDelivery --------------------------
(***************************************************************************)
(* Delivery of a Git provider's push webhooks: the public ingress and its  *)
(* spool on the master panel, the delivery worker with its leases, retries *)
(* and dead-letter queue, the redrive of an operator, and on the target    *)
(* panel the idempotency claim, the receipt and the deploy it triggers.    *)
(*                                                                         *)
(* A post is one HTTP request of the provider; the ingress draws a fresh   *)
(* delivery id for each, so the post stands for the id, its row and its    *)
(* spool file.  Posts with one Push key are repetitions of one provider    *)
(* delivery.  Time is abstract: a lease may run out and a retry may become *)
(* due at any moment.  A handler is split where it awaits the database,    *)
(* the file system or the network.                                         *)
(***************************************************************************)
EXTENDS Integers, FiniteSets

CONSTANTS
    Posts,        \* requests of providers, one delivery id each
    Routes,       \* webhook routes
    Targets,      \* installations the routes lead to
    Push,         \* post -> provider delivery id
    RouteOf,      \* post -> route
    TargetOf,     \* route -> target installation
    QueueLimit,   \* WEBHOOK_QUEUE_LIMIT
    Concurrency,  \* WEBHOOK_WORKER_CONCURRENCY
    MaxAttempts,  \* WEBHOOK_MAX_ATTEMPTS
    MaxRedrives,  \* bound: deliveries that are redriven, once each
    MaxFaults     \* bound: crashes, timeouts, lost requests, failed writes

ASSUME WebhookAssumption ==
    /\ Push \in [Posts -> Nat]
    /\ RouteOf \in [Posts -> Routes]
    /\ TargetOf \in [Routes -> Targets]
    /\ QueueLimit \in Nat \ {0}
    /\ Concurrency \in Nat \ {0}
    /\ MaxAttempts \in Nat \ {0}
    /\ MaxRedrives \in Nat
    /\ MaxFaults \in Nat

\* Places for the handlers that may be at work for one delivery: one the worker
\* waits for and one for every fault that made it give up an earlier one.
CallIds == 1 .. MaxFaults + 1

Domain(p) == TargetOf[RouteOf[p]]

SamePush(p, q) == RouteOf[p] = RouteOf[q] /\ Push[p] = Push[q]

VARIABLES
    routeState,  \* route -> WebhookRoute.state
    remote,      \* targets that are other panels (route.remoteServerId set)
    ignored,     \* posts whose ref is not the branch the domain deploys
    intake,      \* post -> progress of WebhookIngressService.accept
    row,         \* post -> WebhookDelivery row
    queue,       \* posts with a file in the queue directory of the spool
    dlq,         \* posts with a file in the dlq directory of the spool
    exec,        \* post -> progress of the worker's execute
    redriving,   \* post -> progress of the worker's redrive
    redriven,    \* posts an operator has redriven
    pc,          \* post -> place -> progress of a handler of the target
    key,         \* post -> place -> attempt in the idempotency key of its request
    waits,       \* post -> place of the handler whose answer execute awaits
    claims,      \* post -> attempts whose idempotency key the target holds
    receipt,     \* post -> WebhookDeliveryReceipt.state
    op,          \* posts whose deploy operation exists (its key is the post's)
    log,         \* posts with a deploy log, a failed one included
    emitted,     \* post -> deploys handed to the agent
    lock,        \* route -> holder of the domain's operation lock
    app,         \* route -> whether the domain's application can be deployed
    faults       \* faults so far

settings == <<remote, ignored>>
masterVars == <<intake, row, queue, dlq, exec, redriving, redriven>>
callVars == <<pc, key, waits>>
targetVars == <<claims, receipt, op, log, emitted, lock, app>>
vars == <<routeState, settings, masterVars, callVars, targetVars, faults>>

Queued == {"ACCEPTED", "DELIVERING", "RETRY_WAIT"}

RowStates == {"NONE", "DELIVERED", "DLQ"} \cup Queued

\* "this" is the worker id of the running process; a restart draws a new one.
Owners == {"none", "this", "earlier"}

Row(s, n, o) == [state |-> s, attempt |-> n, owner |-> o]

NoRow == Row("NONE", 0, "none")

IntakeSteps == {"new", "spool", "admit", "undo", "answered", "refused", "dead"}

ExecSteps ==
    {"idle", "revoked", "read", "send", "wait", "record", "remove", "fail", "toDlq"}

CallSteps == {"none", "guard", "find", "create", "trigger", "deploy", "emit",
              "record", "catch", "ok", "err", "dead"}

\* Steps at which a handler of the target is still at work.
Running == {"guard", "find", "create", "trigger", "deploy", "emit", "record", "catch"}

NoPlace == 0

TypeOK ==
    /\ routeState \in [Routes -> {"ACTIVE", "REVOKED"}]
    /\ remote \subseteq Targets
    /\ ignored \subseteq Posts
    /\ intake \in [Posts -> IntakeSteps]
    /\ row \in [Posts -> [state : RowStates, attempt : Nat, owner : Owners]]
    /\ queue \subseteq Posts
    /\ dlq \subseteq Posts
    /\ exec \in [Posts -> ExecSteps]
    /\ redriving \in [Posts -> {"idle", "move", "update"}]
    /\ redriven \subseteq Posts
    /\ pc \in [Posts -> [CallIds -> CallSteps]]
    /\ key \in [Posts -> [CallIds -> Nat]]
    /\ waits \in [Posts -> CallIds \cup {NoPlace}]
    /\ claims \in [Posts -> SUBSET Nat]
    /\ receipt \in [Posts -> {"NONE", "PROCESSING", "FAILED", "DELIVERED"}]
    /\ op \subseteq Posts
    /\ log \subseteq Posts
    /\ emitted \in [Posts -> Nat]
    /\ lock \in [Routes -> Posts \cup {"free", "other"}]
    /\ app \in [Routes -> {"fit", "unfit"}]
    /\ faults \in 0 .. MaxFaults

Init ==
    /\ routeState = [r \in Routes |-> "ACTIVE"]
    /\ remote \in SUBSET Targets
    /\ ignored \in SUBSET Posts
    /\ \A p, q \in Posts : SamePush(p, q) /\ p \in ignored => q \in ignored
    /\ intake = [p \in Posts |-> "new"]
    /\ row = [p \in Posts |-> NoRow]
    /\ queue = {}
    /\ dlq = {}
    /\ exec = [p \in Posts |-> "idle"]
    /\ redriving = [p \in Posts |-> "idle"]
    /\ redriven = {}
    /\ pc = [p \in Posts |-> [k \in CallIds |-> "none"]]
    /\ key = [p \in Posts |-> [k \in CallIds |-> 0]]
    /\ waits = [p \in Posts |-> NoPlace]
    /\ claims = [p \in Posts |-> {}]
    /\ receipt = [p \in Posts |-> "NONE"]
    /\ op = {}
    /\ log = {}
    /\ emitted = [p \in Posts |-> 0]
    /\ lock \in [Routes -> {"free", "other"}]
    /\ app \in [Routes -> {"fit", "unfit"}]
    /\ faults = 0

Fault ==
    /\ faults < MaxFaults
    /\ faults' = faults + 1

NoFault == UNCHANGED faults

-----------------------------------------------------------------------------
(* Ingress: WebhookIngressService.accept *)

\* The row of an earlier post of the same provider delivery, if any.
Known(p) == \E q \in Posts : SamePush(p, q) /\ row[q].state # "NONE"

QueuedPosts == {p \in Posts : row[p].state \in Queued}

QueueFull == Cardinality(QueuedPosts) >= QueueLimit

IntakeStep(p, from, to) ==
    /\ intake[p] = from
    /\ intake' = [intake EXCEPT ![p] = to]

\* Token, signature and the two reads before the spool is written.
Check(p) ==
    /\ IntakeStep(p, "new",
          IF routeState[RouteOf[p]] # "ACTIVE" THEN "refused"
          ELSE IF Known(p) THEN "answered"
          ELSE IF QueueFull THEN "refused" ELSE "spool")
    /\ UNCHANGED <<routeState, settings, row, queue, dlq, exec, redriving, redriven, callVars, targetVars, faults>>

\* spool.write: the file appears in the queue by a rename; it is refused when
\* the disk reserve would be touched.
Spool(p) ==
    /\ \/ IntakeStep(p, "spool", "admit") /\ queue' = queue \cup {p} /\ NoFault
       \/ IntakeStep(p, "spool", "refused") /\ Fault /\ UNCHANGED queue
    /\ UNCHANGED <<routeState, settings, row, dlq, exec, redriving, redriven, callVars, targetVars>>

\* The transaction: it looks for the provider delivery and counts again.
Admit(p) ==
    /\ \/ /\ Known(p) \/ QueueFull
          /\ IntakeStep(p, "admit", "undo")
          /\ UNCHANGED <<row, faults>>
       \/ /\ ~Known(p) /\ ~QueueFull
          /\ IntakeStep(p, "admit", "answered")
          /\ row' = [row EXCEPT ![p] = Row("ACCEPTED", 0, "none")]
          /\ NoFault
       \/ IntakeStep(p, "admit", "undo") /\ Fault /\ UNCHANGED row
    /\ UNCHANGED <<routeState, settings, queue, dlq, exec, redriving, redriven, callVars, targetVars>>

\* The file of a post that got no row is removed.
Undo(p) ==
    /\ IntakeStep(p, "undo", IF Known(p) THEN "answered" ELSE "refused")
    /\ queue' = queue \ {p}
    /\ UNCHANGED <<routeState, settings, row, dlq, exec, redriving, redriven, callVars, targetVars, faults>>

Revoke(r) ==
    /\ routeState[r] = "ACTIVE"
    /\ routeState' = [routeState EXCEPT ![r] = "REVOKED"]
    /\ UNCHANGED <<settings, masterVars, callVars, targetVars, faults>>

-----------------------------------------------------------------------------
(* Worker: claim, execute, fail, redrive *)

Active == {p \in Posts : exec[p] # "idle"}

ActiveTargets == {Domain(p) : p \in Active}

\* Mutant: a delivery whose lease has run out is not claimed again.
Claim_neverAgain(p) ==
    /\ row[p].state # "DELIVERING"
    /\ Cardinality(Active) < Concurrency
    /\ Domain(p) \notin ActiveTargets
    /\ row[p].state \in Queued
    /\ row' = [row EXCEPT ![p] = Row("DELIVERING", @.attempt + 1, "this")]
    /\ exec' = [exec EXCEPT ![p] =
                  IF routeState[RouteOf[p]] = "ACTIVE" THEN "read" ELSE "revoked"]
    /\ UNCHANGED <<routeState, settings, intake, queue, dlq, redriving, redriven, callVars, targetVars, faults>>

\* pollOnce and claimNext: a delivery that is due, or whose lease has run out.
\* execute begins with the route as it was re-read.
Claim(p) ==
    /\ Cardinality(Active) < Concurrency
    /\ Domain(p) \notin ActiveTargets
    /\ row[p].state \in Queued
    /\ row' = [row EXCEPT ![p] = Row("DELIVERING", @.attempt + 1, "this")]
    /\ exec' = [exec EXCEPT ![p] =
                  IF routeState[RouteOf[p]] = "ACTIVE" THEN "read" ELSE "revoked"]
    /\ UNCHANGED <<routeState, settings, intake, queue, dlq, redriving, redriven, callVars, targetVars, faults>>

ExecStep(p, from, to) ==
    /\ exec[p] = from
    /\ exec' = [exec EXCEPT ![p] = to]

\* spool.read fails when the file is not in the queue.
Read(p) ==
    /\ ExecStep(p, "read", IF p \in queue THEN "send" ELSE "fail")
    /\ UNCHANGED <<routeState, settings, intake, row, queue, dlq, redriving, redriven, callVars, targetVars, faults>>

\* The call to the target: in process, or dispatched with the idempotency key
\* of this attempt.  A remote target may be unreachable.
Send(p) ==
    /\ \/ /\ ExecStep(p, "send", "wait")
          /\ \E k \in CallIds :
                /\ pc[p][k] = "none"
                /\ \A j \in CallIds : j < k => pc[p][j] # "none"
                /\ pc' = [pc EXCEPT ![p][k] = IF Domain(p) \in remote THEN "guard" ELSE "find"]
                /\ key' = [key EXCEPT ![p][k] = IF Domain(p) \in remote THEN row[p].attempt ELSE 0]
                /\ waits' = [waits EXCEPT ![p] = k]
          /\ NoFault
       \/ ExecStep(p, "send", "fail") /\ Domain(p) \in remote /\ Fault /\ UNCHANGED callVars
    /\ UNCHANGED <<routeState, settings, intake, row, queue, dlq, redriving, redriven, targetVars>>

\* The answer of the awaited call; a dead target breaks the connection.
Answer(p) ==
    LET k == waits[p]
    IN  /\ k # NoPlace /\ pc[p][k] \in {"ok", "err", "dead"}
        /\ ExecStep(p, "wait", IF pc[p][k] = "ok" THEN "record" ELSE "fail")
        /\ pc' = [pc EXCEPT ![p][k] = "none"]
        /\ waits' = [waits EXCEPT ![p] = NoPlace]
        /\ UNCHANGED <<routeState, settings, intake, row, queue, dlq, redriving, redriven, key, targetVars, faults>>

\* A remote call is given up after WEBHOOK_DELIVERY_TIMEOUT_MS; its handler
\* goes on, and its answer will be dropped.
Timeout(p) ==
    /\ waits[p] # NoPlace /\ pc[p][waits[p]] \in Running
    /\ Domain(p) \in remote
    /\ Fault
    /\ ExecStep(p, "wait", "fail")
    /\ waits' = [waits EXCEPT ![p] = NoPlace]
    /\ UNCHANGED <<routeState, settings, intake, row, queue, dlq, redriving, redriven, pc, key, targetVars>>

\* The condition of every update the worker makes on a delivery it holds.
Held(p) == row[p].state = "DELIVERING" /\ row[p].owner = "this"

\* Mutant: the lease owner is emptied to a value the column does not have.
Settle_badOwner(p, s) == [row EXCEPT ![p] = Row(s, @.attempt, "")]

Settle(p, s) == [row EXCEPT ![p] = Row(s, @.attempt, "none")]

\* Mutant: the payload is removed before the row says DELIVERED.
Complete_removesFirst(p) ==
    /\ queue' = queue \ {p}
    /\ \/ /\ ExecStep(p, "record", IF Held(p) THEN "remove" ELSE "idle")
          /\ row' = IF Held(p) THEN Settle(p, "DELIVERED") ELSE row
          /\ NoFault
       \/ ExecStep(p, "record", "fail") /\ Fault /\ UNCHANGED row
    /\ UNCHANGED <<routeState, settings, intake, dlq, redriving, redriven, callVars, targetVars>>

Complete(p) ==
    /\ \/ /\ ExecStep(p, "record", IF Held(p) THEN "remove" ELSE "idle")
          /\ row' = IF Held(p) THEN Settle(p, "DELIVERED") ELSE row
          /\ NoFault
       \/ ExecStep(p, "record", "fail") /\ Fault /\ UNCHANGED row
    /\ UNCHANGED <<routeState, settings, intake, queue, dlq, redriving, redriven, callVars, targetVars>>

\* spool.remove; when it fails, the error takes the path of a failed delivery.
Remove(p) ==
    /\ \/ ExecStep(p, "remove", "idle") /\ queue' = queue \ {p} /\ NoFault
       \/ ExecStep(p, "remove", "fail") /\ Fault /\ UNCHANGED queue
    /\ UNCHANGED <<routeState, settings, intake, row, dlq, redriving, redriven, callVars, targetVars>>

Terminal(p) == exec[p] = "revoked" \/ row[p].attempt >= MaxAttempts

\* fail: a terminal delivery goes to the dead-letter queue, its file after its
\* row; another waits for its retry.  A failed write leaves the lease behind.
Fail(p) ==
    /\ exec[p] \in {"fail", "revoked"}
    /\ \/ /\ Held(p) /\ Terminal(p)
          /\ row' = Settle(p, "DLQ")
          /\ exec' = [exec EXCEPT ![p] = "toDlq"]
          /\ NoFault
       \/ /\ Held(p) /\ ~Terminal(p)
          /\ row' = Settle(p, "RETRY_WAIT")
          /\ exec' = [exec EXCEPT ![p] = "idle"]
          /\ NoFault
       \/ /\ (~Held(p) /\ NoFault) \/ Fault
          /\ exec' = [exec EXCEPT ![p] = "idle"]
          /\ UNCHANGED row
    /\ UNCHANGED <<routeState, settings, intake, queue, dlq, redriving, redriven, callVars, targetVars>>

\* spool.moveToDlq, whose errors are ignored.
ToDlq(p) ==
    /\ ExecStep(p, "toDlq", "idle")
    /\ \/ p \in queue /\ queue' = queue \ {p} /\ dlq' = dlq \cup {p} /\ NoFault
       \/ p \notin queue /\ UNCHANGED <<queue, dlq, faults>>
       \/ Fault /\ UNCHANGED <<queue, dlq>>
    /\ UNCHANGED <<routeState, settings, intake, row, redriving, redriven, callVars, targetVars>>

RedriveStep(p, from, to) ==
    /\ redriving[p] = from
    /\ redriving' = [redriving EXCEPT ![p] = to]

\* redrive, up to its first effect.
Redrive(p) ==
    /\ row[p].state = "DLQ" /\ routeState[RouteOf[p]] = "ACTIVE"
    /\ p \notin redriven /\ Cardinality(redriven) < MaxRedrives
    /\ RedriveStep(p, "idle", "move")
    /\ redriven' = redriven \cup {p}
    /\ UNCHANGED <<routeState, settings, intake, row, queue, dlq, exec, callVars, targetVars, faults>>

\* spool.moveToQueue: a file that is already there is accepted.
RedriveMove(p) ==
    /\ RedriveStep(p, "move", IF p \in queue \cup dlq THEN "update" ELSE "idle")
    /\ queue' = IF p \in dlq THEN queue \cup {p} ELSE queue
    /\ dlq' = dlq \ {p}
    /\ UNCHANGED <<routeState, settings, intake, row, exec, redriven, callVars, targetVars, faults>>

RedriveUpdate(p) ==
    /\ RedriveStep(p, "update", "idle")
    /\ row' = IF row[p].state = "DLQ"
                THEN [row EXCEPT ![p] = Row("ACCEPTED", 0, "none")] ELSE row
    /\ UNCHANGED <<routeState, settings, intake, queue, dlq, exec, redriven, callVars, targetVars, faults>>

-----------------------------------------------------------------------------
(* Target: FederationIdempotencyService.claim, then deliver of the target    *)
(* delivery service and triggerDeploy of the deploy service                  *)

CallStep(p, k, from, to) ==
    /\ pc[p][k] = from
    /\ pc' = [pc EXCEPT ![p][k] = to]
    /\ UNCHANGED <<key, waits>>

\* What a handler leaves behind: its answer, if somebody waits for it.
Ended(p, k, answer) == IF waits[p] = k THEN answer ELSE "none"

Reply(p, k, from, answer) == CallStep(p, k, from, Ended(p, k, answer))

\* A key that is bound is refused, the request was admitted before; it may be
\* bound again once its receipt has expired.
Guard(p, k) ==
    /\ pc[p][k] = "guard"
    /\ \/ key[p][k] \in claims[p] /\ pc' = [pc EXCEPT ![p][k] = Ended(p, k, "err")]
       \/ pc' = [pc EXCEPT ![p][k] = "find"]
    /\ claims' = [claims EXCEPT ![p] = @ \cup {key[p][k]}]
    /\ key' = [key EXCEPT ![p][k] = 0]
    /\ UNCHANGED <<routeState, settings, masterVars, waits, receipt, op, log, emitted, lock, app, faults>>

\* Mutant: a receipt that is being processed is answered as delivered.
Find_processingIsDone(p, k) ==
    /\ \/ receipt[p] \in {"DELIVERED", "PROCESSING"} /\ Reply(p, k, "find", "ok")
       \/ receipt[p] = "NONE" /\ CallStep(p, k, "find", "create")
       \/ receipt[p] = "FAILED" /\ CallStep(p, k, "find", "trigger")
    /\ UNCHANGED <<routeState, settings, masterVars, targetVars, faults>>

Find(p, k) ==
    /\ \/ receipt[p] = "DELIVERED" /\ Reply(p, k, "find", "ok")
       \/ receipt[p] = "NONE" /\ CallStep(p, k, "find", "create")
       \/ receipt[p] \in {"PROCESSING", "FAILED"} /\ CallStep(p, k, "find", "trigger")
    /\ UNCHANGED <<routeState, settings, masterVars, targetVars, faults>>

\* A receipt created in the meantime is taken over as it is.
Create(p, k) ==
    /\ CallStep(p, k, "create", "trigger")
    /\ receipt' = [receipt EXCEPT ![p] = IF @ = "NONE" THEN "PROCESSING" ELSE @]
    /\ UNCHANGED <<routeState, settings, masterVars, claims, op, log, emitted, lock, app, faults>>

\* Mutant: every attempt begins an operation under a key of its own.
Trigger_freshKey(p, k) ==
    LET r == RouteOf[p]
        begin == p \notin ignored /\ lock[r] = "free"
    IN  /\ CallStep(p, k, "trigger", CASE p \in ignored -> "record"
                                       [] begin -> "deploy"
                                       [] OTHER -> "catch")
        /\ op' = IF begin THEN op \cup {p} ELSE op
        /\ lock' = IF begin THEN [lock EXCEPT ![r] = p] ELSE lock
        /\ UNCHANGED <<routeState, settings, masterVars, claims, receipt, log, emitted, app, faults>>

\* findSiteByDomain, the branch, and operations.begin with the key of the
\* delivery: an operation that exists is replayed, whatever became of it.
Trigger(p, k) ==
    LET r == RouteOf[p]
        begin == p \notin ignored \cup op /\ lock[r] = "free"
    IN  /\ CallStep(p, k, "trigger", CASE p \in ignored \cup log -> "record"
                                       [] begin -> "deploy"
                                       [] OTHER -> "catch")
        /\ op' = IF begin THEN op \cup {p} ELSE op
        /\ lock' = IF begin THEN [lock EXCEPT ![r] = p] ELSE lock
        /\ UNCHANGED <<routeState, settings, masterVars, claims, receipt, log, emitted, app, faults>>

\* The lock of p's deploy operation, released when the operation ends.
Unlocked(p) == [r \in Routes |-> IF lock[r] = p THEN "free" ELSE lock[r]]

\* The checks of the application and the deploy log; a failure ends the
\* operation, and no log is left.
Deploy(p, k) ==
    /\ \/ /\ app[RouteOf[p]] = "fit"
          /\ CallStep(p, k, "deploy", "emit")
          /\ log' = log \cup {p}
          /\ UNCHANGED lock
       \/ /\ app[RouteOf[p]] # "fit"
          /\ CallStep(p, k, "deploy", "catch")
          /\ lock' = Unlocked(p)
          /\ UNCHANGED log
    /\ UNCHANGED <<routeState, settings, masterVars, claims, receipt, op, emitted, app, faults>>

\* One deploy more is handed to the agent for p.
HandedOver(p) == [emitted EXCEPT ![p] = @ + 1]

\* deploy:execute goes to the agent.  An agent that is not connected, or a
\* failure of the step recorded after the emit, ends the operation: the deploy
\* log stays, as a failed one.
Emit(p, k) ==
    /\ \/ /\ CallStep(p, k, "emit", "record") /\ NoFault
          /\ emitted' = HandedOver(p) /\ UNCHANGED lock
       \/ /\ CallStep(p, k, "emit", "catch") /\ Fault
          /\ emitted' \in {emitted, HandedOver(p)} /\ lock' = Unlocked(p)
    /\ UNCHANGED <<routeState, settings, masterVars, claims, receipt, op, log, app>>

Record(p, k) ==
    /\ \/ /\ Reply(p, k, "record", "ok") /\ NoFault
          /\ receipt' = [receipt EXCEPT ![p] = "DELIVERED"]
       \/ CallStep(p, k, "record", "catch") /\ Fault /\ UNCHANGED receipt
    /\ UNCHANGED <<routeState, settings, masterVars, claims, op, log, emitted, lock, app>>

\* Mutant: a failed handler overwrites a receipt that is delivered.
Catch_unguarded(p, k) ==
    /\ Reply(p, k, "catch", "err")
    /\ receipt' = [receipt EXCEPT ![p] = "FAILED"]
    /\ UNCHANGED <<routeState, settings, masterVars, claims, op, log, emitted, lock, app, faults>>

Catch(p, k) ==
    /\ Reply(p, k, "catch", "err")
    /\ receipt' = [receipt EXCEPT ![p] = IF @ = "DELIVERED" THEN @ ELSE "FAILED"]
    /\ UNCHANGED <<routeState, settings, masterVars, claims, op, log, emitted, lock, app, faults>>

\* The agent reports the end of a deploy: the operation and its lock end.
DeployDone(p) ==
    /\ emitted[p] > 0 /\ lock[RouteOf[p]] = p
    /\ lock' = Unlocked(p)
    /\ UNCHANGED <<routeState, settings, masterVars, callVars, claims, receipt, op, log, emitted, app, faults>>

\* Other work of the target lets go of the domain, or the operator repairs it.
Repair(r) ==
    /\ \/ lock[r] = "other" /\ lock' = [lock EXCEPT ![r] = "free"] /\ UNCHANGED app
       \/ app[r] # "fit" /\ app' = [app EXCEPT ![r] = "fit"] /\ UNCHANGED lock
    /\ UNCHANGED <<routeState, settings, masterVars, callVars, claims, receipt, op, log, emitted, faults>>

-----------------------------------------------------------------------------
(* Crashes *)

\* A handler cut off by the crash of its panel.
Interrupted(p, k) == IF pc[p][k] \in Running THEN Ended(p, k, "dead") ELSE pc[p][k]

\* The next start hands the interrupted deploys of S to an operator: they keep
\* the lock of their domain, and a late report of the agent ends them no more.
Interrupt(S) == [r \in Routes |-> IF lock[r] \in S THEN "other" ELSE lock[r]]

TargetCrash(t) ==
    /\ t \in remote
    /\ Fault
    /\ pc' = [p \in Posts |-> [k \in CallIds |->
                IF Domain(p) = t THEN Interrupted(p, k) ELSE pc[p][k]]]
    /\ key' = [p \in Posts |-> [k \in CallIds |-> IF Domain(p) = t THEN 0 ELSE key[p][k]]]
    /\ lock' = Interrupt({p \in Posts : Domain(p) = t})
    /\ UNCHANGED <<routeState, settings, masterVars, waits, claims, receipt, op, log, emitted, app>>

\* Files and rows survive; the handlers and the executions do not, and nobody
\* waits for the answer of a remote target any more.
MasterCrash ==
    /\ Fault
    /\ intake' = [p \in Posts |->
                    IF intake[p] \in {"spool", "admit", "undo"} THEN "dead" ELSE intake[p]]
    /\ row' = [p \in Posts |-> Row(row[p].state, row[p].attempt,
                                   IF row[p].owner = "this" THEN "earlier" ELSE row[p].owner)]
    /\ exec' = [p \in Posts |-> "idle"]
    /\ redriving' = [p \in Posts |-> "idle"]
    /\ pc' = [p \in Posts |-> [k \in CallIds |->
                IF Domain(p) \in remote /\ pc[p][k] \in Running THEN pc[p][k] ELSE "none"]]
    /\ waits' = [p \in Posts |-> NoPlace]
    /\ lock' = Interrupt({p \in Posts : Domain(p) \notin remote})
    /\ UNCHANGED <<routeState, settings, queue, dlq, redriven, key, claims, receipt, op, log, emitted, app>>

-----------------------------------------------------------------------------
Intake(p) == Check(p) \/ Spool(p) \/ Admit(p) \/ Undo(p)

Worker(p) ==
    \/ Claim(p) \/ Read(p) \/ Send(p) \/ Complete(p) \/ Remove(p) \/ Fail(p) \/ ToDlq(p)
    \/ Answer(p) \/ Timeout(p)

Handler(p, k) == Guard(p, k) \/ Find(p, k) \/ Create(p, k) \/ Trigger(p, k)
                    \/ Deploy(p, k) \/ Emit(p, k) \/ Record(p, k) \/ Catch(p, k)

Next ==
    \/ \E p \in Posts : Intake(p) \/ Worker(p)
          \/ Redrive(p) \/ RedriveMove(p) \/ RedriveUpdate(p)
          \/ DeployDone(p)
          \/ \E k \in CallIds : Handler(p, k)
    \/ \E r \in Routes : Revoke(r) \/ Repair(r)
    \/ \E t \in Targets : TargetCrash(t)
    \/ MasterCrash

Spec == Init /\ [][Next]_vars

\* Running handlers go on and the timer of the worker keeps firing.  Nobody has to post, redrive, repair or revoke.
Fairness ==
    \A p \in Posts :
        /\ WF_vars(Spool(p) \/ Admit(p) \/ Undo(p))
        /\ WF_vars(Worker(p))
        /\ WF_vars(RedriveMove(p) \/ RedriveUpdate(p))
        /\ \A k \in CallIds : WF_vars(Handler(p, k))

FairSpec == Spec /\ Fairness

-----------------------------------------------------------------------------
(* Properties *)

\* Until it is delivered, a delivery keeps its payload: a row that waits, is
\* being delivered or lies in the dead-letter queue has its file in one of the
\* two directories.  The file is written before the row, moved after it and
\* removed only after the row says DELIVERED, with a crash possible in between
\* and a redrive running against the worker.
PayloadKept ==
    \A p \in Posts : row[p].state \in Queued \cup {"DLQ"} => p \in queue \cup dlq

\* A push is deployed at most once, although the provider repeats it, the
\* worker retries it, an operator redrives it and a call that the master gave
\* up goes on at the target.
OneDeployPerPush ==
    /\ \A p \in Posts : emitted[p] <= 1
    /\ \A p, q \in Posts : SamePush(p, q) /\ emitted[p] > 0 /\ emitted[q] > 0 => p = q

\* DELIVERED is final, in the row of the master and in the receipt of the
\* target: late failures of the same delivery change neither.
DeliveredIsFinal ==
    [][\A p \in Posts : /\ row[p].state = "DELIVERED" => row'[p] = row[p]
                        /\ receipt[p] = "DELIVERED" => receipt'[p] = receipt[p]]_vars

\* A delivery that waits is eventually delivered or set aside, whatever
\* crashes, timeouts and failed writes come in between.
Settles ==
    \A p \in Posts : row[p].state \in Queued ~> row[p].state \in {"DELIVERED", "DLQ"}

\* What the runbook promises of a redrive once the cause is fixed: the delivery
\* reaches the target's deploy, unless its route is revoked.
RedriveDelivers ==
    \A p \in Posts :
        (p \in redriven /\ row[p].state = "ACCEPTED" /\ app[RouteOf[p]] = "fit"
            /\ lock[RouteOf[p]] = "free")
          ~> (row[p].state = "DELIVERED" \/ routeState[RouteOf[p]] = "REVOKED")

-----------------------------------------------------------------------------
(* Refinement: the rows and deploy logs implement PushDelivery *)

KeyOf(p) == <<RouteOf[p], Push[p]>>

Keys == {KeyOf(p) : p \in Posts}

\* One of the posts of push k has a row in one of the states S.
InState(k, S) == \E p \in Posts : KeyOf(p) = k /\ row[p].state \in S

\* The phase of a push is that of the row its posts share.
PhaseOf(k) ==
    IF InState(k, Queued) THEN "queued"
    ELSE IF InState(k, {"DELIVERED"}) THEN "delivered"
    ELSE IF InState(k, {"DLQ"}) THEN "dead" ELSE "unknown"

PhaseBar == [k \in Keys |-> PhaseOf(k)]

Promise == INSTANCE PushDelivery WITH
    Pushes <- Keys,
    phase <- PhaseBar,
    deployed <- {KeyOf(p) : p \in log},
    skipped <- {KeyOf(p) : p \in ignored}

\* Every behaviour of the ingress, the worker and the target is one that the
\* promise allows.
KeepsPromise == Promise!PushSpec

=============================================================================
