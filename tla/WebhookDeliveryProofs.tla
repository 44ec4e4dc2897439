----------------------- MODULE WebhookDeliveryProofs -----------------------
(***************************************************************************)
(* Theorems about WebhookDelivery, for every set of posts, routes and      *)
(* targets, every limit and any number of faults: the types, the payload   *)
(* of a delivery, the single deploy of a push, the finality of DELIVERED,  *)
(* and the refinement of PushDelivery.                                     *)
(***************************************************************************)
EXTENDS WebhookDelivery, TLAPS

-----------------------------------------------------------------------------
(* Types *)

LEMMA InitTypeOK == Init => TypeOK
  BY WebhookAssumption DEF Init, TypeOK, NoRow, Row, RowStates, Queued, Owners, IntakeSteps, ExecSteps,
     CallSteps, CallIds

LEMMA NextTypeOK == TypeOK /\ [Next]_vars => TypeOK'
  <1>. SUFFICES ASSUME TypeOK, [Next]_vars
                PROVE  TypeOK'
    OBVIOUS
  <1>. USE WebhookAssumption DEF TypeOK, settings, masterVars, callVars, targetVars, NoPlace, Fault, NoFault
  <1>1. ASSUME NEW p \in Posts, Check(p)
        PROVE  TypeOK'
    BY <1>1 DEF Check, IntakeStep, IntakeSteps
  <1>2. ASSUME NEW p \in Posts, Spool(p)
        PROVE  TypeOK'
    <2>1. CASE IntakeStep(p, "spool", "admit") /\ queue' = queue \cup {p} /\ NoFault
      BY <1>2, <2>1 DEF Spool, IntakeStep, IntakeSteps
    <2>2. CASE IntakeStep(p, "spool", "refused") /\ Fault /\ UNCHANGED queue
      BY <1>2, <2>2 DEF Spool, IntakeStep, IntakeSteps
    <2>. QED
      BY <1>2, <2>1, <2>2 DEF Spool
  <1>3. ASSUME NEW p \in Posts, Admit(p)
        PROVE  TypeOK'
    <2>1. CASE IntakeStep(p, "admit", "undo") /\ UNCHANGED <<row, faults>>
      BY <1>3, <2>1 DEF Admit, IntakeStep, IntakeSteps, Row, RowStates, Queued, Owners
    <2>2. CASE IntakeStep(p, "admit", "undo") /\ Fault /\ UNCHANGED row
      BY <1>3, <2>2 DEF Admit, IntakeStep, IntakeSteps, Row, RowStates, Queued, Owners
    <2>3. CASE IntakeStep(p, "admit", "answered") /\ NoFault
               /\ row' = [row EXCEPT ![p] = Row("ACCEPTED", 0, "none")]
      BY <1>3, <2>3 DEF Admit, IntakeStep, IntakeSteps, Row, RowStates, Queued, Owners
    <2>. QED
      BY <1>3, <2>1, <2>2, <2>3 DEF Admit
  <1>4. ASSUME NEW p \in Posts, Undo(p)
        PROVE  TypeOK'
    BY <1>4 DEF Undo, IntakeStep, IntakeSteps
  <1>5. ASSUME NEW p \in Posts, Claim(p)
        PROVE  TypeOK'
    BY <1>5 DEF Claim, Row, RowStates, Queued, Owners, ExecSteps
  <1>6. ASSUME NEW p \in Posts, Answer(p)
        PROVE  TypeOK'
    BY <1>6 DEF Answer, ExecStep, ExecSteps, CallSteps
  <1>7. ASSUME NEW p \in Posts, Timeout(p)
        PROVE  TypeOK'
    BY <1>7 DEF Timeout, ExecStep, ExecSteps, CallSteps
  <1>8. ASSUME NEW p \in Posts, Read(p)
        PROVE  TypeOK'
    BY <1>8 DEF Read, ExecStep, ExecSteps
  <1>9. ASSUME NEW p \in Posts, Send(p)
        PROVE  TypeOK'
    <2>1. CASE \E k \in CallIds :
               /\ pc' = [pc EXCEPT ![p][k] = IF Domain(p) \in remote THEN "guard" ELSE "find"]
               /\ key' = [key EXCEPT ![p][k] = IF Domain(p) \in remote THEN row[p].attempt ELSE 0]
               /\ waits' = [waits EXCEPT ![p] = k]
               /\ ExecStep(p, "send", "wait") /\ NoFault
      BY <1>9, <2>1 DEF Send, ExecStep, ExecSteps, CallSteps
    <2>2. CASE ExecStep(p, "send", "fail") /\ Fault /\ UNCHANGED callVars
      BY <1>9, <2>2 DEF Send, ExecStep, ExecSteps, CallSteps
    <2>. QED
      BY <1>9, <2>1, <2>2 DEF Send
  <1>10. ASSUME NEW p \in Posts, Complete(p)
        PROVE  TypeOK'
    <2>1. CASE ExecStep(p, "record", IF Held(p) THEN "remove" ELSE "idle") /\ NoFault
               /\ row' = IF Held(p) THEN Settle(p, "DELIVERED") ELSE row
      BY <1>10, <2>1 DEF Complete, ExecStep, ExecSteps, Settle, Row, RowStates, Owners
    <2>2. CASE ExecStep(p, "record", "fail") /\ Fault /\ UNCHANGED row
      BY <1>10, <2>2 DEF Complete, ExecStep, ExecSteps, Settle, Row, RowStates, Owners
    <2>. QED
      BY <1>10, <2>1, <2>2 DEF Complete
  <1>11. ASSUME NEW p \in Posts, Remove(p)
        PROVE  TypeOK'
    <2>1. CASE ExecStep(p, "remove", "idle") /\ queue' = queue \ {p} /\ NoFault
      BY <1>11, <2>1 DEF Remove, ExecStep, ExecSteps
    <2>2. CASE ExecStep(p, "remove", "fail") /\ Fault /\ UNCHANGED queue
      BY <1>11, <2>2 DEF Remove, ExecStep, ExecSteps
    <2>. QED
      BY <1>11, <2>1, <2>2 DEF Remove
  <1>12. ASSUME NEW p \in Posts, Fail(p)
        PROVE  TypeOK'
    <2>1. CASE row' = Settle(p, "DLQ") /\ exec' = [exec EXCEPT ![p] = "toDlq"] /\ NoFault
      BY <1>12, <2>1 DEF Fail, ExecSteps, Settle, Row, RowStates, Owners, Queued
    <2>2. CASE row' = Settle(p, "RETRY_WAIT") /\ exec' = [exec EXCEPT ![p] = "idle"] /\ NoFault
      BY <1>12, <2>2 DEF Fail, ExecSteps, Settle, Row, RowStates, Owners, Queued
    <2>3. CASE exec' = [exec EXCEPT ![p] = "idle"] /\ UNCHANGED row /\ NoFault
      BY <1>12, <2>3 DEF Fail, ExecSteps, Settle, Row, RowStates, Owners, Queued
    <2>4. CASE exec' = [exec EXCEPT ![p] = "idle"] /\ UNCHANGED row /\ Fault
      BY <1>12, <2>4 DEF Fail, ExecSteps, Settle, Row, RowStates, Owners, Queued
    <2>. QED
      BY <1>12, <2>1, <2>2, <2>3, <2>4 DEF Fail
  <1>13. ASSUME NEW p \in Posts, ToDlq(p)
        PROVE  TypeOK'
    BY <1>13 DEF ToDlq, ExecStep, ExecSteps
  <1>14. ASSUME NEW p \in Posts, Redrive(p)
        PROVE  TypeOK'
    BY <1>14 DEF Redrive, RedriveStep
  <1>15. ASSUME NEW p \in Posts, RedriveMove(p)
        PROVE  TypeOK'
    BY <1>15 DEF RedriveMove, RedriveStep
  <1>16. ASSUME NEW p \in Posts, RedriveUpdate(p)
        PROVE  TypeOK'
    BY <1>16 DEF RedriveUpdate, RedriveStep, NoRow, Row, RowStates, Queued, Owners
  <1>17. ASSUME NEW p \in Posts, DeployDone(p)
        PROVE  TypeOK'
    BY <1>17 DEF DeployDone, Unlocked
  <1>18. ASSUME NEW p \in Posts, NEW k \in CallIds, Guard(p, k)
        PROVE  TypeOK'
    <2>1. CASE pc' = [pc EXCEPT ![p][k] = Ended(p, k, "err")]
      BY <1>18, <2>1 DEF Guard, Ended, CallSteps
    <2>2. CASE pc' = [pc EXCEPT ![p][k] = "find"]
      BY <1>18, <2>2 DEF Guard, Ended, CallSteps
    <2>. QED
      BY <1>18, <2>1, <2>2 DEF Guard
  <1>19. ASSUME NEW p \in Posts, NEW k \in CallIds, Find(p, k)
        PROVE  TypeOK'
    <2>1. CASE Reply(p, k, "find", "ok")
      BY <1>19, <2>1 DEF Find, Reply, CallStep, Ended, CallSteps
    <2>2. CASE CallStep(p, k, "find", "create")
      BY <1>19, <2>2 DEF Find, Reply, CallStep, Ended, CallSteps
    <2>3. CASE CallStep(p, k, "find", "trigger")
      BY <1>19, <2>3 DEF Find, Reply, CallStep, Ended, CallSteps
    <2>. QED
      BY <1>19, <2>1, <2>2, <2>3 DEF Find
  <1>20. ASSUME NEW p \in Posts, NEW k \in CallIds, Create(p, k)
        PROVE  TypeOK'
    BY <1>20 DEF Create, CallStep, CallSteps
  <1>21. ASSUME NEW p \in Posts, NEW k \in CallIds, Trigger(p, k)
        PROVE  TypeOK'
    BY <1>21 DEF Trigger, CallStep, CallSteps
  <1>22. ASSUME NEW p \in Posts, NEW k \in CallIds, Deploy(p, k)
        PROVE  TypeOK'
    <2>1. CASE CallStep(p, k, "deploy", "emit") /\ log' = log \cup {p} /\ UNCHANGED lock
      BY <1>22, <2>1 DEF Deploy, CallStep, CallSteps, Unlocked
    <2>2. CASE CallStep(p, k, "deploy", "catch") /\ lock' = Unlocked(p) /\ UNCHANGED log
      BY <1>22, <2>2 DEF Deploy, CallStep, CallSteps, Unlocked
    <2>. QED
      BY <1>22, <2>1, <2>2 DEF Deploy
  <1>23. ASSUME NEW p \in Posts, NEW k \in CallIds, Emit(p, k)
        PROVE  TypeOK'
    <2>0. emitted' \in [Posts -> Nat]
      <3>1. emitted \in [Posts -> Nat] /\ HandedOver(p) \in [Posts -> Nat]
        BY DEF HandedOver
      <3>2. emitted' \in {emitted, HandedOver(p)}
        BY <1>23, Zenon DEF Emit
      <3> QED
        BY <3>1, <3>2
    <2>1. CASE CallStep(p, k, "emit", "record") /\ NoFault /\ UNCHANGED lock
      BY <1>23, <2>0, <2>1 DEF Emit, CallStep, CallSteps
    <2>2. CASE CallStep(p, k, "emit", "catch") /\ Fault /\ lock' = Unlocked(p)
      BY <1>23, <2>0, <2>2 DEF Emit, CallStep, CallSteps, Unlocked
    <2>. QED
      BY <1>23, <2>1, <2>2 DEF Emit
  <1>24. ASSUME NEW p \in Posts, NEW k \in CallIds, Record(p, k)
        PROVE  TypeOK'
    <2>1. CASE Reply(p, k, "record", "ok") /\ NoFault /\ receipt' = [receipt EXCEPT ![p] = "DELIVERED"]
      BY <1>24, <2>1 DEF Record, Reply, CallStep, Ended, CallSteps
    <2>2. CASE CallStep(p, k, "record", "catch") /\ Fault /\ UNCHANGED receipt
      BY <1>24, <2>2 DEF Record, Reply, CallStep, Ended, CallSteps
    <2>. QED
      BY <1>24, <2>1, <2>2 DEF Record
  <1>25. ASSUME NEW p \in Posts, NEW k \in CallIds, Catch(p, k)
        PROVE  TypeOK'
    BY <1>25 DEF Catch, Reply, CallStep, Ended, CallSteps
  <1>26. ASSUME NEW r \in Routes, Revoke(r)
        PROVE  TypeOK'
    BY <1>26 DEF Revoke
  <1>27. ASSUME NEW r \in Routes, Repair(r)
        PROVE  TypeOK'
    <2>1. CASE lock' = [lock EXCEPT ![r] = "free"] /\ UNCHANGED app
      BY <1>27, <2>1 DEF Repair
    <2>2. CASE app' = [app EXCEPT ![r] = "fit"] /\ UNCHANGED lock
      BY <1>27, <2>2 DEF Repair
    <2>. QED
      BY <1>27, <2>1, <2>2 DEF Repair
  <1>28. ASSUME NEW t \in Targets, TargetCrash(t)
        PROVE  TypeOK'
    BY <1>28 DEF TargetCrash, Interrupted, Interrupt, Ended, CallSteps, Running
  <1>29. CASE MasterCrash
    BY <1>29 DEF MasterCrash, IntakeSteps, Row, RowStates, Owners, Queued, ExecSteps, Interrupt, CallSteps, Running
  <1>30. CASE UNCHANGED vars
    BY <1>30 DEF vars
  <1>. QED
    BY <1>1, <1>2, <1>3, <1>4, <1>5, <1>6, <1>7, <1>8, <1>9, <1>10, <1>11, <1>12, <1>13, <1>14, <1>15, <1>16, <1>17, <1>18, <1>19, <1>20, <1>21, <1>22, <1>23, <1>24, <1>25, <1>26, <1>27, <1>28, <1>29, <1>30 DEF Next, Intake, Worker, Handler

\* Every variable of the ingress, the spool, the worker and the target keeps
\* its type.
THEOREM DeliveryTypes == Spec => []TypeOK
  <1>1. TypeOK /\ [Next]_vars => TypeOK'
    BY NextTypeOK
  <1>. QED
    BY <1>1, InitTypeOK, PTL DEF Spec

-----------------------------------------------------------------------------
(* The spool *)

\* A post has no row before its request is answered, and its file is in the
\* queue when the transaction that creates the row begins.
IntakeInv ==
    \A p \in Posts : /\ intake[p] # "answered" => row[p].state = "NONE"
                     /\ intake[p] = "admit" => p \in queue

\* Only deliveries with a row are worked on, the payload is removed from
\* delivered ones only, and only a delivery in progress has an owner.
WorkInv ==
    \A p \in Posts : /\ exec[p] # "idle" \/ redriving[p] # "idle" => row[p].state # "NONE"
                     /\ exec[p] = "remove" => row[p].state = "DELIVERED"
                     /\ row[p].state # "DELIVERING" => row[p].owner = "none"

SpoolInv == IntakeInv /\ WorkInv /\ PayloadKept

LEMMA NextSpoolInv == TypeOK /\ SpoolInv /\ [Next]_vars => SpoolInv'
  <1>. SUFFICES ASSUME TypeOK, SpoolInv, [Next]_vars
                PROVE  SpoolInv'
    OBVIOUS
  <1>. USE DEF TypeOK, SpoolInv, IntakeInv, WorkInv, PayloadKept, Queued, settings, masterVars, callVars, targetVars
  <1>1. ASSUME NEW p \in Posts, Check(p)
        PROVE  SpoolInv'
    BY <1>1 DEF Check, IntakeStep
  <1>2. ASSUME NEW p \in Posts, Spool(p)
        PROVE  SpoolInv'
    <2>1. CASE IntakeStep(p, "spool", "admit") /\ queue' = queue \cup {p} /\ NoFault
      BY <1>2, <2>1 DEF Spool, IntakeStep
    <2>2. CASE IntakeStep(p, "spool", "refused") /\ Fault /\ UNCHANGED queue
      BY <1>2, <2>2 DEF Spool, IntakeStep
    <2>. QED
      BY <1>2, <2>1, <2>2 DEF Spool
  <1>3. ASSUME NEW p \in Posts, Admit(p)
        PROVE  SpoolInv'
    <2>1. CASE IntakeStep(p, "admit", "undo") /\ UNCHANGED <<row, faults>>
      BY <1>3, <2>1 DEF Admit, IntakeStep, Row
    <2>2. CASE IntakeStep(p, "admit", "undo") /\ Fault /\ UNCHANGED row
      BY <1>3, <2>2 DEF Admit, IntakeStep, Row
    <2>3. CASE IntakeStep(p, "admit", "answered") /\ NoFault
               /\ row' = [row EXCEPT ![p] = Row("ACCEPTED", 0, "none")]
      BY <1>3, <2>3 DEF Admit, IntakeStep, Row
    <2>. QED
      BY <1>3, <2>1, <2>2, <2>3 DEF Admit
  <1>4. ASSUME NEW p \in Posts, Undo(p)
        PROVE  SpoolInv'
    BY <1>4 DEF Undo, IntakeStep
  <1>5. ASSUME NEW p \in Posts, Claim(p)
        PROVE  SpoolInv'
    BY <1>5 DEF Claim, Row, Active, ActiveTargets, Domain
  <1>6. ASSUME NEW p \in Posts, Answer(p)
        PROVE  SpoolInv'
    BY <1>6 DEF Answer, ExecStep
  <1>7. ASSUME NEW p \in Posts, Timeout(p)
        PROVE  SpoolInv'
    BY <1>7 DEF Timeout, ExecStep, Fault
  <1>8. ASSUME NEW p \in Posts, Read(p)
        PROVE  SpoolInv'
    BY <1>8 DEF Read, ExecStep
  <1>9. ASSUME NEW p \in Posts, Send(p)
        PROVE  SpoolInv'
    <2>1. CASE \E k \in CallIds :
               /\ pc' = [pc EXCEPT ![p][k] = IF Domain(p) \in remote THEN "guard" ELSE "find"]
               /\ key' = [key EXCEPT ![p][k] = IF Domain(p) \in remote THEN row[p].attempt ELSE 0]
               /\ waits' = [waits EXCEPT ![p] = k]
               /\ ExecStep(p, "send", "wait") /\ NoFault
      BY <1>9, <2>1 DEF Send, ExecStep
    <2>2. CASE ExecStep(p, "send", "fail") /\ Fault /\ UNCHANGED callVars
      BY <1>9, <2>2 DEF Send, ExecStep
    <2>. QED
      BY <1>9, <2>1, <2>2 DEF Send
  <1>10. ASSUME NEW p \in Posts, Complete(p)
        PROVE  SpoolInv'
    <2>1. CASE ExecStep(p, "record", IF Held(p) THEN "remove" ELSE "idle") /\ NoFault
               /\ row' = IF Held(p) THEN Settle(p, "DELIVERED") ELSE row
      BY <1>10, <2>1 DEF Complete, ExecStep, Settle, Row, Held
    <2>2. CASE ExecStep(p, "record", "fail") /\ Fault /\ UNCHANGED row
      BY <1>10, <2>2 DEF Complete, ExecStep, Settle, Row, Held
    <2>. QED
      BY <1>10, <2>1, <2>2 DEF Complete
  <1>11. ASSUME NEW p \in Posts, Remove(p)
        PROVE  SpoolInv'
    <2>1. CASE ExecStep(p, "remove", "idle") /\ queue' = queue \ {p} /\ NoFault
      BY <1>11, <2>1 DEF Remove, ExecStep
    <2>2. CASE ExecStep(p, "remove", "fail") /\ Fault /\ UNCHANGED queue
      BY <1>11, <2>2 DEF Remove, ExecStep
    <2>. QED
      BY <1>11, <2>1, <2>2 DEF Remove
  <1>12. ASSUME NEW p \in Posts, Fail(p)
        PROVE  SpoolInv'
    <2>1. CASE row' = Settle(p, "DLQ") /\ exec' = [exec EXCEPT ![p] = "toDlq"] /\ NoFault
      BY <1>12, <2>1 DEF Fail, Settle, Row, Held
    <2>2. CASE row' = Settle(p, "RETRY_WAIT") /\ exec' = [exec EXCEPT ![p] = "idle"] /\ NoFault
      BY <1>12, <2>2 DEF Fail, Settle, Row, Held
    <2>3. CASE exec' = [exec EXCEPT ![p] = "idle"] /\ UNCHANGED row /\ NoFault
      BY <1>12, <2>3 DEF Fail, Settle, Row, Held
    <2>4. CASE exec' = [exec EXCEPT ![p] = "idle"] /\ UNCHANGED row /\ Fault
      BY <1>12, <2>4 DEF Fail, Settle, Row, Held
    <2>. QED
      BY <1>12, <2>1, <2>2, <2>3, <2>4 DEF Fail
  <1>13. ASSUME NEW p \in Posts, ToDlq(p)
        PROVE  SpoolInv'
    BY <1>13 DEF ToDlq, ExecStep
  <1>14. ASSUME NEW p \in Posts, Redrive(p)
        PROVE  SpoolInv'
    BY <1>14 DEF Redrive, RedriveStep
  <1>15. ASSUME NEW p \in Posts, RedriveMove(p)
        PROVE  SpoolInv'
    BY <1>15 DEF RedriveMove, RedriveStep
  <1>16. ASSUME NEW p \in Posts, RedriveUpdate(p)
        PROVE  SpoolInv'
    BY <1>16 DEF RedriveUpdate, RedriveStep, Row
  <1>17. ASSUME NEW p \in Posts, DeployDone(p)
        PROVE  SpoolInv'
    BY <1>17 DEF DeployDone
  <1>18. ASSUME NEW p \in Posts, NEW k \in CallIds, Guard(p, k)
        PROVE  SpoolInv'
    <2>1. CASE pc' = [pc EXCEPT ![p][k] = Ended(p, k, "err")]
      BY <1>18, <2>1 DEF Guard, Ended
    <2>2. CASE pc' = [pc EXCEPT ![p][k] = "find"]
      BY <1>18, <2>2 DEF Guard, Ended
    <2>. QED
      BY <1>18, <2>1, <2>2 DEF Guard
  <1>19. ASSUME NEW p \in Posts, NEW k \in CallIds, Find(p, k)
        PROVE  SpoolInv'
    <2>1. CASE Reply(p, k, "find", "ok")
      BY <1>19, <2>1 DEF Find, CallStep, Reply, Ended
    <2>2. CASE CallStep(p, k, "find", "create")
      BY <1>19, <2>2 DEF Find, CallStep, Reply, Ended
    <2>3. CASE CallStep(p, k, "find", "trigger")
      BY <1>19, <2>3 DEF Find, CallStep, Reply, Ended
    <2>. QED
      BY <1>19, <2>1, <2>2, <2>3 DEF Find
  <1>20. ASSUME NEW p \in Posts, NEW k \in CallIds, Create(p, k)
        PROVE  SpoolInv'
    BY <1>20 DEF Create, CallStep
  <1>21. ASSUME NEW p \in Posts, NEW k \in CallIds, Trigger(p, k)
        PROVE  SpoolInv'
    BY <1>21 DEF Trigger, CallStep
  <1>22. ASSUME NEW p \in Posts, NEW k \in CallIds, Deploy(p, k)
        PROVE  SpoolInv'
    <2>1. CASE CallStep(p, k, "deploy", "emit") /\ log' = log \cup {p} /\ UNCHANGED lock
      BY <1>22, <2>1 DEF Deploy, CallStep
    <2>2. CASE CallStep(p, k, "deploy", "catch") /\ lock' = Unlocked(p) /\ UNCHANGED log
      BY <1>22, <2>2 DEF Deploy, CallStep
    <2>. QED
      BY <1>22, <2>1, <2>2 DEF Deploy
  <1>23. ASSUME NEW p \in Posts, NEW k \in CallIds, Emit(p, k)
        PROVE  SpoolInv'
    <2>1. CASE CallStep(p, k, "emit", "record") /\ NoFault /\ UNCHANGED lock
      BY <1>23, <2>1 DEF Emit, CallStep
    <2>2. CASE CallStep(p, k, "emit", "catch") /\ Fault /\ lock' = Unlocked(p)
      BY <1>23, <2>2 DEF Emit, CallStep
    <2>. QED
      BY <1>23, <2>1, <2>2 DEF Emit
  <1>24. ASSUME NEW p \in Posts, NEW k \in CallIds, Record(p, k)
        PROVE  SpoolInv'
    <2>1. CASE Reply(p, k, "record", "ok") /\ NoFault /\ receipt' = [receipt EXCEPT ![p] = "DELIVERED"]
      BY <1>24, <2>1 DEF Record, CallStep, Reply, Ended
    <2>2. CASE CallStep(p, k, "record", "catch") /\ Fault /\ UNCHANGED receipt
      BY <1>24, <2>2 DEF Record, CallStep, Reply, Ended
    <2>. QED
      BY <1>24, <2>1, <2>2 DEF Record
  <1>25. ASSUME NEW p \in Posts, NEW k \in CallIds, Catch(p, k)
        PROVE  SpoolInv'
    BY <1>25 DEF Catch, CallStep, Reply, Ended
  <1>26. ASSUME NEW r \in Routes, Revoke(r)
        PROVE  SpoolInv'
    BY <1>26 DEF Revoke
  <1>27. ASSUME NEW r \in Routes, Repair(r)
        PROVE  SpoolInv'
    <2>1. CASE lock' = [lock EXCEPT ![r] = "free"] /\ UNCHANGED app
      BY <1>27, <2>1 DEF Repair
    <2>2. CASE app' = [app EXCEPT ![r] = "fit"] /\ UNCHANGED lock
      BY <1>27, <2>2 DEF Repair
    <2>. QED
      BY <1>27, <2>1, <2>2 DEF Repair
  <1>28. ASSUME NEW t \in Targets, TargetCrash(t)
        PROVE  SpoolInv'
    BY <1>28 DEF TargetCrash
  <1>29. CASE MasterCrash
    BY <1>29 DEF MasterCrash, Row
  <1>30. CASE UNCHANGED vars
    BY <1>30 DEF vars
  <1>. QED
    BY <1>1, <1>2, <1>3, <1>4, <1>5, <1>6, <1>7, <1>8, <1>9, <1>10, <1>11, <1>12, <1>13, <1>14, <1>15, <1>16, <1>17, <1>18, <1>19, <1>20, <1>21, <1>22, <1>23, <1>24, <1>25, <1>26, <1>27, <1>28, <1>29, <1>30 DEF Next, Intake, Worker, Handler

-----------------------------------------------------------------------------
(* The deploy *)

Deploying == {"deploy", "emit"}

\* Handlers, operations and deploy logs exist for deliveries with a row only.
\* A delivery has at most one handler between the begin of its operation and
\* the command to the agent, and then no command has been sent.
DeployInv ==
    \A p \in Posts :
        /\ p \in op => row[p].state # "NONE"
        /\ p \in log \/ emitted[p] # 0 => p \in op
        /\ emitted[p] \in {0, 1}
        /\ \A k \in CallIds :
              /\ pc[p][k] # "none" => row[p].state # "NONE"
              /\ pc[p][k] \in Deploying =>
                    /\ p \in op /\ emitted[p] = 0
                    /\ \A j \in CallIds : pc[p][j] \in Deploying => j = k
              /\ pc[p][k] = "deploy" => p \notin log
              /\ pc[p][k] = "emit" => p \in log

LEMMA NextDeployInv == TypeOK /\ SpoolInv /\ DeployInv /\ [Next]_vars => DeployInv'
  <1>. SUFFICES ASSUME TypeOK /\ SpoolInv, DeployInv, [Next]_vars
                PROVE  DeployInv'
    OBVIOUS
  <1>. USE DEF TypeOK, DeployInv, Deploying, settings, masterVars, callVars, targetVars
  <1>1. ASSUME NEW p \in Posts, Check(p)
        PROVE  DeployInv'
    BY <1>1 DEF Check, IntakeStep
  <1>2. ASSUME NEW p \in Posts, Spool(p)
        PROVE  DeployInv'
    <2>1. CASE IntakeStep(p, "spool", "admit") /\ queue' = queue \cup {p} /\ NoFault
      BY <1>2, <2>1 DEF Spool, IntakeStep
    <2>2. CASE IntakeStep(p, "spool", "refused") /\ Fault /\ UNCHANGED queue
      BY <1>2, <2>2 DEF Spool, IntakeStep
    <2>. QED
      BY <1>2, <2>1, <2>2 DEF Spool
  <1>3. ASSUME NEW p \in Posts, Admit(p)
        PROVE  DeployInv'
    <2>1. CASE IntakeStep(p, "admit", "undo") /\ UNCHANGED <<row, faults>>
      BY <1>3, <2>1 DEF Admit, IntakeStep, Row
    <2>2. CASE IntakeStep(p, "admit", "undo") /\ Fault /\ UNCHANGED row
      BY <1>3, <2>2 DEF Admit, IntakeStep, Row
    <2>3. CASE IntakeStep(p, "admit", "answered") /\ NoFault
               /\ row' = [row EXCEPT ![p] = Row("ACCEPTED", 0, "none")]
      BY <1>3, <2>3 DEF Admit, IntakeStep, Row
    <2>. QED
      BY <1>3, <2>1, <2>2, <2>3 DEF Admit
  <1>4. ASSUME NEW p \in Posts, Undo(p)
        PROVE  DeployInv'
    BY <1>4 DEF Undo, IntakeStep
  <1>5. ASSUME NEW p \in Posts, Claim(p)
        PROVE  DeployInv'
    BY <1>5 DEF Claim, Row, Active, ActiveTargets, Domain
  <1>6. ASSUME NEW p \in Posts, Answer(p)
        PROVE  DeployInv'
    BY <1>6 DEF Answer, ExecStep
  <1>7. ASSUME NEW p \in Posts, Timeout(p)
        PROVE  DeployInv'
    BY <1>7 DEF Timeout, ExecStep, Fault
  <1>8. ASSUME NEW p \in Posts, Read(p)
        PROVE  DeployInv'
    BY <1>8 DEF Read, ExecStep
  <1>9. ASSUME NEW p \in Posts, Send(p)
        PROVE  DeployInv'
    <2>1. CASE \E k \in CallIds :
               /\ pc' = [pc EXCEPT ![p][k] = IF Domain(p) \in remote THEN "guard" ELSE "find"]
               /\ key' = [key EXCEPT ![p][k] = IF Domain(p) \in remote THEN row[p].attempt ELSE 0]
               /\ waits' = [waits EXCEPT ![p] = k]
               /\ ExecStep(p, "send", "wait") /\ NoFault
      BY <1>9, <2>1 DEF Send, ExecStep, SpoolInv, WorkInv
    <2>2. CASE ExecStep(p, "send", "fail") /\ Fault /\ UNCHANGED callVars
      BY <1>9, <2>2 DEF Send, ExecStep, SpoolInv, WorkInv
    <2>. QED
      BY <1>9, <2>1, <2>2 DEF Send
  <1>10. ASSUME NEW p \in Posts, Complete(p)
        PROVE  DeployInv'
    <2>1. CASE ExecStep(p, "record", IF Held(p) THEN "remove" ELSE "idle") /\ NoFault
               /\ row' = IF Held(p) THEN Settle(p, "DELIVERED") ELSE row
      BY <1>10, <2>1 DEF Complete, ExecStep, Settle, Row, Held
    <2>2. CASE ExecStep(p, "record", "fail") /\ Fault /\ UNCHANGED row
      BY <1>10, <2>2 DEF Complete, ExecStep, Settle, Row, Held
    <2>. QED
      BY <1>10, <2>1, <2>2 DEF Complete
  <1>11. ASSUME NEW p \in Posts, Remove(p)
        PROVE  DeployInv'
    <2>1. CASE ExecStep(p, "remove", "idle") /\ queue' = queue \ {p} /\ NoFault
      BY <1>11, <2>1 DEF Remove, ExecStep
    <2>2. CASE ExecStep(p, "remove", "fail") /\ Fault /\ UNCHANGED queue
      BY <1>11, <2>2 DEF Remove, ExecStep
    <2>. QED
      BY <1>11, <2>1, <2>2 DEF Remove
  <1>12. ASSUME NEW p \in Posts, Fail(p)
        PROVE  DeployInv'
    <2>1. CASE row' = Settle(p, "DLQ") /\ exec' = [exec EXCEPT ![p] = "toDlq"] /\ NoFault
      BY <1>12, <2>1 DEF Fail, Settle, Row, Held
    <2>2. CASE row' = Settle(p, "RETRY_WAIT") /\ exec' = [exec EXCEPT ![p] = "idle"] /\ NoFault
      BY <1>12, <2>2 DEF Fail, Settle, Row, Held
    <2>3. CASE exec' = [exec EXCEPT ![p] = "idle"] /\ UNCHANGED row /\ NoFault
      BY <1>12, <2>3 DEF Fail, Settle, Row, Held
    <2>4. CASE exec' = [exec EXCEPT ![p] = "idle"] /\ UNCHANGED row /\ Fault
      BY <1>12, <2>4 DEF Fail, Settle, Row, Held
    <2>. QED
      BY <1>12, <2>1, <2>2, <2>3, <2>4 DEF Fail
  <1>13. ASSUME NEW p \in Posts, ToDlq(p)
        PROVE  DeployInv'
    BY <1>13 DEF ToDlq, ExecStep
  <1>14. ASSUME NEW p \in Posts, Redrive(p)
        PROVE  DeployInv'
    BY <1>14 DEF Redrive, RedriveStep
  <1>15. ASSUME NEW p \in Posts, RedriveMove(p)
        PROVE  DeployInv'
    BY <1>15 DEF RedriveMove, RedriveStep
  <1>16. ASSUME NEW p \in Posts, RedriveUpdate(p)
        PROVE  DeployInv'
    BY <1>16 DEF RedriveUpdate, RedriveStep, Row
  <1>17. ASSUME NEW p \in Posts, DeployDone(p)
        PROVE  DeployInv'
    BY <1>17 DEF DeployDone
  <1>18. ASSUME NEW p \in Posts, NEW k \in CallIds, Guard(p, k)
        PROVE  DeployInv'
    <2>1. CASE pc' = [pc EXCEPT ![p][k] = Ended(p, k, "err")]
      BY <1>18, <2>1 DEF Guard, Ended
    <2>2. CASE pc' = [pc EXCEPT ![p][k] = "find"]
      BY <1>18, <2>2 DEF Guard, Ended
    <2>. QED
      BY <1>18, <2>1, <2>2 DEF Guard
  <1>19. ASSUME NEW p \in Posts, NEW k \in CallIds, Find(p, k)
        PROVE  DeployInv'
    <2>1. CASE Reply(p, k, "find", "ok")
      BY <1>19, <2>1 DEF Find, CallStep, Reply, Ended
    <2>2. CASE CallStep(p, k, "find", "create")
      BY <1>19, <2>2 DEF Find, CallStep, Reply, Ended
    <2>3. CASE CallStep(p, k, "find", "trigger")
      BY <1>19, <2>3 DEF Find, CallStep, Reply, Ended
    <2>. QED
      BY <1>19, <2>1, <2>2, <2>3 DEF Find
  <1>20. ASSUME NEW p \in Posts, NEW k \in CallIds, Create(p, k)
        PROVE  DeployInv'
    BY <1>20 DEF Create, CallStep
  <1>21. ASSUME NEW p \in Posts, NEW k \in CallIds, Trigger(p, k)
        PROVE  DeployInv'
    BY <1>21 DEF Trigger, CallStep
  <1>22. ASSUME NEW p \in Posts, NEW k \in CallIds, Deploy(p, k)
        PROVE  DeployInv'
    <2>1. CASE CallStep(p, k, "deploy", "emit") /\ log' = log \cup {p} /\ UNCHANGED lock
      BY <1>22, <2>1 DEF Deploy, CallStep
    <2>2. CASE CallStep(p, k, "deploy", "catch") /\ lock' = Unlocked(p) /\ UNCHANGED log
      BY <1>22, <2>2 DEF Deploy, CallStep
    <2>. QED
      BY <1>22, <2>1, <2>2 DEF Deploy
  <1>23. ASSUME NEW p \in Posts, NEW k \in CallIds, Emit(p, k)
        PROVE  DeployInv'
    <2>1. CASE CallStep(p, k, "emit", "record") /\ NoFault /\ UNCHANGED lock
      BY <1>23, <2>1 DEF Emit, HandedOver, CallStep
    <2>2. CASE CallStep(p, k, "emit", "catch") /\ Fault /\ lock' = Unlocked(p)
      BY <1>23, <2>2 DEF Emit, HandedOver, CallStep
    <2>. QED
      BY <1>23, <2>1, <2>2 DEF Emit
  <1>24. ASSUME NEW p \in Posts, NEW k \in CallIds, Record(p, k)
        PROVE  DeployInv'
    <2>1. CASE Reply(p, k, "record", "ok") /\ NoFault /\ receipt' = [receipt EXCEPT ![p] = "DELIVERED"]
      BY <1>24, <2>1 DEF Record, CallStep, Reply, Ended
    <2>2. CASE CallStep(p, k, "record", "catch") /\ Fault /\ UNCHANGED receipt
      BY <1>24, <2>2 DEF Record, CallStep, Reply, Ended
    <2>. QED
      BY <1>24, <2>1, <2>2 DEF Record
  <1>25. ASSUME NEW p \in Posts, NEW k \in CallIds, Catch(p, k)
        PROVE  DeployInv'
    BY <1>25 DEF Catch, CallStep, Reply, Ended
  <1>26. ASSUME NEW r \in Routes, Revoke(r)
        PROVE  DeployInv'
    BY <1>26 DEF Revoke
  <1>27. ASSUME NEW r \in Routes, Repair(r)
        PROVE  DeployInv'
    <2>1. CASE lock' = [lock EXCEPT ![r] = "free"] /\ UNCHANGED app
      BY <1>27, <2>1 DEF Repair
    <2>2. CASE app' = [app EXCEPT ![r] = "fit"] /\ UNCHANGED lock
      BY <1>27, <2>2 DEF Repair
    <2>. QED
      BY <1>27, <2>1, <2>2 DEF Repair
  <1>28. ASSUME NEW t \in Targets, TargetCrash(t)
        PROVE  DeployInv'
    BY <1>28 DEF TargetCrash, Interrupted, Ended, Running
  <1>29. CASE MasterCrash
    BY <1>29 DEF MasterCrash, Row, Running
  <1>30. CASE UNCHANGED vars
    BY <1>30 DEF vars
  <1>. QED
    BY <1>1, <1>2, <1>3, <1>4, <1>5, <1>6, <1>7, <1>8, <1>9, <1>10, <1>11, <1>12, <1>13, <1>14, <1>15, <1>16, <1>17, <1>18, <1>19, <1>20, <1>21, <1>22, <1>23, <1>24, <1>25, <1>26, <1>27, <1>28, <1>29, <1>30 DEF Next, Intake, Worker, Handler

\* Two posts of one push never both have a row.
RowInv ==
    \A p, q \in Posts :
        SamePush(p, q) /\ row[p].state # "NONE" /\ row[q].state # "NONE" => p = q

LEMMA NextRowInv == TypeOK /\ RowInv /\ [Next]_vars => RowInv'
  <1>. SUFFICES ASSUME TypeOK, RowInv, [Next]_vars
                PROVE  RowInv'
    OBVIOUS
  <1>. USE DEF TypeOK, RowInv, settings, masterVars, callVars, targetVars
  <1>1. ASSUME NEW p \in Posts, Check(p)
        PROVE  RowInv'
    BY <1>1 DEF Check, IntakeStep
  <1>2. ASSUME NEW p \in Posts, Spool(p)
        PROVE  RowInv'
    <2>1. CASE IntakeStep(p, "spool", "admit") /\ queue' = queue \cup {p} /\ NoFault
      BY <1>2, <2>1 DEF Spool, IntakeStep
    <2>2. CASE IntakeStep(p, "spool", "refused") /\ Fault /\ UNCHANGED queue
      BY <1>2, <2>2 DEF Spool, IntakeStep
    <2>. QED
      BY <1>2, <2>1, <2>2 DEF Spool
  <1>3. ASSUME NEW p \in Posts, Admit(p)
        PROVE  RowInv'
    <2>1. CASE IntakeStep(p, "admit", "undo") /\ UNCHANGED <<row, faults>>
      BY <1>3, <2>1 DEF Admit, IntakeStep, Row, Known, SamePush
    <2>2. CASE IntakeStep(p, "admit", "undo") /\ Fault /\ UNCHANGED row
      BY <1>3, <2>2 DEF Admit, IntakeStep, Row, Known, SamePush
    <2>3. CASE IntakeStep(p, "admit", "answered") /\ NoFault
               /\ row' = [row EXCEPT ![p] = Row("ACCEPTED", 0, "none")]
      BY <1>3, <2>3 DEF Admit, IntakeStep, Row, Known, SamePush
    <2>. QED
      BY <1>3, <2>1, <2>2, <2>3 DEF Admit
  <1>4. ASSUME NEW p \in Posts, Undo(p)
        PROVE  RowInv'
    BY <1>4 DEF Undo, IntakeStep
  <1>5. ASSUME NEW p \in Posts, Claim(p)
        PROVE  RowInv'
    BY <1>5 DEF Claim, Row, Active, ActiveTargets, Domain, Queued
  <1>6. ASSUME NEW p \in Posts, Answer(p)
        PROVE  RowInv'
    BY <1>6 DEF Answer, ExecStep
  <1>7. ASSUME NEW p \in Posts, Timeout(p)
        PROVE  RowInv'
    BY <1>7 DEF Timeout, ExecStep, Fault
  <1>8. ASSUME NEW p \in Posts, Read(p)
        PROVE  RowInv'
    BY <1>8 DEF Read, ExecStep
  <1>9. ASSUME NEW p \in Posts, Send(p)
        PROVE  RowInv'
    <2>1. CASE \E k \in CallIds :
               /\ pc' = [pc EXCEPT ![p][k] = IF Domain(p) \in remote THEN "guard" ELSE "find"]
               /\ key' = [key EXCEPT ![p][k] = IF Domain(p) \in remote THEN row[p].attempt ELSE 0]
               /\ waits' = [waits EXCEPT ![p] = k]
               /\ ExecStep(p, "send", "wait") /\ NoFault
      BY <1>9, <2>1 DEF Send, ExecStep
    <2>2. CASE ExecStep(p, "send", "fail") /\ Fault /\ UNCHANGED callVars
      BY <1>9, <2>2 DEF Send, ExecStep
    <2>. QED
      BY <1>9, <2>1, <2>2 DEF Send
  <1>10. ASSUME NEW p \in Posts, Complete(p)
        PROVE  RowInv'
    <2>1. CASE ExecStep(p, "record", IF Held(p) THEN "remove" ELSE "idle") /\ NoFault
               /\ row' = IF Held(p) THEN Settle(p, "DELIVERED") ELSE row
      BY <1>10, <2>1 DEF Complete, ExecStep, Settle, Row, Held
    <2>2. CASE ExecStep(p, "record", "fail") /\ Fault /\ UNCHANGED row
      BY <1>10, <2>2 DEF Complete, ExecStep, Settle, Row, Held
    <2>. QED
      BY <1>10, <2>1, <2>2 DEF Complete
  <1>11. ASSUME NEW p \in Posts, Remove(p)
        PROVE  RowInv'
    <2>1. CASE ExecStep(p, "remove", "idle") /\ queue' = queue \ {p} /\ NoFault
      BY <1>11, <2>1 DEF Remove, ExecStep
    <2>2. CASE ExecStep(p, "remove", "fail") /\ Fault /\ UNCHANGED queue
      BY <1>11, <2>2 DEF Remove, ExecStep
    <2>. QED
      BY <1>11, <2>1, <2>2 DEF Remove
  <1>12. ASSUME NEW p \in Posts, Fail(p)
        PROVE  RowInv'
    <2>1. CASE row' = Settle(p, "DLQ") /\ exec' = [exec EXCEPT ![p] = "toDlq"] /\ NoFault
      BY <1>12, <2>1 DEF Fail, Settle, Row, Held
    <2>2. CASE row' = Settle(p, "RETRY_WAIT") /\ exec' = [exec EXCEPT ![p] = "idle"] /\ NoFault
      BY <1>12, <2>2 DEF Fail, Settle, Row, Held
    <2>3. CASE exec' = [exec EXCEPT ![p] = "idle"] /\ UNCHANGED row /\ NoFault
      BY <1>12, <2>3 DEF Fail, Settle, Row, Held
    <2>4. CASE exec' = [exec EXCEPT ![p] = "idle"] /\ UNCHANGED row /\ Fault
      BY <1>12, <2>4 DEF Fail, Settle, Row, Held
    <2>. QED
      BY <1>12, <2>1, <2>2, <2>3, <2>4 DEF Fail
  <1>13. ASSUME NEW p \in Posts, ToDlq(p)
        PROVE  RowInv'
    BY <1>13 DEF ToDlq, ExecStep
  <1>14. ASSUME NEW p \in Posts, Redrive(p)
        PROVE  RowInv'
    BY <1>14 DEF Redrive, RedriveStep
  <1>15. ASSUME NEW p \in Posts, RedriveMove(p)
        PROVE  RowInv'
    BY <1>15 DEF RedriveMove, RedriveStep
  <1>16. ASSUME NEW p \in Posts, RedriveUpdate(p)
        PROVE  RowInv'
    BY <1>16 DEF RedriveUpdate, RedriveStep, Row
  <1>17. ASSUME NEW p \in Posts, DeployDone(p)
        PROVE  RowInv'
    BY <1>17 DEF DeployDone
  <1>18. ASSUME NEW p \in Posts, NEW k \in CallIds, Guard(p, k)
        PROVE  RowInv'
    <2>1. CASE pc' = [pc EXCEPT ![p][k] = Ended(p, k, "err")]
      BY <1>18, <2>1 DEF Guard, Ended
    <2>2. CASE pc' = [pc EXCEPT ![p][k] = "find"]
      BY <1>18, <2>2 DEF Guard, Ended
    <2>. QED
      BY <1>18, <2>1, <2>2 DEF Guard
  <1>19. ASSUME NEW p \in Posts, NEW k \in CallIds, Find(p, k)
        PROVE  RowInv'
    <2>1. CASE Reply(p, k, "find", "ok")
      BY <1>19, <2>1 DEF Find, CallStep, Reply, Ended
    <2>2. CASE CallStep(p, k, "find", "create")
      BY <1>19, <2>2 DEF Find, CallStep, Reply, Ended
    <2>3. CASE CallStep(p, k, "find", "trigger")
      BY <1>19, <2>3 DEF Find, CallStep, Reply, Ended
    <2>. QED
      BY <1>19, <2>1, <2>2, <2>3 DEF Find
  <1>20. ASSUME NEW p \in Posts, NEW k \in CallIds, Create(p, k)
        PROVE  RowInv'
    BY <1>20 DEF Create, CallStep
  <1>21. ASSUME NEW p \in Posts, NEW k \in CallIds, Trigger(p, k)
        PROVE  RowInv'
    BY <1>21 DEF Trigger, CallStep
  <1>22. ASSUME NEW p \in Posts, NEW k \in CallIds, Deploy(p, k)
        PROVE  RowInv'
    <2>1. CASE CallStep(p, k, "deploy", "emit") /\ log' = log \cup {p} /\ UNCHANGED lock
      BY <1>22, <2>1 DEF Deploy, CallStep
    <2>2. CASE CallStep(p, k, "deploy", "catch") /\ lock' = Unlocked(p) /\ UNCHANGED log
      BY <1>22, <2>2 DEF Deploy, CallStep
    <2>. QED
      BY <1>22, <2>1, <2>2 DEF Deploy
  <1>23. ASSUME NEW p \in Posts, NEW k \in CallIds, Emit(p, k)
        PROVE  RowInv'
    <2>1. CASE CallStep(p, k, "emit", "record") /\ NoFault /\ UNCHANGED lock
      BY <1>23, <2>1 DEF Emit, CallStep
    <2>2. CASE CallStep(p, k, "emit", "catch") /\ Fault /\ lock' = Unlocked(p)
      BY <1>23, <2>2 DEF Emit, CallStep
    <2>. QED
      BY <1>23, <2>1, <2>2 DEF Emit
  <1>24. ASSUME NEW p \in Posts, NEW k \in CallIds, Record(p, k)
        PROVE  RowInv'
    <2>1. CASE Reply(p, k, "record", "ok") /\ NoFault /\ receipt' = [receipt EXCEPT ![p] = "DELIVERED"]
      BY <1>24, <2>1 DEF Record, CallStep, Reply, Ended
    <2>2. CASE CallStep(p, k, "record", "catch") /\ Fault /\ UNCHANGED receipt
      BY <1>24, <2>2 DEF Record, CallStep, Reply, Ended
    <2>. QED
      BY <1>24, <2>1, <2>2 DEF Record
  <1>25. ASSUME NEW p \in Posts, NEW k \in CallIds, Catch(p, k)
        PROVE  RowInv'
    BY <1>25 DEF Catch, CallStep, Reply, Ended
  <1>26. ASSUME NEW r \in Routes, Revoke(r)
        PROVE  RowInv'
    BY <1>26 DEF Revoke
  <1>27. ASSUME NEW r \in Routes, Repair(r)
        PROVE  RowInv'
    <2>1. CASE lock' = [lock EXCEPT ![r] = "free"] /\ UNCHANGED app
      BY <1>27, <2>1 DEF Repair
    <2>2. CASE app' = [app EXCEPT ![r] = "fit"] /\ UNCHANGED lock
      BY <1>27, <2>2 DEF Repair
    <2>. QED
      BY <1>27, <2>1, <2>2 DEF Repair
  <1>28. ASSUME NEW t \in Targets, TargetCrash(t)
        PROVE  RowInv'
    BY <1>28 DEF TargetCrash
  <1>29. CASE MasterCrash
    BY <1>29 DEF MasterCrash, Row
  <1>30. CASE UNCHANGED vars
    BY <1>30 DEF vars
  <1>. QED
    BY <1>1, <1>2, <1>3, <1>4, <1>5, <1>6, <1>7, <1>8, <1>9, <1>10, <1>11, <1>12, <1>13, <1>14, <1>15, <1>16, <1>17, <1>18, <1>19, <1>20, <1>21, <1>22, <1>23, <1>24, <1>25, <1>26, <1>27, <1>28, <1>29, <1>30 DEF Next, Intake, Worker, Handler

\* A success is reported only of a push that was deployed or concerns a
\* branch that is not deployed.
ReportInv ==
    \A p \in Posts :
        p \notin log \cup ignored =>
            /\ receipt[p] # "DELIVERED" /\ exec[p] # "record" /\ row[p].state # "DELIVERED"
            /\ \A k \in CallIds : pc[p][k] \notin {"record", "ok"}

LEMMA NextReportInv == TypeOK /\ DeployInv /\ ReportInv /\ [Next]_vars => ReportInv'
  <1>. SUFFICES ASSUME TypeOK /\ DeployInv, ReportInv, [Next]_vars
                PROVE  ReportInv'
    OBVIOUS
  <1>. USE DEF TypeOK, ReportInv, settings, masterVars, callVars, targetVars
  <1>1. ASSUME NEW p \in Posts, Check(p)
        PROVE  ReportInv'
    BY <1>1 DEF Check, IntakeStep
  <1>2. ASSUME NEW p \in Posts, Spool(p)
        PROVE  ReportInv'
    <2>1. CASE IntakeStep(p, "spool", "admit") /\ queue' = queue \cup {p} /\ NoFault
      BY <1>2, <2>1 DEF Spool, IntakeStep
    <2>2. CASE IntakeStep(p, "spool", "refused") /\ Fault /\ UNCHANGED queue
      BY <1>2, <2>2 DEF Spool, IntakeStep
    <2>. QED
      BY <1>2, <2>1, <2>2 DEF Spool
  <1>3. ASSUME NEW p \in Posts, Admit(p)
        PROVE  ReportInv'
    <2>1. CASE IntakeStep(p, "admit", "undo") /\ UNCHANGED <<row, faults>>
      BY <1>3, <2>1 DEF Admit, IntakeStep, Row
    <2>2. CASE IntakeStep(p, "admit", "undo") /\ Fault /\ UNCHANGED row
      BY <1>3, <2>2 DEF Admit, IntakeStep, Row
    <2>3. CASE IntakeStep(p, "admit", "answered") /\ NoFault
               /\ row' = [row EXCEPT ![p] = Row("ACCEPTED", 0, "none")]
      BY <1>3, <2>3 DEF Admit, IntakeStep, Row
    <2>. QED
      BY <1>3, <2>1, <2>2, <2>3 DEF Admit
  <1>4. ASSUME NEW p \in Posts, Undo(p)
        PROVE  ReportInv'
    BY <1>4 DEF Undo, IntakeStep
  <1>5. ASSUME NEW p \in Posts, Claim(p)
        PROVE  ReportInv'
    BY <1>5 DEF Claim, Row, Active, ActiveTargets, Domain
  <1>6. ASSUME NEW p \in Posts, Answer(p)
        PROVE  ReportInv'
    BY <1>6 DEF Answer, ExecStep
  <1>7. ASSUME NEW p \in Posts, Timeout(p)
        PROVE  ReportInv'
    BY <1>7 DEF Timeout, ExecStep, Fault
  <1>8. ASSUME NEW p \in Posts, Read(p)
        PROVE  ReportInv'
    BY <1>8 DEF Read, ExecStep
  <1>9. ASSUME NEW p \in Posts, Send(p)
        PROVE  ReportInv'
    <2>1. CASE \E k \in CallIds :
               /\ pc' = [pc EXCEPT ![p][k] = IF Domain(p) \in remote THEN "guard" ELSE "find"]
               /\ key' = [key EXCEPT ![p][k] = IF Domain(p) \in remote THEN row[p].attempt ELSE 0]
               /\ waits' = [waits EXCEPT ![p] = k]
               /\ ExecStep(p, "send", "wait") /\ NoFault
      BY <1>9, <2>1 DEF Send, ExecStep
    <2>2. CASE ExecStep(p, "send", "fail") /\ Fault /\ UNCHANGED callVars
      BY <1>9, <2>2 DEF Send, ExecStep
    <2>. QED
      BY <1>9, <2>1, <2>2 DEF Send
  <1>10. ASSUME NEW p \in Posts, Complete(p)
        PROVE  ReportInv'
    <2>1. CASE ExecStep(p, "record", IF Held(p) THEN "remove" ELSE "idle") /\ NoFault
               /\ row' = IF Held(p) THEN Settle(p, "DELIVERED") ELSE row
      BY <1>10, <2>1 DEF Complete, ExecStep, Settle, Row, Held
    <2>2. CASE ExecStep(p, "record", "fail") /\ Fault /\ UNCHANGED row
      BY <1>10, <2>2 DEF Complete, ExecStep, Settle, Row, Held
    <2>. QED
      BY <1>10, <2>1, <2>2 DEF Complete
  <1>11. ASSUME NEW p \in Posts, Remove(p)
        PROVE  ReportInv'
    <2>1. CASE ExecStep(p, "remove", "idle") /\ queue' = queue \ {p} /\ NoFault
      BY <1>11, <2>1 DEF Remove, ExecStep
    <2>2. CASE ExecStep(p, "remove", "fail") /\ Fault /\ UNCHANGED queue
      BY <1>11, <2>2 DEF Remove, ExecStep
    <2>. QED
      BY <1>11, <2>1, <2>2 DEF Remove
  <1>12. ASSUME NEW p \in Posts, Fail(p)
        PROVE  ReportInv'
    <2>1. CASE row' = Settle(p, "DLQ") /\ exec' = [exec EXCEPT ![p] = "toDlq"] /\ NoFault
      BY <1>12, <2>1 DEF Fail, Settle, Row, Held
    <2>2. CASE row' = Settle(p, "RETRY_WAIT") /\ exec' = [exec EXCEPT ![p] = "idle"] /\ NoFault
      BY <1>12, <2>2 DEF Fail, Settle, Row, Held
    <2>3. CASE exec' = [exec EXCEPT ![p] = "idle"] /\ UNCHANGED row /\ NoFault
      BY <1>12, <2>3 DEF Fail, Settle, Row, Held
    <2>4. CASE exec' = [exec EXCEPT ![p] = "idle"] /\ UNCHANGED row /\ Fault
      BY <1>12, <2>4 DEF Fail, Settle, Row, Held
    <2>. QED
      BY <1>12, <2>1, <2>2, <2>3, <2>4 DEF Fail
  <1>13. ASSUME NEW p \in Posts, ToDlq(p)
        PROVE  ReportInv'
    BY <1>13 DEF ToDlq, ExecStep
  <1>14. ASSUME NEW p \in Posts, Redrive(p)
        PROVE  ReportInv'
    BY <1>14 DEF Redrive, RedriveStep
  <1>15. ASSUME NEW p \in Posts, RedriveMove(p)
        PROVE  ReportInv'
    BY <1>15 DEF RedriveMove, RedriveStep
  <1>16. ASSUME NEW p \in Posts, RedriveUpdate(p)
        PROVE  ReportInv'
    BY <1>16 DEF RedriveUpdate, RedriveStep, Row
  <1>17. ASSUME NEW p \in Posts, DeployDone(p)
        PROVE  ReportInv'
    BY <1>17 DEF DeployDone
  <1>18. ASSUME NEW p \in Posts, NEW k \in CallIds, Guard(p, k)
        PROVE  ReportInv'
    <2>1. CASE pc' = [pc EXCEPT ![p][k] = Ended(p, k, "err")]
      BY <1>18, <2>1 DEF Guard, Ended
    <2>2. CASE pc' = [pc EXCEPT ![p][k] = "find"]
      BY <1>18, <2>2 DEF Guard, Ended
    <2>. QED
      BY <1>18, <2>1, <2>2 DEF Guard
  <1>19. ASSUME NEW p \in Posts, NEW k \in CallIds, Find(p, k)
        PROVE  ReportInv'
    <2>1. CASE Reply(p, k, "find", "ok")
      BY <1>19, <2>1 DEF Find, CallStep, Reply, Ended
    <2>2. CASE CallStep(p, k, "find", "create")
      BY <1>19, <2>2 DEF Find, CallStep, Reply, Ended
    <2>3. CASE CallStep(p, k, "find", "trigger")
      BY <1>19, <2>3 DEF Find, CallStep, Reply, Ended
    <2>. QED
      BY <1>19, <2>1, <2>2, <2>3 DEF Find
  <1>20. ASSUME NEW p \in Posts, NEW k \in CallIds, Create(p, k)
        PROVE  ReportInv'
    BY <1>20 DEF Create, CallStep
  <1>21. ASSUME NEW p \in Posts, NEW k \in CallIds, Trigger(p, k)
        PROVE  ReportInv'
    BY <1>21 DEF Trigger, CallStep
  <1>22. ASSUME NEW p \in Posts, NEW k \in CallIds, Deploy(p, k)
        PROVE  ReportInv'
    <2>1. CASE CallStep(p, k, "deploy", "emit") /\ log' = log \cup {p} /\ UNCHANGED lock
      BY <1>22, <2>1 DEF Deploy, CallStep
    <2>2. CASE CallStep(p, k, "deploy", "catch") /\ lock' = Unlocked(p) /\ UNCHANGED log
      BY <1>22, <2>2 DEF Deploy, CallStep
    <2>. QED
      BY <1>22, <2>1, <2>2 DEF Deploy
  <1>23. ASSUME NEW p \in Posts, NEW k \in CallIds, Emit(p, k)
        PROVE  ReportInv'
    <2>1. CASE CallStep(p, k, "emit", "record") /\ NoFault /\ UNCHANGED lock
      BY <1>23, <2>1 DEF Emit, CallStep, DeployInv
    <2>2. CASE CallStep(p, k, "emit", "catch") /\ Fault /\ lock' = Unlocked(p)
      BY <1>23, <2>2 DEF Emit, CallStep, DeployInv
    <2>. QED
      BY <1>23, <2>1, <2>2 DEF Emit
  <1>24. ASSUME NEW p \in Posts, NEW k \in CallIds, Record(p, k)
        PROVE  ReportInv'
    <2>1. CASE Reply(p, k, "record", "ok") /\ NoFault /\ receipt' = [receipt EXCEPT ![p] = "DELIVERED"]
      BY <1>24, <2>1 DEF Record, CallStep, Reply, Ended
    <2>2. CASE CallStep(p, k, "record", "catch") /\ Fault /\ UNCHANGED receipt
      BY <1>24, <2>2 DEF Record, CallStep, Reply, Ended
    <2>. QED
      BY <1>24, <2>1, <2>2 DEF Record
  <1>25. ASSUME NEW p \in Posts, NEW k \in CallIds, Catch(p, k)
        PROVE  ReportInv'
    BY <1>25 DEF Catch, CallStep, Reply, Ended
  <1>26. ASSUME NEW r \in Routes, Revoke(r)
        PROVE  ReportInv'
    BY <1>26 DEF Revoke
  <1>27. ASSUME NEW r \in Routes, Repair(r)
        PROVE  ReportInv'
    <2>1. CASE lock' = [lock EXCEPT ![r] = "free"] /\ UNCHANGED app
      BY <1>27, <2>1 DEF Repair
    <2>2. CASE app' = [app EXCEPT ![r] = "fit"] /\ UNCHANGED lock
      BY <1>27, <2>2 DEF Repair
    <2>. QED
      BY <1>27, <2>1, <2>2 DEF Repair
  <1>28. ASSUME NEW t \in Targets, TargetCrash(t)
        PROVE  ReportInv'
    BY <1>28 DEF TargetCrash, Interrupted, Ended, Running
  <1>29. CASE MasterCrash
    BY <1>29 DEF MasterCrash, Row, Running
  <1>30. CASE UNCHANGED vars
    BY <1>30 DEF vars
  <1>. QED
    BY <1>1, <1>2, <1>3, <1>4, <1>5, <1>6, <1>7, <1>8, <1>9, <1>10, <1>11, <1>12, <1>13, <1>14, <1>15, <1>16, <1>17, <1>18, <1>19, <1>20, <1>21, <1>22, <1>23, <1>24, <1>25, <1>26, <1>27, <1>28, <1>29, <1>30 DEF Next, Intake, Worker, Handler

-----------------------------------------------------------------------------
(* The theorems *)

\* The inductive invariant: what the conclusions below are read off.
DeliveryInv == TypeOK /\ SpoolInv /\ DeployInv /\ RowInv /\ ReportInv

LEMMA DeliveryInvariant == Spec => []DeliveryInv
  <1>1. Init => DeliveryInv
    <2>. SUFFICES ASSUME Init
                  PROVE  DeliveryInv
      OBVIOUS
    <2>1. TypeOK
      BY InitTypeOK
    <2>2. SpoolInv /\ RowInv
      BY DEF Init, NoRow, Row, SpoolInv, IntakeInv, WorkInv, PayloadKept, Queued, RowInv
    <2>3. DeployInv /\ ReportInv
      BY DEF Init, NoRow, Row, DeployInv, Deploying, ReportInv
    <2>. QED
      BY <2>1, <2>2, <2>3 DEF DeliveryInv
  <1>2. DeliveryInv /\ [Next]_vars => DeliveryInv'
    BY NextTypeOK, NextSpoolInv, NextDeployInv, NextRowInv, NextReportInv DEF DeliveryInv
  <1>. QED
    BY <1>1, <1>2, PTL DEF Spec

\* A delivery that is not delivered keeps its payload in one of the two
\* directories, whatever step of whom comes between the row and the file.
THEOREM PayloadsAreKept == Spec => []PayloadKept
  <1>1. DeliveryInv => PayloadKept
    BY DEF DeliveryInv, SpoolInv
  <1>. QED
    BY <1>1, DeliveryInvariant, PTL

\* For any number of repetitions, attempts, redrives, timeouts and crashes, at
\* most one deploy command reaches the agent for one push.
THEOREM PushesDeployOnce == Spec => []OneDeployPerPush
  <1>1. DeliveryInv => OneDeployPerPush
    <2>. SUFFICES ASSUME DeliveryInv
                  PROVE  OneDeployPerPush
      OBVIOUS
    <2>1. \A p \in Posts : emitted[p] <= 1
      BY DEF DeliveryInv, DeployInv
    <2>2. \A p \in Posts : emitted[p] > 0 => row[p].state # "NONE"
      BY DEF DeliveryInv, DeployInv
    <2>. QED
      BY <2>1, <2>2 DEF DeliveryInv, RowInv, OneDeployPerPush
  <1>. QED
    BY <1>1, DeliveryInvariant, PTL

\* Which steps change the state of a row, and how.
LEMMA StepsOnRows ==
  ASSUME DeliveryInv, [Next]_vars
  PROVE  \/ \A q \in Posts : row'[q] = row[q]
         \/ MasterCrash
         \/ \E p \in Posts :
              /\ \A q \in Posts : q # p => row'[q] = row[q]
              /\ Admit(p) \/ Claim(p) \/ Complete(p) \/ Fail(p) \/ RedriveUpdate(p)
  <1>. USE DEF masterVars
  <1>1. ASSUME NEW p \in Posts,
               \/ Check(p) \/ Spool(p) \/ Undo(p) \/ Read(p) \/ Send(p) \/ Answer(p) \/ Timeout(p)
               \/ Remove(p) \/ ToDlq(p) \/ Redrive(p) \/ RedriveMove(p) \/ DeployDone(p)
               \/ \E k \in CallIds : Handler(p, k)
        PROVE  row' = row
    <2>1. CASE \E k \in CallIds : Handler(p, k)
      BY <2>1 DEF Handler, Guard, Find, Create, Trigger, Deploy, Emit, Record, Catch
    <2>. QED
      BY <1>1, <2>1 DEF Check, Spool, Undo, Read, Send, Answer, Timeout, Remove, ToDlq, Redrive,
                        RedriveMove, DeployDone
  <1>2. ASSUME NEW p \in Posts,
               Admit(p) \/ Claim(p) \/ Complete(p) \/ Fail(p) \/ RedriveUpdate(p)
        PROVE  \A q \in Posts : q # p => row'[q] = row[q]
    BY <1>2 DEF Admit, Claim, Complete, Fail, RedriveUpdate, Settle, DeliveryInv, TypeOK
  <1>3. ASSUME NEW r \in Routes, Revoke(r) \/ Repair(r)
        PROVE  row' = row
    BY <1>3 DEF Revoke, Repair
  <1>4. ASSUME NEW t \in Targets, TargetCrash(t)
        PROVE  row' = row
    BY <1>4 DEF TargetCrash
  <1>5. CASE UNCHANGED vars
    BY <1>5 DEF vars
  <1>. QED
    BY <1>1, <1>2, <1>3, <1>4, <1>5 DEF Next, Intake, Worker

\* A delivered row and a delivered receipt are never changed again.
THEOREM DeliveredStays == Spec => DeliveredIsFinal
  <1>1. ASSUME DeliveryInv, [Next]_vars, NEW p \in Posts, row[p].state = "DELIVERED"
        PROVE  row'[p] = row[p]
    <2>. USE DEF DeliveryInv, TypeOK, masterVars
    <2>1. row[p].owner = "none" /\ row[p] = Row("DELIVERED", row[p].attempt, "none")
      BY <1>1 DEF SpoolInv, WorkInv, Row
    <2>2. intake[p] = "answered"
      BY <1>1 DEF SpoolInv, IntakeInv
    <2>3. ASSUME NEW q \in Posts,
                 Admit(q) \/ Claim(q) \/ Complete(q) \/ Fail(q) \/ RedriveUpdate(q)
          PROVE  row'[p] = row[p]
      BY <1>1, <2>2, <2>3 DEF Admit, IntakeStep, Claim, Queued, Complete, Fail, Held, RedriveUpdate, Settle
    <2>4. CASE MasterCrash
      BY <1>1, <2>1, <2>4 DEF MasterCrash, Row
    <2>5. CASE \A q \in Posts : row'[q] = row[q]
      BY <2>5
    <2>. QED
      BY <1>1, <2>3, <2>4, <2>5, StepsOnRows
  <1>2. ASSUME DeliveryInv, [Next]_vars, NEW p \in Posts, receipt[p] = "DELIVERED"
        PROVE  receipt'[p] = receipt[p]
    <2>. USE DEF DeliveryInv, TypeOK, targetVars
    <2>1. ASSUME NEW q \in Posts, NEW k \in CallIds, Handler(q, k)
          PROVE  receipt'[p] = receipt[p]
      BY <1>2, <2>1 DEF Handler, Guard, Find, Create, Trigger, Deploy, Emit, Record, Catch
    <2>2. ASSUME NEW q \in Posts, Intake(q) \/ Worker(q) \/ Redrive(q) \/ RedriveMove(q)
                                    \/ RedriveUpdate(q) \/ DeployDone(q)
          PROVE  receipt' = receipt
      <3>1. CASE Intake(q)
        BY <3>1 DEF Intake, Check, Spool, Admit, Undo
      <3>2. CASE Worker(q)
        BY <3>2 DEF Worker, Claim, Read, Send, Answer, Timeout, Complete, Remove, Fail, ToDlq
      <3>. QED
        BY <2>2, <3>1, <3>2 DEF Redrive, RedriveMove, RedriveUpdate, DeployDone
    <2>3. ASSUME NEW r \in Routes, Revoke(r) \/ Repair(r)
          PROVE  receipt' = receipt
      BY <2>3 DEF Revoke, Repair
    <2>4. ASSUME NEW t \in Targets, TargetCrash(t)
          PROVE  receipt' = receipt
      BY <2>4 DEF TargetCrash
    <2>5. CASE MasterCrash \/ UNCHANGED vars
      BY <2>5 DEF MasterCrash, vars
    <2>. QED
      BY <1>2, <2>1, <2>2, <2>3, <2>4, <2>5 DEF Next
  <1>3. DeliveryInv /\ [Next]_vars =>
          [\A p \in Posts : /\ row[p].state = "DELIVERED" => row'[p] = row[p]
                            /\ receipt[p] = "DELIVERED" => receipt'[p] = receipt[p]]_vars
    BY <1>1, <1>2
  <1>. QED
    BY <1>3, DeliveryInvariant, PTL DEF Spec, DeliveredIsFinal

-----------------------------------------------------------------------------
(* The refinement *)

LEMMA KeysAndPushes ==
  ASSUME NEW p \in Posts, NEW q \in Posts
  PROVE  KeyOf(p) = KeyOf(q) <=> SamePush(p, q)
  BY DEF KeyOf, SamePush

\* The phase of a push is that of the row of any of its posts that has one.
PhaseFacts ==
    \A p \in Posts :
        /\ row[p].state \in Queued => PhaseOf(KeyOf(p)) = "queued"
        /\ row[p].state = "DELIVERED" => PhaseOf(KeyOf(p)) = "delivered"
        /\ row[p].state = "DLQ" => PhaseOf(KeyOf(p)) = "dead"
        /\ ~Known(p) => PhaseOf(KeyOf(p)) = "unknown"

LEMMA PhaseOfRow == DeliveryInv => PhaseFacts
  <1>. SUFFICES ASSUME DeliveryInv, NEW p \in Posts
                PROVE  /\ row[p].state \in Queued => PhaseOf(KeyOf(p)) = "queued"
                       /\ row[p].state = "DELIVERED" => PhaseOf(KeyOf(p)) = "delivered"
                       /\ row[p].state = "DLQ" => PhaseOf(KeyOf(p)) = "dead"
                       /\ ~Known(p) => PhaseOf(KeyOf(p)) = "unknown"
    BY DEF PhaseFacts
  <1>1. \A S \in SUBSET (RowStates \ {"NONE"}) :
          row[p].state # "NONE" => (InState(KeyOf(p), S) <=> row[p].state \in S)
    BY KeysAndPushes DEF InState, RowInv, DeliveryInv
  <1>2. ~Known(p) => \A S \in SUBSET (RowStates \ {"NONE"}) : ~InState(KeyOf(p), S)
    BY KeysAndPushes DEF InState, Known, SamePush
  <1>3. /\ Queued \in SUBSET (RowStates \ {"NONE"})
        /\ {"DELIVERED"} \in SUBSET (RowStates \ {"NONE"})
        /\ {"DLQ"} \in SUBSET (RowStates \ {"NONE"})
    BY DEF RowStates, Queued
  <1>4. /\ row[p].state # "NONE" =>
             /\ InState(KeyOf(p), Queued) <=> row[p].state \in Queued
             /\ InState(KeyOf(p), {"DELIVERED"}) <=> row[p].state = "DELIVERED"
             /\ InState(KeyOf(p), {"DLQ"}) <=> row[p].state = "DLQ"
        /\ ~Known(p) => /\ ~InState(KeyOf(p), Queued)
                        /\ ~InState(KeyOf(p), {"DELIVERED"})
                        /\ ~InState(KeyOf(p), {"DLQ"})
    BY <1>1, <1>2, <1>3
  <1>. QED
    BY <1>4 DEF PhaseOf, Queued

\* A step that changes the state of one row changes the phase of one push.
LEMMA PhaseOfOthers ==
  ASSUME NEW p \in Posts, \A q \in Posts : q # p => row'[q] = row[q],
         NEW c \in Keys, c # KeyOf(p)
  PROVE  PhaseOf(c)' = PhaseOf(c)
  <1>1. ASSUME NEW S
        PROVE  InState(c, S)' <=> InState(c, S)
    BY DEF InState, KeyOf
  <1>. QED
    BY <1>1 DEF PhaseOf, Queued

LEMMA SamePhases ==
  ASSUME \A q \in Posts : row'[q].state = row[q].state
  PROVE  PhaseBar' = PhaseBar
  <1>1. ASSUME NEW c, NEW S
        PROVE  InState(c, S)' <=> InState(c, S)
    BY DEF InState, KeyOf
  <1>2. \A c \in Keys : PhaseOf(c)' = PhaseOf(c)
    BY <1>1 DEF PhaseOf, Queued
  <1>. QED
    BY <1>2 DEF PhaseBar, Keys, KeyOf

LEMMA OnePhase ==
  ASSUME NEW p \in Posts, \A q \in Posts : q # p => row'[q] = row[q],
         NEW t, PhaseOf(KeyOf(p))' = t
  PROVE  PhaseBar' = [PhaseBar EXCEPT ![KeyOf(p)] = t]
  <1>1. \A c \in Keys : c # KeyOf(p) => PhaseOf(c)' = PhaseOf(c)
    BY PhaseOfOthers
  <1>2. KeyOf(p) \in Keys
    BY DEF Keys
  <1>3. (PhaseBar)' = [c \in Keys |-> PhaseOf(c)']
    BY DEF PhaseBar, Keys, KeyOf
  <1>. QED
    BY <1>1, <1>2, <1>3 DEF PhaseBar

\* The deploy log of the target: only Deploy writes it.
LEMMA StepsOnLog ==
  ASSUME DeliveryInv, [Next]_vars
  PROVE  \/ log' = log
         \/ \E p \in Posts, k \in CallIds : Deploy(p, k)
  <1>. USE DEF targetVars
  <1>1. ASSUME NEW p \in Posts, Intake(p) \/ Worker(p) \/ Redrive(p) \/ RedriveMove(p)
                                   \/ RedriveUpdate(p) \/ DeployDone(p)
        PROVE  log' = log
    <2>1. CASE Intake(p)
      BY <2>1 DEF Intake, Check, Spool, Admit, Undo
    <2>2. CASE Worker(p)
      BY <2>2 DEF Worker, Claim, Read, Send, Answer, Timeout, Complete, Remove, Fail, ToDlq
    <2>. QED
      BY <1>1, <2>1, <2>2 DEF Redrive, RedriveMove, RedriveUpdate, DeployDone
  <1>2. ASSUME NEW p \in Posts, NEW k \in CallIds, Handler(p, k)
        PROVE  log' = log \/ Deploy(p, k)
    BY <1>2 DEF Handler, Guard, Find, Create, Trigger, Emit, Record, Catch
  <1>3. ASSUME NEW r \in Routes, Revoke(r) \/ Repair(r)
        PROVE  log' = log
    BY <1>3 DEF Revoke, Repair
  <1>4. ASSUME NEW t \in Targets, TargetCrash(t)
        PROVE  log' = log
    BY <1>4 DEF TargetCrash
  <1>5. CASE MasterCrash \/ UNCHANGED vars
    BY <1>5 DEF MasterCrash, vars
  <1>. QED
    BY <1>1, <1>2, <1>3, <1>4, <1>5 DEF Next

LEMMA SettingsStay == [Next]_vars => ignored' = ignored
  <1>. SUFFICES ASSUME [Next]_vars
                PROVE  ignored' = ignored
    OBVIOUS
  <1>. USE DEF settings
  <1>1. ASSUME NEW p \in Posts, Intake(p) \/ Worker(p) \/ Redrive(p) \/ RedriveMove(p)
                                   \/ RedriveUpdate(p) \/ DeployDone(p)
        PROVE  ignored' = ignored
    <2>1. CASE Intake(p)
      BY <2>1 DEF Intake, Check, Spool, Admit, Undo
    <2>2. CASE Worker(p)
      BY <2>2 DEF Worker, Claim, Read, Send, Answer, Timeout, Complete, Remove, Fail, ToDlq
    <2>. QED
      BY <1>1, <2>1, <2>2 DEF Redrive, RedriveMove, RedriveUpdate, DeployDone
  <1>2. ASSUME NEW p \in Posts, NEW k \in CallIds, Handler(p, k)
        PROVE  ignored' = ignored
    BY <1>2 DEF Handler, Guard, Find, Create, Trigger, Deploy, Emit, Record, Catch
  <1>3. ASSUME NEW r \in Routes, Revoke(r) \/ Repair(r)
        PROVE  ignored' = ignored
    BY <1>3 DEF Revoke, Repair
  <1>4. ASSUME NEW t \in Targets, TargetCrash(t)
        PROVE  ignored' = ignored
    BY <1>4 DEF TargetCrash
  <1>5. CASE MasterCrash \/ UNCHANGED vars
    BY <1>5 DEF MasterCrash, vars
  <1>. QED
    BY <1>1, <1>2, <1>3, <1>4, <1>5 DEF Next

DeployedBar == {KeyOf(p) : p \in log}

SkippedBar == {KeyOf(p) : p \in ignored}

\* One step on one row is one step of the promise or none.
LEMMA RowStepsSimulate ==
  ASSUME DeliveryInv, DeliveryInv', [Next]_vars, NEW p \in Posts, log' = log,
         \A q \in Posts : q # p => row'[q] = row[q],
         Admit(p) \/ Claim(p) \/ Complete(p) \/ Fail(p) \/ RedriveUpdate(p)
  PROVE  [Promise!PushNext]_(Promise!pushVars)
  <1>. DEFINE c == KeyOf(p)
  <1>1. c \in Keys /\ PhaseBar[c] = PhaseOf(c)
    BY DEF Keys, PhaseBar
  <1>2. DeployedBar' = DeployedBar /\ SkippedBar' = SkippedBar
    BY SettingsStay DEF DeployedBar, SkippedBar, KeyOf
  <1>3. /\ row'[p].state \in Queued => PhaseOf(c)' = "queued"
        /\ row'[p].state = "DELIVERED" => PhaseOf(c)' = "delivered"
        /\ row'[p].state = "DLQ" => PhaseOf(c)' = "dead"
    <2>1. PhaseFacts'
      BY PhaseOfRow, PTL
    <2>. QED
      BY <2>1 DEF PhaseFacts, Queued, KeyOf
  <1>4. /\ row[p].state \in Queued => PhaseOf(c) = "queued"
        /\ row[p].state = "DLQ" => PhaseOf(c) = "dead"
        /\ ~Known(p) => PhaseOf(c) = "unknown"
    BY PhaseOfRow DEF PhaseFacts
  <1>5. ASSUME NEW t, PhaseOf(c)' = t
        PROVE  PhaseBar' = [PhaseBar EXCEPT ![c] = t]
    BY <1>5, OnePhase
  <1>6. CASE row'[p].state = row[p].state \/ (row[p].state \in Queued /\ row'[p].state \in Queued)
    <2>1. PhaseBar' = PhaseBar
      <3>1. CASE row'[p].state = row[p].state
        <4>1. \A q \in Posts : row'[q].state = row[q].state
          BY <3>1
        <4>. QED
          BY <4>1, SamePhases
      <3>2. CASE row[p].state \in Queued /\ row'[p].state \in Queued
        <4>1. PhaseBar' = [PhaseBar EXCEPT ![c] = "queued"] /\ PhaseBar[c] = "queued"
          BY <3>2, <1>1, <1>3, <1>4, <1>5
        <4>. QED
          BY <4>1, <1>1 DEF PhaseBar
      <3>. QED
        BY <1>6, <3>1, <3>2
    <2>. QED
      BY <2>1, <1>2 DEF Promise!pushVars, DeployedBar, SkippedBar
  <1>7. ASSUME NEW from, NEW to,
               PhaseOf(c) = from, PhaseOf(c)' = to
        PROVE  Promise!Move(c, from, to)
    <2>1. PhaseBar' = [PhaseBar EXCEPT ![c] = to]
      BY <1>7, <1>5
    <2>. QED
      BY <1>7, <1>1, <1>2, <2>1 DEF Promise!Move, DeployedBar, SkippedBar
  <1>8. CASE Admit(p)
    <2>1. CASE ~Known(p) /\ row' = [row EXCEPT ![p] = Row("ACCEPTED", 0, "none")]
      <3>1. row'[p].state \in Queued
        BY <2>1 DEF DeliveryInv, TypeOK, Row, Queued
      <3>2. Promise!AcceptPush(c)
        BY <2>1, <3>1, <1>3, <1>4, <1>7 DEF Promise!AcceptPush
      <3>. QED
        BY <3>2, <1>1 DEF Promise!PushNext
    <2>2. CASE row' = row
      BY <2>2, <1>6
    <2>. QED
      BY <1>8, <2>1, <2>2 DEF Admit
  <1>9. CASE Claim(p)
    BY <1>9, <1>6 DEF Claim, Row, Queued, DeliveryInv, TypeOK
  <1>10. CASE Complete(p)
    <2>1. CASE Held(p) /\ row' = Settle(p, "DELIVERED")
      <3>1. row[p].state \in Queued /\ row'[p].state = "DELIVERED"
        BY <2>1 DEF Held, Settle, Row, Queued, DeliveryInv, TypeOK
      <3>2. p \in log \cup ignored
        BY <1>10 DEF Complete, ExecStep, DeliveryInv, ReportInv
      <3>3. Promise!DeliverPush(c)
        BY <3>1, <3>2, <1>3, <1>4, <1>7 DEF Promise!DeliverPush, DeployedBar, SkippedBar
      <3>. QED
        BY <3>3, <1>1 DEF Promise!PushNext
    <2>2. CASE row' = row
      BY <2>2, <1>6
    <2>. QED
      BY <1>10, <2>1, <2>2 DEF Complete
  <1>11. CASE Fail(p)
    <2>1. CASE Held(p) /\ row' = Settle(p, "DLQ")
      <3>1. row[p].state \in Queued /\ row'[p].state = "DLQ"
        BY <2>1 DEF Held, Settle, Row, Queued, DeliveryInv, TypeOK
      <3>2. Promise!SetAside(c)
        BY <3>1, <1>3, <1>4, <1>7 DEF Promise!SetAside
      <3>. QED
        BY <3>2, <1>1 DEF Promise!PushNext
    <2>2. CASE Held(p) /\ row' = Settle(p, "RETRY_WAIT")
      <3>1. row[p].state \in Queued /\ row'[p].state \in Queued
        BY <2>2 DEF Held, Settle, Row, Queued, DeliveryInv, TypeOK
      <3>. QED
        BY <3>1, <1>6
    <2>3. CASE row' = row
      BY <2>3, <1>6
    <2>. QED
      BY <1>11, <2>1, <2>2, <2>3 DEF Fail
  <1>12. CASE RedriveUpdate(p)
    <2>1. CASE row[p].state = "DLQ" /\ row' = [row EXCEPT ![p] = Row("ACCEPTED", 0, "none")]
      <3>1. row'[p].state \in Queued
        BY <2>1 DEF DeliveryInv, TypeOK, Row, Queued
      <3>2. Promise!BringBack(c)
        BY <2>1, <3>1, <1>3, <1>4, <1>7 DEF Promise!BringBack
      <3>. QED
        BY <3>2, <1>1 DEF Promise!PushNext
    <2>2. CASE row' = row
      BY <2>2, <1>6
    <2>. QED
      BY <1>12, <2>1, <2>2 DEF RedriveUpdate
  <1>. QED
    BY <1>8, <1>9, <1>10, <1>11, <1>12

\* The entry in the deploy log is the deploy of the promise.
LEMMA DeploySimulates ==
  ASSUME DeliveryInv, [Next]_vars, NEW p \in Posts, NEW k \in CallIds, Deploy(p, k)
  PROVE  [Promise!PushNext]_(Promise!pushVars)
  <1>1. row' = row /\ ignored' = ignored
    BY DEF Deploy, masterVars, settings
  <1>2. PhaseBar' = PhaseBar /\ SkippedBar' = SkippedBar
    BY <1>1, SamePhases DEF SkippedBar, KeyOf
  <1>3. CASE log' = log
    <2>1. DeployedBar' = DeployedBar
      BY <1>3 DEF DeployedBar, KeyOf
    <2>. QED
      BY <2>1, <1>2 DEF Promise!pushVars, DeployedBar, SkippedBar
  <1>4. CASE log' = log \cup {p}
    <2>. DEFINE c == KeyOf(p)
    <2>1. p \notin log /\ row[p].state # "NONE"
      BY DEF Deploy, CallStep, DeliveryInv, DeployInv, Deploying
    <2>2. c \notin DeployedBar
      <3>1. SUFFICES ASSUME NEW q \in log, KeyOf(q) = c
                     PROVE  FALSE
        BY DEF DeployedBar
      <3>2. q \in Posts /\ row[q].state # "NONE"
        BY DEF DeliveryInv, TypeOK, DeployInv
      <3>. QED
        BY <2>1, <3>1, <3>2, KeysAndPushes DEF DeliveryInv, RowInv
    <2>3. DeployedBar' = DeployedBar \cup {c}
      BY <1>4 DEF DeployedBar, KeyOf
    <2>4. c \in Keys /\ PhaseBar[c] # "unknown"
      <3>1. row[p].state \in Queued \cup {"DELIVERED", "DLQ"}
        BY <2>1 DEF DeliveryInv, TypeOK, RowStates
      <3>2. PhaseOf(c) # "unknown"
        BY <3>1, PhaseOfRow DEF PhaseFacts
      <3>. QED
        BY <3>2 DEF Keys, PhaseBar
    <2>5. Promise!DeployPush(c)
      BY <1>2, <2>2, <2>3, <2>4 DEF Promise!DeployPush, DeployedBar, SkippedBar
    <2>. QED
      BY <2>4, <2>5 DEF Promise!PushNext
  <1>. QED
    BY <1>3, <1>4 DEF Deploy

\* The ingress, the worker and the target together implement PushDelivery.
THEOREM PromiseIsKept == Spec => KeepsPromise
  <1>1. Init => Promise!PushInit
    <2>. SUFFICES ASSUME Init
                  PROVE  Promise!PushInit
      OBVIOUS
    <2>1. \A c \in Keys : PhaseOf(c) = "unknown"
      BY DEF Init, NoRow, Row, PhaseOf, InState, Queued
    <2>2. PhaseBar = [c \in Keys |-> "unknown"]
      BY <2>1 DEF PhaseBar
    <2>3. {KeyOf(p) : p \in log} = {} /\ {KeyOf(p) : p \in ignored} \subseteq Keys
      BY DEF Init, Keys
    <2>. QED
      BY <2>2, <2>3 DEF Promise!PushInit
  <1>2. ASSUME DeliveryInv, DeliveryInv', [Next]_vars
        PROVE  [Promise!PushNext]_(Promise!pushVars)
    <2>1. CASE \E p \in Posts, k \in CallIds : Deploy(p, k)
      BY <1>2, <2>1, DeploySimulates
    <2>2. CASE log' = log
      <3>1. ignored' = ignored
        BY <1>2, SettingsStay
      <3>2. CASE \A q \in Posts : row'[q].state = row[q].state
        <4>1. PhaseBar' = PhaseBar
          BY <3>2, SamePhases
        <4>2. DeployedBar' = DeployedBar /\ SkippedBar' = SkippedBar
          BY <2>2, <3>1 DEF DeployedBar, SkippedBar, KeyOf
        <4>. QED
          BY <4>1, <4>2 DEF Promise!pushVars, DeployedBar, SkippedBar
      <3>3. CASE MasterCrash
        <4>1. \A q \in Posts : row'[q].state = row[q].state
          BY <3>3 DEF MasterCrash, Row
        <4>. QED
          BY <4>1, <3>2
      <3>4. ASSUME NEW p \in Posts,
                   \A q \in Posts : q # p => row'[q] = row[q],
                   Admit(p) \/ Claim(p) \/ Complete(p) \/ Fail(p) \/ RedriveUpdate(p)
            PROVE  [Promise!PushNext]_(Promise!pushVars)
        BY <1>2, <2>2, <3>4, RowStepsSimulate
      <3>. QED
        BY <1>2, <3>2, <3>3, <3>4, StepsOnRows
    <2>. QED
      BY <1>2, <2>1, <2>2, StepsOnLog
  <1>. QED
    BY <1>1, <1>2, DeliveryInvariant, PTL DEF Spec, KeepsPromise, Promise!PushSpec

=============================================================================
