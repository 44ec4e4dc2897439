------------------------- MODULE PanelAccessCutover -------------------------
(***************************************************************************)
(* One change of the address under which a master reaches a target panel:  *)
(* the coordinator and the registry of the master, the cutover service of  *)
(* the target with its journal and its queued stage operation, and the     *)
(* agent of the target, which changes the listeners.                       *)
(*                                                                         *)
(* An administrator calls start, get, confirmBrowser and rollback, a timer *)
(* calls reconcileExpired, and all of these may overlap.  A call is split  *)
(* where it awaits the registry or the target, a handler of the target     *)
(* where it awaits its database or the agent, a command of the agent       *)
(* between the reading of its journal and its effect.  The idempotency     *)
(* keys of the requests are made from the cutover id alone, so the target  *)
(* accepts each of them once: a request is repeated in vain.               *)
(***************************************************************************)
EXTENDS Integers

CONSTANTS
    Operators,  \* places for calls of the administrator
    Timers,     \* places for the passes of the timer, which may overlap
    MaxCalls,   \* bound: calls of the administrator
    MaxFaults   \* bound: lost requests and answers, outages, crashes, failed steps

ASSUME CutoverAssumption ==
    /\ Timers \cap Operators = {}
    /\ MaxCalls \in Nat
    /\ MaxFaults \in Nat

Calls == Operators \cup Timers

RollbackKeys == {"rollback", "reconcile"}

\* The requests whose handlers command the agent.
PostKeys == {"finalize"} \cup RollbackKeys

Keys == PostKeys \cup {"stage", "cancel"}

\* Handlers of the target: one for each of these keys and, without a key,
\* one for the status request of a call.
Handlers == PostKeys \cup Calls

ASSUME HandlerAssumption == Calls \cap Keys = {}

VARIABLES
    reg,        \* RemoteEndpointCutover.state on the master
    active,     \* the endpoint generation that is active there
    candidate,  \* the candidate generation there
    link,       \* the RemoteOperationLink of the stage operation
    frozen,     \* whether the registry refuses mutations until it is repaired
    path,       \* whether the network lets requests through to the target
    late,       \* whether the deadline has passed
    step,       \* call -> its next step
    begun,      \* calls of the administrator so far
    used,       \* idempotency keys the target has accepted
    op,         \* status of the stage operation on the target
    stage,      \* progress of its handler
    journal,    \* the cutover journal of the target
    settings,   \* the Panel Access settings of the target
    pc,         \* handler -> its next step
    snap,       \* handler -> the journal as it has read it
    seen,       \* handler -> the state the agent has told it
    cmd,        \* agent command -> its progress
    agent,      \* the cutover journal of the agent
    faults      \* faults so far

masterVars == <<reg, active, candidate, link, frozen, path>>
callVars == <<step, begun>>
stageVars == <<op, stage>>
targetVars == <<journal, settings>>
handlerVars == <<pc, snap, seen>>
agentVars == <<cmd, agent>>
remoteVars == <<used, stageVars, targetVars, handlerVars, agentVars>>
vars == <<masterVars, late, callVars, remoteVars, faults>>

Terminal == {"FINALIZED", "ROLLED_BACK"}

RegStates == {"NONE", "PREPARED", "STAGED", "ACTIVATED", "NEEDS_ATTENTION"} \cup Terminal

\* The journal of the target: its state and whether it holds a candidate.
Journal(s, c) == [state |-> s, candidate |-> c]

JournalStates ==
    {"NONE", "STAGING", "STAGED", "FINALIZING", "ROLLING_BACK", "NEEDS_ATTENTION"} \cup Terminal

Journals == [state : JournalStates, candidate : {"none", "new"}]

NoJournal == Journal("NONE", "none")

AgentStates == {"NONE", "STAGED"} \cup Terminal

OpRunning == {"QUEUED", "RUNNING", "CANCEL_REQUESTED"}

RollbackSafe == {"SUCCEEDED", "FAILED", "CANCELLED"}

OpStates == {"NONE", "NEEDS_ATTENTION"} \cup OpRunning \cup RollbackSafe

\* Calls that wait for the handler of a key, and for that of their status request.
Waiting == {"finalizing", "rollingBack", "reconciling"}

Asking == {"confirming", "checking"}

Steps == {"idle", "stage", "stageAgain", "link", "linkAgain", "getOp", "verify", "regStage",
          "regStageLate", "probe", "activate", "activateLate", "safe", "cancel", "regFinalize",
          "regConfirm", "regRollback", "attention"}
         \cup PostKeys \cup Waiting \cup Asking

Working == {"check", "safe", "read", "ask", "adopt", "decide", "agent"}

HandlerSteps == {"none", "ok", "err"} \cup Working

\* A command at work carries the state in which the agent has read its journal.
CmdSteps == {"none", "ok", "fail"} \cup AgentStates

TypeOK ==
    /\ reg \in RegStates
    /\ active \in {"old", "new"}
    /\ candidate \in {"none", "new"}
    /\ link \in {"none", "recorded"}
    /\ frozen \in {"no", "yes"}
    /\ path \in {"up", "down"}
    /\ late \in {"no", "yes"}
    /\ step \in [Calls -> Steps]
    /\ begun \in 0 .. MaxCalls
    /\ used \subseteq Keys
    /\ op \in OpStates
    /\ stage \in {"none", "agent", "end", "failed", "unknown"}
    /\ journal \in Journals
    /\ settings \in {"old", "new"}
    /\ pc \in [Handlers -> HandlerSteps]
    /\ snap \in [Handlers -> Journals]
    /\ seen \in [Handlers -> AgentStates]
    /\ cmd \in [PostKeys \cup {"stage"} -> CmdSteps]
    /\ agent \in AgentStates
    /\ faults \in 0 .. MaxFaults

Init ==
    /\ reg = "NONE" /\ active = "old" /\ candidate = "none" /\ link = "none"
    /\ frozen = "no" /\ path = "up"
    /\ late = "no"
    /\ step = [c \in Calls |-> "idle"]
    /\ begun = 0
    /\ used = {}
    /\ op = "NONE" /\ stage = "none"
    /\ journal = NoJournal /\ settings = "old"
    /\ pc = [h \in Handlers |-> "none"]
    /\ snap = [h \in Handlers |-> NoJournal]
    /\ seen = [h \in Handlers |-> "NONE"]
    /\ cmd = [k \in PostKeys \cup {"stage"} |-> "none"]
    /\ agent = "NONE"
    /\ faults = 0

Fault ==
    /\ faults < MaxFaults
    /\ faults' = faults + 1

NoFault == UNCHANGED faults

\* The agent's journal decides which listeners there are: the old one except
\* with FINALIZED, the candidate's with STAGED and FINALIZED.  The master sends
\* its requests to the endpoint that is active in its registry.
CandidateServes == path = "up" /\ agent \in {"STAGED", "FINALIZED"}

Reachable == IF active = "old" THEN path = "up" /\ agent # "FINALIZED" ELSE CandidateServes

\* A request does not get through, or a step outside of the model fails.
Lost == (~Reachable /\ NoFault) \/ Fault

-----------------------------------------------------------------------------
(***************************************************************************)
(* Entries of the calls.                                                   *)
(***************************************************************************)

Goes(c, s) == step' = [step EXCEPT ![c] = s]

\* A step of call c that changes nothing but the place where the call is.
Continues(c, s) == Goes(c, s) /\ UNCHANGED <<masterVars, late, begun, remoteVars>>

\* Call c of the administrator begins with step s.
Enters(c, s) ==
    /\ c \in Operators /\ step[c] = "idle" /\ pc[c] \notin Working
    /\ begun < MaxCalls /\ begun' = begun + 1
    /\ Goes(c, s)

Deciding == reg \in {"ACTIVATED", "NEEDS_ATTENTION"} /\ active = "new"

\* GET of the target's cutover state: the handler of c starts.
AsksStatus(c) == pc' = [pc EXCEPT ![c] = "read"]

\* commitMutationDecision throws before its transaction has changed anything:
\* the registry is frozen, the projection of another mutation is not committed
\* yet, or the transaction itself fails.
Refuses == ((frozen = "yes" /\ NoFault) \/ Fault) /\ UNCHANGED <<reg, active, candidate, frozen>>

\* It commits and then writes the projection; when that fails the registry is
\* frozen and the call gets an error all the same.  (A crash between the two
\* leaves the journal PREPARED, which freezes it too: then MasterCrash follows.)
Commits(c, done, error) ==
    /\ frozen = "no"
    /\ \/ Goes(c, done) /\ NoFault /\ UNCHANGED frozen
       \/ Goes(c, error) /\ Fault /\ frozen' = "yes"

Prepare(c) ==
    /\ reg = "NONE"
    /\ \/ /\ frozen = "no" /\ reg' = "PREPARED"
          /\ \/ Enters(c, "stage") /\ NoFault /\ UNCHANGED frozen
             \/ Enters(c, "idle") /\ Fault /\ frozen' = "yes"
       \/ Enters(c, "idle") /\ Refuses
    /\ UNCHANGED <<active, candidate, link, path, late, remoteVars>>

Start(c) ==
    /\ reg = "PREPARED"
    /\ Enters(c, IF link = "none" THEN "stageAgain" ELSE "getOp")
    /\ UNCHANGED <<masterVars, late, remoteVars, faults>>

Get(c) ==
    /\ reg = "PREPARED" /\ link = "recorded"
    /\ Enters(c, "getOp")
    /\ UNCHANGED <<masterVars, late, remoteVars, faults>>

\* get and confirmBrowser of a cutover that the registry has activated.
Resume(c) ==
    /\ Deciding
    /\ \/ Enters(c, "checking") /\ Reachable /\ AsksStatus(c) /\ NoFault
       \/ Enters(c, "attention") /\ Lost /\ UNCHANGED pc
    /\ UNCHANGED <<masterVars, late, used, stageVars, targetVars, snap, seen, agentVars>>

Confirm(c) ==
    /\ reg = "STAGED" /\ candidate = "new" /\ Reachable
    /\ Enters(c, "confirming") /\ AsksStatus(c)
    /\ UNCHANGED <<masterVars, late, used, stageVars, targetVars, snap, seen, agentVars, faults>>

Rollback(c) ==
    /\ reg \notin {"NONE"} \cup Terminal
    /\ Enters(c, "safe")
    /\ UNCHANGED <<masterVars, late, remoteVars, faults>>

\* Mutant: the expiry leaves out the cutovers that wait for the browser.
Expire_skipsStaged(c) ==
    /\ c \in Timers /\ step[c] = "idle" /\ pc[c] \notin Working
    /\ late = "yes" /\ reg \notin {"NONE", "STAGED"} \cup Terminal
    /\ \/ Goes(c, "attention") /\ UNCHANGED pc /\ ((link = "none" /\ NoFault) \/ Fault)
       \/ link = "recorded" /\ Deciding /\ Reachable /\ Goes(c, "checking") /\ AsksStatus(c) /\ NoFault
       \/ link = "recorded" /\ Deciding /\ ~Reachable /\ Goes(c, "attention") /\ UNCHANGED pc /\ NoFault
       \/ link = "recorded" /\ active = "old" /\ Goes(c, "safe") /\ UNCHANGED pc /\ NoFault
    /\ UNCHANGED <<masterVars, late, begun, used, stageVars, targetVars, snap, seen, agentVars>>

\* reconcileExpired, for this cutover.  Without the link, or when the operator
\* is no administrator any more, it only asks for attention.
Expire(c) ==
    /\ c \in Timers /\ step[c] = "idle" /\ pc[c] \notin Working
    /\ late = "yes" /\ reg \notin {"NONE"} \cup Terminal
    /\ \/ Goes(c, "attention") /\ UNCHANGED pc /\ ((link = "none" /\ NoFault) \/ Fault)
       \/ link = "recorded" /\ Deciding /\ Reachable /\ Goes(c, "checking") /\ AsksStatus(c) /\ NoFault
       \/ link = "recorded" /\ Deciding /\ ~Reachable /\ Goes(c, "attention") /\ UNCHANGED pc /\ NoFault
       \/ link = "recorded" /\ active = "old" /\ Goes(c, "safe") /\ UNCHANGED pc /\ NoFault
    /\ UNCHANGED <<masterVars, late, begun, used, stageVars, targetVars, snap, seen, agentVars>>

\* The deadline, 15 minutes after the cutover was prepared, passes.
Deadline ==
    /\ reg # "NONE" /\ late = "no" /\ late' = "yes"
    /\ UNCHANGED <<masterVars, callVars, remoteVars, faults>>

-----------------------------------------------------------------------------
(***************************************************************************)
(* Starting the stage operation, and reconcile, which polls it.            *)
(***************************************************************************)

\* The target refuses a key that it has accepted before; it takes the key and
\* then refuses a request whose deadline is over.
PostStage(c) ==
    /\ step[c] \in {"stage", "stageAgain"}
    /\ \/ "stage" \in used /\ NoFault /\ Goes(c, "idle") /\ UNCHANGED <<used, op>>
       \/ Lost /\ Goes(c, "idle") /\ UNCHANGED <<used, op>>
       \/ /\ "stage" \notin used /\ Reachable /\ late = "yes" /\ NoFault
          /\ used' = used \cup {"stage"} /\ Goes(c, "idle") /\ UNCHANGED op
       \/ /\ "stage" \notin used /\ Reachable /\ late = "no"
          /\ used' = used \cup {"stage"} /\ op' = "QUEUED"
          /\ \/ Goes(c, IF step[c] = "stage" THEN "link" ELSE "linkAgain") /\ NoFault
             \/ Goes(c, "idle") /\ Fault
    /\ UNCHANGED <<masterVars, late, begun, stage, targetVars, handlerVars, agentVars>>

RecordLink(c) ==
    /\ step[c] \in {"link", "linkAgain"}
    /\ link' = "recorded"
    /\ Goes(c, IF step[c] = "linkAgain" /\ reg = "PREPARED" THEN "getOp" ELSE "idle")
    /\ UNCHANGED <<reg, active, candidate, frozen, path, late, begun, remoteVars, faults>>

GetOp(c) ==
    /\ step[c] = "getOp"
    /\ \/ Lost /\ Continues(c, "idle")
       \/ Reachable /\ NoFault /\ op \in OpRunning /\ Continues(c, "idle")
       \/ Reachable /\ NoFault /\ op = "NEEDS_ATTENTION" /\ Continues(c, "attention")
       \/ Reachable /\ NoFault /\ op \in {"FAILED", "CANCELLED"} /\ Continues(c, "reconcile")
       \/ Reachable /\ NoFault /\ op = "SUCCEEDED" /\ Continues(c, "verify")

\* verifyCandidate probes the candidate's listener; then the clock is read, to
\* be compared with the deadline once the registry gets to it.
Verify(c) ==
    /\ step[c] = "verify"
    /\ \/ CandidateServes /\ NoFault /\ Continues(c, IF late = "no" THEN "regStage" ELSE "regStageLate")
       \/ ~CandidateServes /\ NoFault /\ Continues(c, "reconcile")
       \/ Fault /\ Continues(c, "reconcile")

StageGuard(c) == reg = "PREPARED" /\ active = "old" /\ candidate = "none" /\ step[c] = "regStage"

\* Any error of stageEndpointCutover leads to rollbackUncommitted.
RegStage(c) ==
    /\ step[c] \in {"regStage", "regStageLate"}
    /\ \/ reg = "STAGED" /\ Commits(c, "idle", "reconcile") /\ UNCHANGED <<reg, candidate>>
       \/ /\ StageGuard(c) /\ Commits(c, "idle", "reconcile")
          /\ reg' = "STAGED" /\ candidate' = "new"
       \/ /\ reg # "STAGED" /\ ~StageGuard(c) /\ NoFault
          /\ Goes(c, "reconcile") /\ UNCHANGED <<reg, candidate, frozen>>
       \/ Refuses /\ Goes(c, "reconcile")
    /\ UNCHANGED <<active, link, path, late, begun, remoteVars>>

-----------------------------------------------------------------------------
(***************************************************************************)
(* confirmBrowser, reconcileActivated and the ways back.                   *)
(***************************************************************************)

\* ensureTargetRollbackSafe.
Safe(c) ==
    /\ step[c] = "safe"
    /\ \/ link = "none" /\ NoFault /\ Continues(c, "attention")
       \/ link = "recorded" /\ Lost /\ Continues(c, "idle")
       \/ /\ link = "recorded" /\ Reachable /\ NoFault
          /\ \/ op \in RollbackSafe /\ Continues(c, IF c \in Timers THEN "reconcile" ELSE "rollback")
             \/ op = "NEEDS_ATTENTION" /\ Continues(c, "attention")
             \/ op \in OpRunning /\ Continues(c, "cancel")

\* Mutant: a running operation gets a state that no one knows.
Cancelled_unknownState(s) ==
    IF s = "QUEUED" THEN "CANCELLED" ELSE IF s = "RUNNING" THEN "CANCELLING" ELSE s

\* What requestCancellation makes of the stage operation; it refuses the others.
Cancelled(s) ==
    IF s = "QUEUED" THEN "CANCELLED" ELSE IF s = "RUNNING" THEN "CANCEL_REQUESTED" ELSE s

Cancel(c) ==
    /\ step[c] = "cancel"
    /\ \/ "cancel" \in used /\ NoFault /\ Goes(c, "idle") /\ UNCHANGED <<used, op>>
       \/ Lost /\ Goes(c, "idle") /\ UNCHANGED <<used, op>>
       \/ /\ "cancel" \notin used /\ Reachable
          /\ used' = used \cup {"cancel"} /\ op' = Cancelled(op)
          /\ \/ op \in {"QUEUED", "RUNNING"} \cup RollbackSafe /\ NoFault /\ Goes(c, "attention")
             \/ op \in {"CANCEL_REQUESTED", "NEEDS_ATTENTION"} /\ NoFault /\ Goes(c, "idle")
             \/ Fault /\ Goes(c, "idle")
    /\ UNCHANGED <<masterVars, late, begun, stage, targetVars, handlerVars, agentVars>>

\* The step in which a call waits for the handler of key k.
Awaiting(k) ==
    IF k = "finalize" THEN "finalizing" ELSE IF k = "rollback" THEN "rollingBack" ELSE "reconciling"

\* The request with key k: refused, lost, or accepted and its handler started.
Post(c, k) ==
    /\ step[c] = k
    /\ \/ k \in used /\ NoFault /\ Goes(c, "attention") /\ UNCHANGED <<used, pc>>
       \/ Lost /\ Goes(c, "attention") /\ UNCHANGED <<used, pc>>
       \/ /\ k \notin used /\ Reachable /\ NoFault
          /\ used' = used \cup {k}
          /\ pc' = [pc EXCEPT ![k] = IF k = "finalize" THEN "read" ELSE "check"]
          /\ Goes(c, Awaiting(k))
    /\ UNCHANGED <<masterVars, late, begun, stageVars, targetVars, snap, seen, agentVars>>

\* Mutant: the state in the answer of the target is not looked at.
Answered_anyState(c, k) ==
    /\ step[c] = Awaiting(k)
    /\ \/ /\ pc[k] \in {"ok", "err"} /\ NoFault
          /\ Continues(c, IF k = "finalize" THEN "regFinalize" ELSE "regRollback")
       \/ Fault /\ Continues(c, "attention")

\* Its answer arrives, or is given up for lost while the handler goes on.
Answered(c, k) ==
    /\ step[c] = Awaiting(k)
    /\ \/ /\ pc[k] = "ok" /\ NoFault
          /\ Continues(c, IF k = "finalize" THEN "regFinalize" ELSE "regRollback")
       \/ pc[k] = "err" /\ NoFault /\ Continues(c, "attention")
       \/ Fault /\ Continues(c, "attention")

\* Call c leaves its status request for step s.
HasStatus(c, s) ==
    /\ pc' = [pc EXCEPT ![c] = "none"]
    /\ snap' = [snap EXCEPT ![c] = NoJournal]
    /\ Goes(c, s)
    /\ NoFault

Confirmed(c) ==
    /\ step[c] = "confirming"
    /\ \/ pc[c] = "ok" /\ HasStatus(c, IF snap[c].candidate = "new" THEN "probe" ELSE "idle")
       \/ pc[c] = "err" /\ HasStatus(c, "idle")
       \/ Fault /\ Goes(c, "idle") /\ UNCHANGED <<pc, snap>>
    /\ UNCHANGED <<masterVars, late, begun, used, stageVars, targetVars, seen, agentVars>>

\* What reconcileActivated does about a target in state s.
Reconciliation(s) ==
    IF s = "FINALIZED" THEN "regConfirm"
    ELSE IF s = "ROLLED_BACK" THEN "regRollback"
    ELSE IF late = "yes" THEN "reconcile"
    ELSE IF s \in {"STAGED", "FINALIZING", "NEEDS_ATTENTION"} THEN "finalize"
    ELSE "attention"

Checked(c) ==
    /\ step[c] = "checking"
    /\ \/ pc[c] = "ok" /\ HasStatus(c, Reconciliation(snap[c].state))
       \/ pc[c] = "err" /\ HasStatus(c, "attention")
       \/ Fault /\ Goes(c, "attention") /\ UNCHANGED <<pc, snap>>
    /\ UNCHANGED <<masterVars, late, begun, used, stageVars, targetVars, seen, agentVars>>

\* Mutant: the target is finalized before the registry is switched.
Probe_finalizesFirst(c) ==
    /\ step[c] = "probe"
    /\ \/ CandidateServes /\ NoFault /\ Continues(c, "finalize")
       \/ ~CandidateServes /\ NoFault /\ Continues(c, "idle")
       \/ Fault /\ Continues(c, "idle")

\* verifyCandidate again, before the activation, and the reading of the clock.
Probe(c) ==
    /\ step[c] = "probe"
    /\ \/ CandidateServes /\ NoFault /\ Continues(c, IF late = "no" THEN "activate" ELSE "activateLate")
       \/ ~CandidateServes /\ NoFault /\ Continues(c, "idle")
       \/ Fault /\ Continues(c, "idle")

\* Mutant: the state of the cutover is not looked at.
ActivateGuard_anyState(c) == active = "old" /\ candidate = "new" /\ step[c] = "activate"

ActivateGuard(c) ==
    reg = "STAGED" /\ active = "old" /\ candidate = "new" /\ step[c] = "activate"

\* An error of activateEndpointCutover ends the call.
Activate(c) ==
    /\ step[c] \in {"activate", "activateLate"}
    /\ \/ /\ reg \in {"ACTIVATED", "FINALIZED"} /\ Commits(c, "finalize", "idle")
          /\ UNCHANGED <<reg, active, candidate>>
       \/ /\ ActivateGuard(c) /\ Commits(c, "finalize", "idle")
          /\ reg' = "ACTIVATED" /\ active' = "new" /\ candidate' = "none"
       \/ /\ reg \notin {"ACTIVATED", "FINALIZED"} /\ ~ActivateGuard(c) /\ NoFault
          /\ Goes(c, "idle") /\ UNCHANGED <<reg, active, candidate, frozen>>
       \/ Refuses /\ Goes(c, "idle")
    /\ UNCHANGED <<link, path, late, begun, remoteVars>>

\* finalizeEndpointCutover: an error asks for attention after the request to
\* finalize, and is passed on after a status request.
RegFinalize(c) ==
    LET error == IF step[c] = "regFinalize" THEN "attention" ELSE "idle"
    IN  /\ step[c] \in {"regFinalize", "regConfirm"}
        /\ \/ reg = "FINALIZED" /\ Commits(c, "idle", error) /\ UNCHANGED <<reg, active, candidate>>
           \/ /\ Deciding /\ Commits(c, "idle", error)
              /\ reg' = "FINALIZED" /\ UNCHANGED <<active, candidate>>
           \/ /\ reg # "FINALIZED" /\ ~Deciding /\ NoFault
              /\ Goes(c, error) /\ UNCHANGED <<reg, active, candidate, frozen>>
           \/ Refuses /\ Goes(c, error)
        /\ UNCHANGED <<link, path, late, begun, remoteVars>>

\* rollbackEndpointCutover: refused once the cutover is finalized.
RegRollback(c) ==
    /\ step[c] = "regRollback"
    /\ \/ reg = "ROLLED_BACK" /\ Commits(c, "idle", "idle") /\ UNCHANGED <<reg, active, candidate>>
       \/ /\ reg \notin Terminal /\ Commits(c, "idle", "idle")
          /\ reg' = "ROLLED_BACK" /\ active' = "old" /\ candidate' = "none"
       \/ /\ reg = "FINALIZED" /\ NoFault
          /\ Goes(c, "idle") /\ UNCHANGED <<reg, active, candidate, frozen>>
       \/ Refuses /\ Goes(c, "idle")
    /\ UNCHANGED <<link, path, late, begun, remoteVars>>

\* markEndpointCutoverNeedsAttention; the call ends whether it succeeds or not.
Attention(c) ==
    /\ step[c] = "attention"
    /\ \/ /\ Commits(c, "idle", "idle") /\ UNCHANGED <<active, candidate>>
          /\ reg' = IF reg \in Terminal THEN reg ELSE "NEEDS_ATTENTION"
       \/ Refuses /\ Goes(c, "idle")
    /\ UNCHANGED <<link, path, late, begun, remoteVars>>

\* repairProjection, by an administrator.
RepairProjection ==
    /\ frozen = "yes" /\ frozen' = "no"
    /\ UNCHANGED <<reg, active, candidate, link, path, late, callVars, remoteVars, faults>>

CallStep(c) ==
    \/ PostStage(c) \/ RecordLink(c) \/ GetOp(c) \/ Verify(c) \/ RegStage(c) \/ Safe(c) \/ Cancel(c)
    \/ \E k \in PostKeys : Post(c, k) \/ Answered(c, k)
    \/ Confirmed(c) \/ Checked(c) \/ Probe(c) \/ Activate(c)
    \/ RegFinalize(c) \/ RegRollback(c) \/ Attention(c)

-----------------------------------------------------------------------------
(***************************************************************************)
(* Handlers of the target: status, finalize and rollback.                  *)
(***************************************************************************)

\* The answer of handler h: only that of a status request carries the journal.
Ends(h, a) ==
    /\ pc' = [pc EXCEPT ![h] = a]
    /\ snap' = [snap EXCEPT ![h] = IF h \in Calls THEN @ ELSE NoJournal]

\* States in which the agent is asked what it has done.
Unsettled == {"FINALIZING", "ROLLING_BACK", "NEEDS_ATTENTION"}

Reconciles(s) == IF s \in Unsettled THEN "ask" ELSE "decide"

\* rollback reads the journal ...
RollbackReads(h) ==
    /\ pc[h] = "check"
    /\ \/ journal.state = "NONE" /\ pc' = [pc EXCEPT ![h] = "ok"] /\ UNCHANGED snap
       \/ /\ journal.state # "NONE"
          /\ pc' = [pc EXCEPT ![h] = "safe"]
          /\ snap' = [snap EXCEPT ![h] = journal]
    /\ UNCHANGED <<masterVars, late, callVars, used, stageVars, targetVars, seen, agentVars, faults>>

\* ... and then the stage operation, which must have ended.
RollbackChecks(h) ==
    /\ pc[h] = "safe"
    /\ \/ op \notin RollbackSafe /\ Ends(h, "err")
       \/ op \in RollbackSafe /\ pc' = [pc EXCEPT ![h] = Reconciles(snap[h].state)] /\ UNCHANGED snap
    /\ UNCHANGED <<masterVars, late, callVars, used, stageVars, targetVars, seen, agentVars, faults>>

\* status and finalize read the journal.
Reads(h) ==
    /\ pc[h] = "read"
    /\ \/ journal.state = "NONE" /\ pc' = [pc EXCEPT ![h] = "err"] /\ UNCHANGED snap
       \/ /\ journal.state # "NONE"
          /\ pc' = [pc EXCEPT ![h] = Reconciles(journal.state)]
          /\ snap' = [snap EXCEPT ![h] = journal]
    /\ UNCHANGED <<masterVars, late, callVars, used, stageVars, targetVars, seen, agentVars, faults>>

\* reconcileAgentState asks the agent; without an answer it changes nothing.
Asks(h) ==
    /\ pc[h] = "ask"
    /\ \/ /\ agent # "NONE" /\ NoFault
          /\ seen' = [seen EXCEPT ![h] = agent] /\ pc' = [pc EXCEPT ![h] = "adopt"]
       \/ agent = "NONE" /\ NoFault /\ pc' = [pc EXCEPT ![h] = "decide"] /\ UNCHANGED seen
       \/ Fault /\ pc' = [pc EXCEPT ![h] = "decide"] /\ UNCHANGED seen
    /\ UNCHANGED <<masterVars, late, callVars, used, stageVars, targetVars, snap, agentVars>>

\* Settings and journal are written in one transaction, the rest of the journal
\* as handler h has read it.
Writes(h, s) ==
    /\ journal' = Journal(s, snap[h].candidate)
    /\ settings' = IF s = "FINALIZED" THEN "new" ELSE IF s = "ROLLED_BACK" THEN "old" ELSE settings

Adopts(h) ==
    /\ pc[h] = "adopt"
    /\ pc' = [pc EXCEPT ![h] = "decide"]
    /\ seen' = [seen EXCEPT ![h] = "NONE"]
    /\ \/ /\ seen[h] = "ROLLED_BACK" \/ (seen[h] = "FINALIZED" /\ snap[h].candidate = "new")
          /\ Writes(h, seen[h])
          /\ snap' = [snap EXCEPT ![h] = Journal(seen[h], snap[h].candidate)]
       \/ /\ seen[h] = "STAGED" \/ (seen[h] = "FINALIZED" /\ snap[h].candidate = "none")
          /\ UNCHANGED <<targetVars, snap>>
    /\ UNCHANGED <<masterVars, late, callVars, used, stageVars, agentVars, faults>>

CanFinalize(j) == j.state \in {"STAGED", "FINALIZING", "NEEDS_ATTENTION"} /\ j.candidate = "new"

\* The handler answers, or writes its intention and commands the agent.
Decides(h) ==
    /\ pc[h] = "decide"
    /\ \/ h \in Calls /\ Ends(h, "ok") /\ UNCHANGED targetVars
       \/ h = "finalize" /\ snap[h].state = "FINALIZED" /\ Ends(h, "ok") /\ UNCHANGED targetVars
       \/ /\ h = "finalize" /\ snap[h].state # "FINALIZED" /\ ~CanFinalize(snap[h])
          /\ Ends(h, "err") /\ UNCHANGED targetVars
       \/ /\ h = "finalize" /\ CanFinalize(snap[h])
          /\ Writes(h, "FINALIZING") /\ pc' = [pc EXCEPT ![h] = "agent"] /\ UNCHANGED snap
       \/ h \in RollbackKeys /\ snap[h].state = "ROLLED_BACK" /\ Ends(h, "ok") /\ UNCHANGED targetVars
       \/ /\ h \in RollbackKeys /\ snap[h].state # "ROLLED_BACK"
          /\ Writes(h, "ROLLING_BACK") /\ pc' = [pc EXCEPT ![h] = "agent"] /\ UNCHANGED snap
    /\ UNCHANGED <<masterVars, late, callVars, used, stageVars, seen, agentVars, faults>>

\* The state which the command of key k brings about.
Wanted(k) == IF k = "stage" THEN "STAGED" ELSE IF k = "finalize" THEN "FINALIZED" ELSE "ROLLED_BACK"

\* The acknowledgement of the agent, or none in time: the command goes on then,
\* and also after the agent has given its handler up and acknowledged a failure.
Settles(h) ==
    /\ pc[h] = "agent"
    /\ \/ cmd[h] = "ok" /\ NoFault /\ Writes(h, Wanted(h)) /\ Ends(h, "ok")
       \/ ((cmd[h] = "fail" /\ NoFault) \/ Fault) /\ Writes(h, "NEEDS_ATTENTION") /\ Ends(h, "err")
       \/ Fault /\ Ends(h, "err") /\ UNCHANGED targetVars
    /\ UNCHANGED <<masterVars, late, callVars, used, stageVars, seen, agentVars>>

HandlerStep(h) ==
    \/ h \in RollbackKeys /\ (RollbackReads(h) \/ RollbackChecks(h))
    \/ h \notin RollbackKeys /\ Reads(h)
    \/ Asks(h) \/ Adopts(h) \/ Decides(h)
    \/ h \in PostKeys /\ Settles(h)

-----------------------------------------------------------------------------
(***************************************************************************)
(* The agent.  Its commands are not serialised.                            *)
(***************************************************************************)

AgentReads(k) ==
    /\ cmd[k] = "none"
    /\ IF k = "stage" THEN stage = "agent" ELSE pc[k] = "agent"
    /\ cmd' = [cmd EXCEPT ![k] = agent]
    /\ UNCHANGED <<masterVars, late, callVars, used, stageVars, targetVars, handlerVars, agent, faults>>

\* States read in which command k has nothing to do, and in which it acts.
DoneIn(k) ==
    IF k = "stage" THEN {"STAGED", "FINALIZED"}
    ELSE IF k = "finalize" THEN {"FINALIZED"} ELSE {"NONE", "ROLLED_BACK"}

ActsIn(k) ==
    IF k = "stage" THEN {"NONE"} ELSE IF k = "finalize" THEN {"STAGED"} ELSE {"STAGED", "FINALIZED"}

AgentApplies(k) ==
    /\ cmd[k] \in AgentStates
    /\ \/ cmd[k] \in ActsIn(k) /\ NoFault /\ agent' = Wanted(k) /\ cmd' = [cmd EXCEPT ![k] = "ok"]
       \/ cmd[k] \in ActsIn(k) /\ Fault /\ cmd' = [cmd EXCEPT ![k] = "fail"] /\ UNCHANGED agent
       \/ cmd[k] \in DoneIn(k) /\ NoFault /\ cmd' = [cmd EXCEPT ![k] = "ok"] /\ UNCHANGED agent
       \/ /\ cmd[k] \notin ActsIn(k) \cup DoneIn(k) /\ NoFault
          /\ cmd' = [cmd EXCEPT ![k] = "fail"] /\ UNCHANGED agent
    /\ UNCHANGED <<masterVars, late, callVars, used, stageVars, targetVars, handlerVars>>

AgentStep(k) == AgentReads(k) \/ AgentApplies(k)

-----------------------------------------------------------------------------
(***************************************************************************)
(* The stage operation of the target, run by its operations worker.        *)
(***************************************************************************)

StageStarts ==
    /\ op = "QUEUED" /\ late = "no"
    /\ \/ /\ op' = "RUNNING" /\ stage' = "agent" /\ NoFault
          /\ journal' = Journal("STAGING", "none")
       \/ op' = "NEEDS_ATTENTION" /\ Fault /\ UNCHANGED <<stage, journal>>
    /\ UNCHANGED <<masterVars, late, callVars, used, settings, handlerVars, agentVars>>

StageExpires ==
    /\ op = "QUEUED" /\ late = "yes"
    /\ op' = "FAILED"
    /\ UNCHANGED <<masterVars, late, callVars, used, stage, targetVars, handlerVars, agentVars, faults>>

StageReturns ==
    /\ stage = "agent" /\ cmd["stage"] = "ok"
    /\ stage' = "end" /\ journal' = Journal("STAGED", "new")
    /\ UNCHANGED <<masterVars, late, callVars, used, op, settings, handlerVars, agentVars, faults>>

\* The job fails, its start or status is not acknowledged, its deadline passes
\* (outcome unknown), or the heartbeat after it comes too late.
StageFails ==
    /\ \/ stage = "agent" /\ cmd["stage"] = "fail" /\ stage' = "failed" /\ NoFault
       \/ stage = "agent" /\ Fault /\ stage' = "failed"
       \/ stage = "agent" /\ late = "yes" /\ stage' = "unknown" /\ NoFault
       \/ stage = "end" /\ late = "yes" /\ stage' = "failed" /\ NoFault
    /\ journal' = Journal("NEEDS_ATTENTION", "none")
    /\ UNCHANGED <<masterVars, late, callVars, used, op, settings, handlerVars, agentVars>>

StageEnds ==
    /\ stage \in {"end", "failed", "unknown"} /\ stage' = "none"
    /\ op' = IF stage = "end" THEN "SUCCEEDED"
             ELSE IF stage = "failed" /\ op = "CANCEL_REQUESTED" THEN "CANCELLED"
             ELSE "NEEDS_ATTENTION"
    /\ UNCHANGED <<masterVars, late, callVars, used, targetVars, handlerVars, agentVars, faults>>

StageStep == StageStarts \/ StageExpires \/ StageReturns \/ StageFails \/ StageEnds

-----------------------------------------------------------------------------
(***************************************************************************)
(* Crashes.  The agent reloads the API of the target after a command that  *)
(* has changed the listeners: this, too, ends what its handlers are doing. *)
(***************************************************************************)

TargetCrash ==
    /\ Fault
    /\ pc' = [h \in Handlers |-> IF pc[h] \in Working THEN "err" ELSE pc[h]]
    /\ snap' = [h \in Handlers |-> IF pc[h] \in Working THEN NoJournal ELSE snap[h]]
    /\ seen' = [h \in Handlers |-> "NONE"]
    /\ op' = IF op \in {"RUNNING", "CANCEL_REQUESTED"} THEN "NEEDS_ATTENTION" ELSE op
    /\ stage' = "none"
    /\ UNCHANGED <<masterVars, late, callVars, used, targetVars, agentVars>>

\* The network between the panels fails, for as long as it may.
Outage ==
    /\ Fault
    /\ path = "up" /\ path' = "down"
    /\ UNCHANGED <<reg, active, candidate, link, frozen, late, callVars, remoteVars>>

Restore ==
    /\ path = "down" /\ path' = "up"
    /\ UNCHANGED <<reg, active, candidate, link, frozen, late, callVars, remoteVars, faults>>

MasterCrash ==
    /\ Fault
    /\ step' = [c \in Calls |-> "idle"]
    /\ UNCHANGED <<masterVars, late, begun, remoteVars>>

Next ==
    \/ \E c \in Operators : Prepare(c) \/ Start(c) \/ Get(c) \/ Resume(c) \/ Confirm(c) \/ Rollback(c)
    \/ \E c \in Calls : Expire(c) \/ CallStep(c)
    \/ \E h \in Handlers : HandlerStep(h)
    \/ \E k \in PostKeys \cup {"stage"} : AgentStep(k)
    \/ StageStep \/ Deadline \/ RepairProjection
    \/ Outage \/ Restore \/ TargetCrash \/ MasterCrash

Spec == Init /\ [][Next]_vars

\* Calls that have begun, handlers, commands, the worker and the timer go on.
\* The timer takes 8 expired cutovers at a time, in no order, those that need
\* attention among them: that it gets to this one assumes that there are no more.
Fairness ==
    /\ WF_vars(\E c \in Calls : CallStep(c))
    /\ WF_vars(\E h \in Handlers : HandlerStep(h))
    /\ WF_vars(\E k \in PostKeys \cup {"stage"} : AgentStep(k))
    /\ WF_vars(StageStep)
    /\ WF_vars(\E c \in Timers : Expire(c))

FairSpec == Spec /\ Fairness

-----------------------------------------------------------------------------
(***************************************************************************)
(* Properties.                                                             *)
(***************************************************************************)

\* The registry has gone over to the candidate, or has come back from it.
Committed == active = "new" \/ reg = "ROLLED_BACK"

\* Whatever calls, timer, crashes and late commands do, the target gives up its
\* old listener and its old settings only after the registry of the master has
\* activated the candidate: "Before registry activation: ... old endpoint
\* remains active" (docs/runbook/panel-access-cutover-recovery.md).
OldServesUntilActivation == (agent = "FINALIZED" \/ settings = "new") => Committed

\* The registry is never ahead of the target: it holds a candidate only after
\* the agent has staged one, and it says FINALIZED only after the agent has
\* switched the listeners.
NeverAheadOfTarget ==
    /\ candidate = "new" \/ active = "new" => agent # "NONE"
    /\ reg = "FINALIZED" => agent \in Terminal

\* A decision of the registry stands: calls that started before it, and read
\* the registry before it, do not reopen a cutover that has ended, and do not
\* activate one that needs attention.  (They may activate one whose deadline
\* has passed since they read the clock.)
DecisionStands ==
    [][/\ reg \in Terminal => UNCHANGED <<reg, active>>
       /\ reg = "NEEDS_ATTENTION" => (active' = "new" => active = "new")]_vars

\* After the deadline a cutover does not stay open: the timer ends it or says
\* that it needs attention (reconcileExpired), provided that the target can be
\* reached again in the end and that the registry does not stay frozen.  While
\* it cannot be reached, ensureTargetRollbackSafe persists nothing.
DeadlineSettles ==
    <>[](path = "up" /\ frozen = "no")
        => (late = "yes" ~> reg \in Terminal \cup {"NEEDS_ATTENTION"})

\* "Finalized cutovers require a new reviewed recovery cutover; they cannot be
\* silently reversed" (docs/runbook/panel-access-cutover-recovery.md): once the
\* registry says FINALIZED the agent does not go back to the old listener.
FinalizedNotReversed ==
    [][reg = "FINALIZED" /\ agent = "FINALIZED" => agent' = "FINALIZED"]_vars

=============================================================================
