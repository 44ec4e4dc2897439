--------------------- MODULE PanelAccessCutoverProofs ---------------------
(***************************************************************************)
(* Theorems about PanelAccessCutover, for any number of calls that overlap *)
(* and any number of faults.                                               *)
(***************************************************************************)
EXTENDS PanelAccessCutover, TLAPS

-----------------------------------------------------------------------------
(* Types *)

LEMMA InitTypeOK == Init => TypeOK
  BY CutoverAssumption DEF Init, TypeOK, RegStates, Terminal, Steps, OpStates, NoJournal, Journal,
     Journals,
     JournalStates, HandlerSteps, AgentStates, CmdSteps

LEMMA NextTypeOK == TypeOK /\ [Next]_vars => TypeOK'
  <1>. SUFFICES ASSUME TypeOK, [Next]_vars
                PROVE  TypeOK'
    OBVIOUS
  <1>. USE CutoverAssumption DEF TypeOK, Calls, Handlers, masterVars, callVars, remoteVars, stageVars,
     targetVars, handlerVars, agentVars, Fault, NoFault, Goes
  <1>1. ASSUME NEW c \in Operators, Prepare(c)
        PROVE  TypeOK'
    BY <1>1 DEF Prepare, Refuses, Enters, Steps, PostKeys, RollbackKeys, Waiting, Asking, RegStates
  <1>2. ASSUME NEW c \in Operators, Start(c)
        PROVE  TypeOK'
    BY <1>2 DEF Start, Enters, Steps, PostKeys, RollbackKeys, Waiting, Asking
  <1>3. ASSUME NEW c \in Operators, Get(c)
        PROVE  TypeOK'
    BY <1>3 DEF Get, Enters, Steps, PostKeys, RollbackKeys, Waiting, Asking
  <1>4. ASSUME NEW c \in Operators, Resume(c)
        PROVE  TypeOK'
    <2>1. CASE Enters(c, "checking") /\ Reachable /\ AsksStatus(c) /\ NoFault
      BY <1>4, <2>1 DEF Resume, Enters, AsksStatus, Lost, Deciding, Steps, PostKeys, RollbackKeys,
         Waiting, Asking, HandlerSteps, Working, Handlers
    <2>2. CASE Enters(c, "attention") /\ Lost /\ UNCHANGED pc
      BY <1>4, <2>2 DEF Resume, Enters, AsksStatus, Lost, Deciding, Steps, PostKeys, RollbackKeys,
         Waiting, Asking, HandlerSteps, Working, Handlers
    <2>. QED
      BY <1>4, <2>1, <2>2 DEF Resume
  <1>5. ASSUME NEW c \in Operators, Confirm(c)
        PROVE  TypeOK'
    BY <1>5 DEF Confirm, Enters, AsksStatus, Steps, PostKeys, RollbackKeys, Waiting, Asking,
       HandlerSteps, Working
  <1>6. ASSUME NEW c \in Operators, Rollback(c)
        PROVE  TypeOK'
    BY <1>6 DEF Rollback, Enters, Steps, PostKeys, RollbackKeys, Waiting, Asking
  <1>7. ASSUME NEW c \in Calls, Expire(c)
        PROVE  TypeOK'
    <2>1. CASE Goes(c, "attention") /\ UNCHANGED pc /\ ((link = "none" /\ NoFault) \/ Fault)
      BY <1>7, <2>1 DEF Expire, AsksStatus, Lost, Deciding, Steps, PostKeys, RollbackKeys, Waiting,
         Asking, HandlerSteps, Working
    <2>2. CASE Deciding /\ Goes(c, "checking") /\ AsksStatus(c) /\ NoFault
      BY <1>7, <2>2 DEF Expire, AsksStatus, Lost, Deciding, Steps, PostKeys, RollbackKeys, Waiting,
         Asking, HandlerSteps, Working
    <2>3. CASE Deciding /\ Goes(c, "attention") /\ UNCHANGED pc /\ NoFault
      BY <1>7, <2>3 DEF Expire, AsksStatus, Lost, Deciding, Steps, PostKeys, RollbackKeys, Waiting,
         Asking, HandlerSteps, Working
    <2>4. CASE Goes(c, "safe") /\ UNCHANGED pc /\ NoFault
      BY <1>7, <2>4 DEF Expire, AsksStatus, Lost, Deciding, Steps, PostKeys, RollbackKeys, Waiting,
         Asking, HandlerSteps, Working
    <2>. QED
      BY <1>7, <2>1, <2>2, <2>3, <2>4 DEF Expire
  <1>8. ASSUME NEW c \in Calls, PostStage(c)
        PROVE  TypeOK'
    <2>1. CASE Goes(c, "idle") /\ (NoFault \/ Lost) /\ UNCHANGED <<used, op>>
      BY <1>8, <2>1 DEF PostStage, Lost, Steps, PostKeys, RollbackKeys, Waiting, Asking, Keys,
         OpStates, OpRunning
    <2>2. CASE used' = used \cup {"stage"} /\ Goes(c, "idle") /\ NoFault /\ UNCHANGED op
      BY <1>8, <2>2 DEF PostStage, Lost, Steps, PostKeys, RollbackKeys, Waiting, Asking, Keys,
         OpStates, OpRunning
    <2>3. CASE used' = used \cup {"stage"} /\ op' = "QUEUED" /\ NoFault
               /\ Goes(c, IF step[c] = "stage" THEN "link" ELSE "linkAgain")
      BY <1>8, <2>3 DEF PostStage, Lost, Steps, PostKeys, RollbackKeys, Waiting, Asking, Keys,
         OpStates, OpRunning
    <2>4. CASE used' = used \cup {"stage"} /\ op' = "QUEUED" /\ Fault /\ Goes(c, "idle")
      BY <1>8, <2>4 DEF PostStage, Lost, Steps, PostKeys, RollbackKeys, Waiting, Asking, Keys,
         OpStates, OpRunning
    <2>. QED
      BY <1>8, <2>1, <2>2, <2>3, <2>4 DEF PostStage
  <1>9. ASSUME NEW c \in Calls, RecordLink(c)
        PROVE  TypeOK'
    BY <1>9 DEF RecordLink, Steps, PostKeys, RollbackKeys, Waiting, Asking
  <1>10. ASSUME NEW c \in Calls, GetOp(c)
        PROVE  TypeOK'
    BY <1>10 DEF GetOp, Lost, Continues, Steps, PostKeys, RollbackKeys, Waiting, Asking
  <1>11. ASSUME NEW c \in Calls, Verify(c)
        PROVE  TypeOK'
    BY <1>11 DEF Verify, Continues, Steps, PostKeys, RollbackKeys, Waiting, Asking
  <1>12. ASSUME NEW c \in Calls, RegStage(c)
        PROVE  TypeOK'
    BY <1>12 DEF RegStage, Refuses, Commits, StageGuard, Steps, PostKeys, RollbackKeys, Waiting,
       Asking, RegStates
  <1>13. ASSUME NEW c \in Calls, Safe(c)
        PROVE  TypeOK'
    BY <1>13 DEF Safe, Lost, Continues, Steps, PostKeys, RollbackKeys, Waiting, Asking
  <1>14. ASSUME NEW c \in Calls, Cancel(c)
        PROVE  TypeOK'
    <2>1. CASE Goes(c, "idle") /\ (NoFault \/ Lost) /\ UNCHANGED <<used, op>>
      BY <1>14, <2>1 DEF Cancel, Lost, Cancelled, Steps, PostKeys, RollbackKeys, Waiting, Asking, Keys,
         OpStates, OpRunning, RollbackSafe
    <2>2. CASE used' = used \cup {"cancel"} /\ op' = Cancelled(op) /\ NoFault /\ Goes(c, "attention")
      BY <1>14, <2>2 DEF Cancel, Lost, Cancelled, Steps, PostKeys, RollbackKeys, Waiting, Asking, Keys,
         OpStates, OpRunning, RollbackSafe
    <2>3. CASE used' = used \cup {"cancel"} /\ op' = Cancelled(op) /\ (NoFault \/ Fault) /\ Goes(c,
       "idle")
      BY <1>14, <2>3 DEF Cancel, Lost, Cancelled, Steps, PostKeys, RollbackKeys, Waiting, Asking, Keys,
         OpStates, OpRunning, RollbackSafe
    <2>. QED
      BY <1>14, <2>1, <2>2, <2>3 DEF Cancel
  <1>15. ASSUME NEW c \in Calls, NEW k \in PostKeys, Post(c, k)
        PROVE  TypeOK'
    <2>1. CASE Goes(c, "attention") /\ (NoFault \/ Lost) /\ UNCHANGED <<used, pc>>
      BY <1>15, <2>1 DEF Post, Lost, Awaiting, Steps, PostKeys, RollbackKeys, Waiting, Asking, Keys,
         HandlerSteps, Working
    <2>2. CASE used' = used \cup {k} /\ NoFault /\ Goes(c, Awaiting(k))
               /\ pc' = [pc EXCEPT ![k] = IF k = "finalize" THEN "read" ELSE "check"]
      BY <1>15, <2>2 DEF Post, Lost, Awaiting, Steps, PostKeys, RollbackKeys, Waiting, Asking, Keys,
         HandlerSteps, Working
    <2>. QED
      BY <1>15, <2>1, <2>2 DEF Post
  <1>16. ASSUME NEW c \in Calls, NEW k \in PostKeys, Answered(c, k)
        PROVE  TypeOK'
    BY <1>16 DEF Answered, Continues, Awaiting, Steps, PostKeys, RollbackKeys, Waiting, Asking
  <1>17. ASSUME NEW c \in Calls, Confirmed(c)
        PROVE  TypeOK'
    <2>1. CASE pc[c] = "ok" /\ HasStatus(c, IF snap[c].candidate = "new" THEN "probe" ELSE "idle")
      BY <1>17, <2>1 DEF Confirmed, HasStatus, Steps, PostKeys, RollbackKeys, Waiting, Asking,
         HandlerSteps, Working, Journal, Journals, JournalStates, NoJournal, Terminal
    <2>2. CASE pc[c] = "err" /\ HasStatus(c, "idle")
      BY <1>17, <2>2 DEF Confirmed, HasStatus, Steps, PostKeys, RollbackKeys, Waiting, Asking,
         HandlerSteps, Working, Journal, Journals, JournalStates, NoJournal, Terminal
    <2>3. CASE Fault /\ Goes(c, "idle") /\ UNCHANGED <<pc, snap>>
      BY <1>17, <2>3 DEF Confirmed, HasStatus, Steps, PostKeys, RollbackKeys, Waiting, Asking,
         HandlerSteps, Working, Journal, Journals, JournalStates, NoJournal, Terminal
    <2>. QED
      BY <1>17, <2>1, <2>2, <2>3 DEF Confirmed
  <1>18. ASSUME NEW c \in Calls, Checked(c)
        PROVE  TypeOK'
    <2>1. CASE pc[c] = "ok" /\ HasStatus(c, Reconciliation(snap[c].state))
      BY <1>18, <2>1 DEF Checked, HasStatus, Reconciliation, Steps, PostKeys, RollbackKeys, Waiting,
         Asking, HandlerSteps, Working, Journal, Journals, JournalStates, NoJournal, Terminal
    <2>2. CASE pc[c] = "err" /\ HasStatus(c, "attention")
      BY <1>18, <2>2 DEF Checked, HasStatus, Reconciliation, Steps, PostKeys, RollbackKeys, Waiting,
         Asking, HandlerSteps, Working, Journal, Journals, JournalStates, NoJournal, Terminal
    <2>3. CASE Fault /\ Goes(c, "attention") /\ UNCHANGED <<pc, snap>>
      BY <1>18, <2>3 DEF Checked, HasStatus, Reconciliation, Steps, PostKeys, RollbackKeys, Waiting,
         Asking, HandlerSteps, Working, Journal, Journals, JournalStates, NoJournal, Terminal
    <2>. QED
      BY <1>18, <2>1, <2>2, <2>3 DEF Checked
  <1>19. ASSUME NEW c \in Calls, Probe(c)
        PROVE  TypeOK'
    BY <1>19 DEF Probe, Continues, Steps, PostKeys, RollbackKeys, Waiting, Asking
  <1>20. ASSUME NEW c \in Calls, Activate(c)
        PROVE  TypeOK'
    BY <1>20 DEF Activate, Refuses, Commits, ActivateGuard, Steps, PostKeys, RollbackKeys, Waiting,
       Asking, RegStates
  <1>21. ASSUME NEW c \in Calls, RegFinalize(c)
        PROVE  TypeOK'
    BY <1>21 DEF RegFinalize, Refuses, Commits, Deciding, Steps, PostKeys, RollbackKeys, Waiting,
       Asking, RegStates,
       Terminal
  <1>22. ASSUME NEW c \in Calls, RegRollback(c)
        PROVE  TypeOK'
    BY <1>22 DEF RegRollback, Refuses, Commits, Steps, PostKeys, RollbackKeys, Waiting, Asking,
       RegStates, Terminal
  <1>23. ASSUME NEW c \in Calls, Attention(c)
        PROVE  TypeOK'
    BY <1>23 DEF Attention, Refuses, Commits, Steps, PostKeys, RollbackKeys, Waiting, Asking, RegStates
  <1>24. ASSUME NEW h \in RollbackKeys, RollbackReads(h)
        PROVE  TypeOK'
    BY <1>24 DEF RollbackReads, HandlerSteps, Working
  <1>25. ASSUME NEW h \in RollbackKeys, RollbackChecks(h)
        PROVE  TypeOK'
    BY <1>25 DEF RollbackChecks, Ends, Reconciles, HandlerSteps, Working, NoJournal, Journal, Journals,
       JournalStates, Terminal
  <1>26. ASSUME NEW h \in Handlers, Reads(h)
        PROVE  TypeOK'
    BY <1>26 DEF Reads, Reconciles, HandlerSteps, Working
  <1>27. ASSUME NEW h \in Handlers, Asks(h)
        PROVE  TypeOK'
    BY <1>27 DEF Asks, HandlerSteps, Working
  <1>28. ASSUME NEW h \in Handlers, Adopts(h)
        PROVE  TypeOK'
    BY <1>28 DEF Adopts, Writes, HandlerSteps, Working, AgentStates, Journal, Journals, JournalStates,
       NoJournal, Terminal
  <1>29. ASSUME NEW h \in Handlers, Decides(h)
        PROVE  TypeOK'
    BY <1>29 DEF Decides, Ends, Writes, CanFinalize, HandlerSteps, Working, Journal, Journals,
       JournalStates, NoJournal, Terminal
  <1>30. ASSUME NEW h \in PostKeys, Settles(h)
        PROVE  TypeOK'
    <2>1. CASE cmd[h] = "ok" /\ NoFault /\ Writes(h, Wanted(h)) /\ Ends(h, "ok")
      BY <1>30, <2>1 DEF Settles, Ends, Writes, Wanted, HandlerSteps, Working, PostKeys, RollbackKeys,
         Journal, Journals, JournalStates, NoJournal, Terminal
    <2>2. CASE ((cmd[h] = "fail" /\ NoFault) \/ Fault) /\ Writes(h, "NEEDS_ATTENTION") /\ Ends(h, "err")
      BY <1>30, <2>2 DEF Settles, Ends, Writes, Wanted, HandlerSteps, Working, PostKeys, RollbackKeys,
         Journal, Journals, JournalStates, NoJournal, Terminal
    <2>3. CASE Fault /\ Ends(h, "err") /\ UNCHANGED targetVars
      BY <1>30, <2>3 DEF Settles, Ends, Writes, Wanted, HandlerSteps, Working, PostKeys, RollbackKeys,
         Journal, Journals, JournalStates, NoJournal, Terminal
    <2>. QED
      BY <1>30, <2>1, <2>2, <2>3 DEF Settles
  <1>31. ASSUME NEW k \in PostKeys \cup {"stage"}, AgentReads(k)
        PROVE  TypeOK'
    BY <1>31 DEF AgentReads, CmdSteps
  <1>32. ASSUME NEW k \in PostKeys \cup {"stage"}, AgentApplies(k)
        PROVE  TypeOK'
    BY <1>32 DEF AgentApplies, Wanted, ActsIn, DoneIn, CmdSteps, AgentStates, Terminal
  <1>33. ASSUME StageStarts
        PROVE  TypeOK'
    BY <1>33 DEF StageStarts, OpStates, OpRunning, Journal, Journals, JournalStates, NoJournal, Terminal
  <1>34. ASSUME StageExpires
        PROVE  TypeOK'
    BY <1>34 DEF StageExpires, OpStates, RollbackSafe
  <1>35. ASSUME StageReturns
        PROVE  TypeOK'
    BY <1>35 DEF StageReturns, Journal, Journals, JournalStates, NoJournal, Terminal
  <1>36. ASSUME StageFails
        PROVE  TypeOK'
    BY <1>36 DEF StageFails, Journal, Journals, JournalStates, NoJournal, Terminal
  <1>37. ASSUME StageEnds
        PROVE  TypeOK'
    BY <1>37 DEF StageEnds, OpStates, RollbackSafe
  <1>38. ASSUME Deadline \/ RepairProjection \/ Outage \/ Restore
        PROVE  TypeOK'
    BY <1>38 DEF Deadline, RepairProjection, Outage, Restore
  <1>39. ASSUME TargetCrash
        PROVE  TypeOK'
    BY <1>39 DEF TargetCrash, OpStates, HandlerSteps, AgentStates, Journal, Journals, JournalStates,
       NoJournal, Terminal
  <1>40. ASSUME MasterCrash
        PROVE  TypeOK'
    BY <1>40 DEF MasterCrash, Steps, PostKeys, RollbackKeys, Waiting, Asking
  <1>41. CASE UNCHANGED vars
    BY <1>41 DEF vars, masterVars, callVars, remoteVars, stageVars, targetVars, handlerVars, agentVars
  <1>. QED
    BY <1>1, <1>2, <1>3, <1>4, <1>5, <1>6, <1>7, <1>8, <1>9, <1>10, <1>11, <1>12, <1>13, <1>14, <1>15,
       <1>16, <1>17, <1>18, <1>19, <1>20, <1>21, <1>22, <1>23, <1>24, <1>25, <1>26, <1>27, <1>28,
       <1>29, <1>30, <1>31, <1>32, <1>33, <1>34, <1>35, <1>36, <1>37, <1>38, <1>39, <1>40,
       <1>41 DEF Next, CallStep, HandlerStep, AgentStep, StageStep

\* Every reachable state is well typed: calls, handlers, commands and the
\* journals of both sides keep to the states their code knows.
THEOREM CutoverTypes == Spec => []TypeOK
  BY InitTypeOK, NextTypeOK, PTL DEF Spec

-----------------------------------------------------------------------------
(* What a step may do to the registry *)

RegistryStep ==
    \/ UNCHANGED <<reg, active, candidate>>
    \/ reg = "NONE" /\ reg' = "PREPARED" /\ UNCHANGED <<active, candidate>>
    \/ /\ reg = "PREPARED" /\ active = "old" /\ candidate = "none"
       /\ reg' = "STAGED" /\ candidate' = "new" /\ UNCHANGED active
    \/ /\ reg = "STAGED" /\ active = "old" /\ candidate = "new"
       /\ reg' = "ACTIVATED" /\ active' = "new" /\ candidate' = "none"
    \/ Deciding /\ reg' = "FINALIZED" /\ UNCHANGED <<active, candidate>>
    \/ reg \notin Terminal /\ reg' = "ROLLED_BACK" /\ active' = "old" /\ candidate' = "none"
    \/ reg \notin Terminal /\ reg' = "NEEDS_ATTENTION" /\ UNCHANGED <<active, candidate>>

LEMMA StepsOnRegistry == [Next]_vars => RegistryStep
  <1>. SUFFICES ASSUME [Next]_vars
                PROVE  RegistryStep
    OBVIOUS
  <1>. USE DEF RegistryStep, masterVars
  <1>1. ASSUME NEW c \in Operators, Prepare(c)
        PROVE  RegistryStep
    BY <1>1 DEF Prepare, Refuses
  <1>2. ASSUME NEW c \in Calls, RegStage(c)
        PROVE  RegistryStep
    BY <1>2 DEF RegStage, StageGuard, Refuses, Commits
  <1>3. ASSUME NEW c \in Calls, Activate(c)
        PROVE  RegistryStep
    BY <1>3 DEF Activate, ActivateGuard, Refuses, Commits
  <1>4. ASSUME NEW c \in Calls, RegFinalize(c)
        PROVE  RegistryStep
    BY <1>4 DEF RegFinalize, Refuses, Commits
  <1>5. ASSUME NEW c \in Calls, RegRollback(c)
        PROVE  RegistryStep
    BY <1>5 DEF RegRollback, Refuses, Commits
  <1>6. ASSUME NEW c \in Calls, Attention(c)
        PROVE  RegistryStep
    BY <1>6 DEF Attention, Refuses, Commits
  <1>7. ASSUME NEW c \in Operators,
               Start(c) \/ Get(c) \/ Resume(c) \/ Confirm(c) \/ Rollback(c)
        PROVE  RegistryStep
    BY <1>7 DEF Start, Get, Resume, Confirm, Rollback, Enters
  <1>8. ASSUME NEW c \in Calls,
               Expire(c) \/ PostStage(c) \/ RecordLink(c) \/ GetOp(c) \/ Verify(c)
                \/ Safe(c) \/ Cancel(c)
        PROVE  RegistryStep
    BY <1>8 DEF Expire, PostStage, RecordLink, GetOp, Verify, Safe, Cancel, Continues
  <1>9. ASSUME NEW c \in Calls, NEW k \in PostKeys,
               Post(c, k) \/ Answered(c, k)
        PROVE  RegistryStep
    BY <1>9 DEF Post, Answered, Continues
  <1>10. ASSUME NEW c \in Calls,
               Confirmed(c) \/ Checked(c) \/ Probe(c)
        PROVE  RegistryStep
    BY <1>10 DEF Confirmed, Checked, Probe, Continues
  <1>11. ASSUME NEW h \in RollbackKeys,
               RollbackReads(h) \/ RollbackChecks(h)
        PROVE  RegistryStep
    BY <1>11 DEF RollbackReads, RollbackChecks
  <1>12. ASSUME NEW h \in Handlers,
               Reads(h) \/ Asks(h) \/ Adopts(h) \/ Decides(h)
        PROVE  RegistryStep
    BY <1>12 DEF Reads, Asks, Adopts, Decides
  <1>13. ASSUME NEW h \in PostKeys,
               Settles(h)
        PROVE  RegistryStep
    BY <1>13 DEF Settles
  <1>14. ASSUME NEW k \in PostKeys \cup {"stage"},
               AgentReads(k) \/ AgentApplies(k)
        PROVE  RegistryStep
    BY <1>14 DEF AgentReads, AgentApplies
  <1>15. ASSUME StageStarts \/ StageExpires \/ StageReturns \/ StageFails \/ StageEnds
                \/ Deadline \/ RepairProjection \/ Outage \/ Restore \/ TargetCrash \/ MasterCrash
        PROVE  RegistryStep
    BY <1>15 DEF StageStarts, StageExpires, StageReturns, StageFails, StageEnds, Deadline,
       RepairProjection,
       Outage, Restore, TargetCrash, MasterCrash
  <1>16. CASE UNCHANGED vars
    BY <1>16 DEF vars
  <1>. QED
    BY <1>1, <1>2, <1>3, <1>4, <1>5, <1>6, <1>7, <1>8, <1>9, <1>10, <1>11, <1>12, <1>13, <1>14, <1>15,
       <1>16 DEF Next, CallStep, HandlerStep, AgentStep, StageStep

RegInv == reg \in {"ACTIVATED", "FINALIZED"} => active = "new"

LEMMA NextRegInv == RegInv /\ [Next]_vars => RegInv'
  BY StepsOnRegistry DEF RegInv, RegistryStep, Deciding, Terminal

LEMMA CommittedStays == Committed /\ [Next]_vars => Committed'
  BY StepsOnRegistry DEF Committed, RegistryStep, Deciding, Terminal

\* No interleaving of calls, of the timer and of crashes reopens a cutover that
\* has ended, or activates one that needs attention, also when the registry is
\* frozen and repaired in between and when a mutation fails after its commit.
THEOREM DecisionsStand == Spec => DecisionStands
  <1>1. [Next]_vars => [/\ reg \in Terminal => UNCHANGED <<reg, active>>
                        /\ reg = "NEEDS_ATTENTION" => (active' = "new" => active = "new")]_vars
    BY StepsOnRegistry DEF RegistryStep, Deciding, Terminal
  <1>. QED
    BY <1>1, PTL DEF Spec, DecisionStands

-----------------------------------------------------------------------------
(* Nothing is finalized on the target before the registry is switched *)

\* The calls that may send the finalize request have seen the registry switched.
CommitInv ==
    /\ \A c \in Calls : step[c] \in {"finalize", "finalizing", "checking"} => Committed
    /\ "finalize" \in used => Committed

\* Every trace of the finalize command goes back to its request.
TraceInv ==
    /\ pc["finalize"] # "none" => "finalize" \in used
    /\ cmd["finalize"] # "none" => "finalize" \in used
    /\ agent = "FINALIZED" => "finalize" \in used
    /\ settings = "new" => "finalize" \in used
    /\ \A h \in Handlers : seen[h] = "FINALIZED" => "finalize" \in used

LEMMA NextCommitInv == TypeOK /\ RegInv /\ CommitInv /\ [Next]_vars => CommitInv'
  <1>. SUFFICES ASSUME TypeOK, RegInv, CommitInv, [Next]_vars
                PROVE  CommitInv'
    OBVIOUS
  <1>. USE CommittedStays, CutoverAssumption DEF TypeOK, CommitInv, Calls, masterVars, callVars,
     remoteVars, stageVars, targetVars, handlerVars, agentVars, Goes
  <1>1. ASSUME NEW c \in Operators, Prepare(c)
        PROVE  CommitInv'
    BY <1>1 DEF Prepare, Refuses, Enters
  <1>2. ASSUME NEW c \in Operators, Start(c)
        PROVE  CommitInv'
    BY <1>2 DEF Start, Enters
  <1>3. ASSUME NEW c \in Operators, Get(c)
        PROVE  CommitInv'
    BY <1>3 DEF Get, Enters
  <1>4. ASSUME NEW c \in Operators, Resume(c)
        PROVE  CommitInv'
    BY <1>4 DEF Resume, Enters, AsksStatus, Lost, Deciding, Committed
  <1>5. ASSUME NEW c \in Operators, Confirm(c)
        PROVE  CommitInv'
    BY <1>5 DEF Confirm, Enters, AsksStatus
  <1>6. ASSUME NEW c \in Operators, Rollback(c)
        PROVE  CommitInv'
    BY <1>6 DEF Rollback, Enters
  <1>7. ASSUME NEW c \in Calls, Expire(c)
        PROVE  CommitInv'
    BY <1>7 DEF Expire, AsksStatus, Lost, Deciding, Committed
  <1>8. ASSUME NEW c \in Calls, PostStage(c)
        PROVE  CommitInv'
    <2>1. CASE Goes(c, "idle") /\ (NoFault \/ Lost) /\ UNCHANGED <<used, op>>
      BY <1>8, <2>1 DEF PostStage, Lost
    <2>2. CASE used' = used \cup {"stage"} /\ Goes(c, "idle") /\ NoFault /\ UNCHANGED op
      BY <1>8, <2>2 DEF PostStage, Lost
    <2>3. CASE used' = used \cup {"stage"} /\ op' = "QUEUED" /\ NoFault
               /\ Goes(c, IF step[c] = "stage" THEN "link" ELSE "linkAgain")
      BY <1>8, <2>3 DEF PostStage, Lost
    <2>4. CASE used' = used \cup {"stage"} /\ op' = "QUEUED" /\ Fault /\ Goes(c, "idle")
      BY <1>8, <2>4 DEF PostStage, Lost
    <2>. QED
      BY <1>8, <2>1, <2>2, <2>3, <2>4 DEF PostStage
  <1>9. ASSUME NEW c \in Calls, RecordLink(c)
        PROVE  CommitInv'
    BY <1>9 DEF RecordLink
  <1>10. ASSUME NEW c \in Calls, GetOp(c)
        PROVE  CommitInv'
    BY <1>10 DEF GetOp, Lost, Continues
  <1>11. ASSUME NEW c \in Calls, Verify(c)
        PROVE  CommitInv'
    BY <1>11 DEF Verify, Continues
  <1>12. ASSUME NEW c \in Calls, RegStage(c)
        PROVE  CommitInv'
    BY <1>12 DEF RegStage, Refuses, Commits, StageGuard
  <1>13. ASSUME NEW c \in Calls, Safe(c)
        PROVE  CommitInv'
    BY <1>13 DEF Safe, Lost, Continues
  <1>14. ASSUME NEW c \in Calls, Cancel(c)
        PROVE  CommitInv'
    <2>1. CASE Goes(c, "idle") /\ (NoFault \/ Lost) /\ UNCHANGED <<used, op>>
      BY <1>14, <2>1 DEF Cancel, Lost, Cancelled
    <2>2. CASE used' = used \cup {"cancel"} /\ op' = Cancelled(op) /\ NoFault /\ Goes(c, "attention")
      BY <1>14, <2>2 DEF Cancel, Lost, Cancelled
    <2>3. CASE used' = used \cup {"cancel"} /\ op' = Cancelled(op) /\ (NoFault \/ Fault) /\ Goes(c,
       "idle")
      BY <1>14, <2>3 DEF Cancel, Lost, Cancelled
    <2>. QED
      BY <1>14, <2>1, <2>2, <2>3 DEF Cancel
  <1>15. ASSUME NEW c \in Calls, NEW k \in PostKeys, Post(c, k)
        PROVE  CommitInv'
    <2>1. CASE Goes(c, "attention") /\ (NoFault \/ Lost) /\ UNCHANGED <<used, pc>>
      BY <1>15, <2>1 DEF Post, Lost, Awaiting, Committed, PostKeys, RollbackKeys
    <2>2. CASE used' = used \cup {k} /\ NoFault /\ Goes(c, Awaiting(k))
               /\ pc' = [pc EXCEPT ![k] = IF k = "finalize" THEN "read" ELSE "check"]
      BY <1>15, <2>2 DEF Post, Lost, Awaiting, Committed, PostKeys, RollbackKeys
    <2>. QED
      BY <1>15, <2>1, <2>2 DEF Post
  <1>16. ASSUME NEW c \in Calls, NEW k \in PostKeys, Answered(c, k)
        PROVE  CommitInv'
    BY <1>16 DEF Answered, Continues, Awaiting, PostKeys, RollbackKeys
  <1>17. ASSUME NEW c \in Calls, Confirmed(c)
        PROVE  CommitInv'
    <2>1. CASE pc[c] = "ok" /\ HasStatus(c, IF snap[c].candidate = "new" THEN "probe" ELSE "idle")
      BY <1>17, <2>1 DEF Confirmed, HasStatus
    <2>2. CASE pc[c] = "err" /\ HasStatus(c, "idle")
      BY <1>17, <2>2 DEF Confirmed, HasStatus
    <2>3. CASE Fault /\ Goes(c, "idle") /\ UNCHANGED <<pc, snap>>
      BY <1>17, <2>3 DEF Confirmed, HasStatus
    <2>. QED
      BY <1>17, <2>1, <2>2, <2>3 DEF Confirmed
  <1>18. ASSUME NEW c \in Calls, Checked(c)
        PROVE  CommitInv'
    <2>1. CASE pc[c] = "ok" /\ HasStatus(c, Reconciliation(snap[c].state))
      BY <1>18, <2>1 DEF Checked, HasStatus, Reconciliation
    <2>2. CASE pc[c] = "err" /\ HasStatus(c, "attention")
      BY <1>18, <2>2 DEF Checked, HasStatus, Reconciliation
    <2>3. CASE Fault /\ Goes(c, "attention") /\ UNCHANGED <<pc, snap>>
      BY <1>18, <2>3 DEF Checked, HasStatus, Reconciliation
    <2>. QED
      BY <1>18, <2>1, <2>2, <2>3 DEF Checked
  <1>19. ASSUME NEW c \in Calls, Probe(c)
        PROVE  CommitInv'
    BY <1>19 DEF Probe, Continues
  <1>20. ASSUME NEW c \in Calls, Activate(c)
        PROVE  CommitInv'
    BY <1>20 DEF Activate, Refuses, Commits, ActivateGuard, Committed, RegInv
  <1>21. ASSUME NEW c \in Calls, RegFinalize(c)
        PROVE  CommitInv'
    BY <1>21 DEF RegFinalize, Refuses, Commits, Deciding
  <1>22. ASSUME NEW c \in Calls, RegRollback(c)
        PROVE  CommitInv'
    BY <1>22 DEF RegRollback, Refuses, Commits
  <1>23. ASSUME NEW c \in Calls, Attention(c)
        PROVE  CommitInv'
    BY <1>23 DEF Attention, Refuses, Commits
  <1>24. ASSUME NEW h \in RollbackKeys, RollbackReads(h)
        PROVE  CommitInv'
    BY <1>24 DEF RollbackReads
  <1>25. ASSUME NEW h \in RollbackKeys, RollbackChecks(h)
        PROVE  CommitInv'
    BY <1>25 DEF RollbackChecks, Ends, Reconciles
  <1>26. ASSUME NEW h \in Handlers, Reads(h)
        PROVE  CommitInv'
    BY <1>26 DEF Reads, Reconciles
  <1>27. ASSUME NEW h \in Handlers, Asks(h)
        PROVE  CommitInv'
    BY <1>27 DEF Asks
  <1>28. ASSUME NEW h \in Handlers, Adopts(h)
        PROVE  CommitInv'
    BY <1>28 DEF Adopts, Writes
  <1>29. ASSUME NEW h \in Handlers, Decides(h)
        PROVE  CommitInv'
    BY <1>29 DEF Decides, Ends, Writes, CanFinalize
  <1>30. ASSUME NEW h \in PostKeys, Settles(h)
        PROVE  CommitInv'
    BY <1>30 DEF Settles, Ends, Writes, Wanted
  <1>31. ASSUME NEW k \in PostKeys \cup {"stage"}, AgentReads(k)
        PROVE  CommitInv'
    BY <1>31 DEF AgentReads
  <1>32. ASSUME NEW k \in PostKeys \cup {"stage"}, AgentApplies(k)
        PROVE  CommitInv'
    BY <1>32 DEF AgentApplies, Wanted, ActsIn, DoneIn
  <1>33. ASSUME StageStarts
        PROVE  CommitInv'
    BY <1>33 DEF StageStarts
  <1>34. ASSUME StageExpires
        PROVE  CommitInv'
    BY <1>34 DEF StageExpires
  <1>35. ASSUME StageReturns
        PROVE  CommitInv'
    BY <1>35 DEF StageReturns
  <1>36. ASSUME StageFails
        PROVE  CommitInv'
    BY <1>36 DEF StageFails
  <1>37. ASSUME StageEnds
        PROVE  CommitInv'
    BY <1>37 DEF StageEnds
  <1>38. ASSUME Deadline \/ RepairProjection \/ Outage \/ Restore
        PROVE  CommitInv'
    BY <1>38 DEF Deadline, RepairProjection, Outage, Restore
  <1>39. ASSUME TargetCrash
        PROVE  CommitInv'
    BY <1>39 DEF TargetCrash
  <1>40. ASSUME MasterCrash
        PROVE  CommitInv'
    BY <1>40 DEF MasterCrash
  <1>41. CASE UNCHANGED vars
    BY <1>41 DEF vars, masterVars, callVars, remoteVars, stageVars, targetVars, handlerVars, agentVars
  <1>. QED
    BY <1>1, <1>2, <1>3, <1>4, <1>5, <1>6, <1>7, <1>8, <1>9, <1>10, <1>11, <1>12, <1>13, <1>14, <1>15,
       <1>16, <1>17, <1>18, <1>19, <1>20, <1>21, <1>22, <1>23, <1>24, <1>25, <1>26, <1>27, <1>28,
       <1>29, <1>30, <1>31, <1>32, <1>33, <1>34, <1>35, <1>36, <1>37, <1>38, <1>39, <1>40,
       <1>41 DEF Next, CallStep, HandlerStep, AgentStep, StageStep

LEMMA NextTraceInv == TypeOK /\ TraceInv /\ [Next]_vars => TraceInv'
  <1>. SUFFICES ASSUME TypeOK, TraceInv, [Next]_vars
                PROVE  TraceInv'
    OBVIOUS
  <1>. USE CutoverAssumption, HandlerAssumption DEF TypeOK, TraceInv, masterVars, callVars, remoteVars,
     stageVars, targetVars, handlerVars, agentVars, Goes
  <1>1. ASSUME NEW c \in Operators, Prepare(c)
        PROVE  TraceInv'
    BY <1>1 DEF Prepare, Refuses, Enters
  <1>2. ASSUME NEW c \in Operators, Start(c)
        PROVE  TraceInv'
    BY <1>2 DEF Start, Enters
  <1>3. ASSUME NEW c \in Operators, Get(c)
        PROVE  TraceInv'
    BY <1>3 DEF Get, Enters
  <1>4. ASSUME NEW c \in Operators, Resume(c)
        PROVE  TraceInv'
    <2>1. CASE Enters(c, "checking") /\ Reachable /\ AsksStatus(c) /\ NoFault
      BY <1>4, <2>1 DEF Resume, Enters, AsksStatus, Lost, Deciding, Calls, Handlers, PostKeys,
         RollbackKeys, Keys
    <2>2. CASE Enters(c, "attention") /\ Lost /\ UNCHANGED pc
      BY <1>4, <2>2 DEF Resume, Enters, AsksStatus, Lost, Deciding, Calls, Handlers, PostKeys,
         RollbackKeys, Keys
    <2>. QED
      BY <1>4, <2>1, <2>2 DEF Resume
  <1>5. ASSUME NEW c \in Operators, Confirm(c)
        PROVE  TraceInv'
    BY <1>5 DEF Confirm, Enters, AsksStatus, Calls, Handlers, PostKeys, RollbackKeys, Keys
  <1>6. ASSUME NEW c \in Operators, Rollback(c)
        PROVE  TraceInv'
    BY <1>6 DEF Rollback, Enters
  <1>7. ASSUME NEW c \in Calls, Expire(c)
        PROVE  TraceInv'
    <2>1. CASE Goes(c, "attention") /\ UNCHANGED pc /\ ((link = "none" /\ NoFault) \/ Fault)
      BY <1>7, <2>1 DEF Expire, AsksStatus, Lost, Deciding, Calls, Handlers, PostKeys, RollbackKeys,
         Keys
    <2>2. CASE Deciding /\ Goes(c, "checking") /\ AsksStatus(c) /\ NoFault
      BY <1>7, <2>2 DEF Expire, AsksStatus, Lost, Deciding, Calls, Handlers, PostKeys, RollbackKeys,
         Keys
    <2>3. CASE Deciding /\ Goes(c, "attention") /\ UNCHANGED pc /\ NoFault
      BY <1>7, <2>3 DEF Expire, AsksStatus, Lost, Deciding, Calls, Handlers, PostKeys, RollbackKeys,
         Keys
    <2>4. CASE Goes(c, "safe") /\ UNCHANGED pc /\ NoFault
      BY <1>7, <2>4 DEF Expire, AsksStatus, Lost, Deciding, Calls, Handlers, PostKeys, RollbackKeys,
         Keys
    <2>. QED
      BY <1>7, <2>1, <2>2, <2>3, <2>4 DEF Expire
  <1>8. ASSUME NEW c \in Calls, PostStage(c)
        PROVE  TraceInv'
    <2>1. CASE Goes(c, "idle") /\ (NoFault \/ Lost) /\ UNCHANGED <<used, op>>
      BY <1>8, <2>1 DEF PostStage, Lost
    <2>2. CASE used' = used \cup {"stage"} /\ Goes(c, "idle") /\ NoFault /\ UNCHANGED op
      BY <1>8, <2>2 DEF PostStage, Lost
    <2>3. CASE used' = used \cup {"stage"} /\ op' = "QUEUED" /\ NoFault
               /\ Goes(c, IF step[c] = "stage" THEN "link" ELSE "linkAgain")
      BY <1>8, <2>3 DEF PostStage, Lost
    <2>4. CASE used' = used \cup {"stage"} /\ op' = "QUEUED" /\ Fault /\ Goes(c, "idle")
      BY <1>8, <2>4 DEF PostStage, Lost
    <2>. QED
      BY <1>8, <2>1, <2>2, <2>3, <2>4 DEF PostStage
  <1>9. ASSUME NEW c \in Calls, RecordLink(c)
        PROVE  TraceInv'
    BY <1>9 DEF RecordLink
  <1>10. ASSUME NEW c \in Calls, GetOp(c)
        PROVE  TraceInv'
    BY <1>10 DEF GetOp, Lost, Continues
  <1>11. ASSUME NEW c \in Calls, Verify(c)
        PROVE  TraceInv'
    BY <1>11 DEF Verify, Continues
  <1>12. ASSUME NEW c \in Calls, RegStage(c)
        PROVE  TraceInv'
    BY <1>12 DEF RegStage, Refuses, Commits, StageGuard
  <1>13. ASSUME NEW c \in Calls, Safe(c)
        PROVE  TraceInv'
    BY <1>13 DEF Safe, Lost, Continues
  <1>14. ASSUME NEW c \in Calls, Cancel(c)
        PROVE  TraceInv'
    <2>1. CASE Goes(c, "idle") /\ (NoFault \/ Lost) /\ UNCHANGED <<used, op>>
      BY <1>14, <2>1 DEF Cancel, Lost, Cancelled
    <2>2. CASE used' = used \cup {"cancel"} /\ op' = Cancelled(op) /\ NoFault /\ Goes(c, "attention")
      BY <1>14, <2>2 DEF Cancel, Lost, Cancelled
    <2>3. CASE used' = used \cup {"cancel"} /\ op' = Cancelled(op) /\ (NoFault \/ Fault) /\ Goes(c,
       "idle")
      BY <1>14, <2>3 DEF Cancel, Lost, Cancelled
    <2>. QED
      BY <1>14, <2>1, <2>2, <2>3 DEF Cancel
  <1>15. ASSUME NEW c \in Calls, NEW k \in PostKeys, Post(c, k)
        PROVE  TraceInv'
    <2>1. CASE Goes(c, "attention") /\ (NoFault \/ Lost) /\ UNCHANGED <<used, pc>>
      BY <1>15, <2>1 DEF Post, Lost, Awaiting, Calls, Handlers, PostKeys, RollbackKeys, Keys
    <2>2. CASE used' = used \cup {k} /\ NoFault /\ Goes(c, Awaiting(k))
               /\ pc' = [pc EXCEPT ![k] = IF k = "finalize" THEN "read" ELSE "check"]
      BY <1>15, <2>2 DEF Post, Lost, Awaiting, Calls, Handlers, PostKeys, RollbackKeys, Keys
    <2>. QED
      BY <1>15, <2>1, <2>2 DEF Post
  <1>16. ASSUME NEW c \in Calls, NEW k \in PostKeys, Answered(c, k)
        PROVE  TraceInv'
    BY <1>16 DEF Answered, Continues, Awaiting
  <1>17. ASSUME NEW c \in Calls, Confirmed(c)
        PROVE  TraceInv'
    <2>1. CASE pc[c] = "ok" /\ HasStatus(c, IF snap[c].candidate = "new" THEN "probe" ELSE "idle")
      BY <1>17, <2>1 DEF Confirmed, HasStatus, Calls, Handlers, PostKeys, RollbackKeys, Keys
    <2>2. CASE pc[c] = "err" /\ HasStatus(c, "idle")
      BY <1>17, <2>2 DEF Confirmed, HasStatus, Calls, Handlers, PostKeys, RollbackKeys, Keys
    <2>3. CASE Fault /\ Goes(c, "idle") /\ UNCHANGED <<pc, snap>>
      BY <1>17, <2>3 DEF Confirmed, HasStatus, Calls, Handlers, PostKeys, RollbackKeys, Keys
    <2>. QED
      BY <1>17, <2>1, <2>2, <2>3 DEF Confirmed
  <1>18. ASSUME NEW c \in Calls, Checked(c)
        PROVE  TraceInv'
    <2>1. CASE pc[c] = "ok" /\ HasStatus(c, Reconciliation(snap[c].state))
      BY <1>18, <2>1 DEF Checked, HasStatus, Reconciliation, Calls, Handlers, PostKeys, RollbackKeys,
         Keys
    <2>2. CASE pc[c] = "err" /\ HasStatus(c, "attention")
      BY <1>18, <2>2 DEF Checked, HasStatus, Reconciliation, Calls, Handlers, PostKeys, RollbackKeys,
         Keys
    <2>3. CASE Fault /\ Goes(c, "attention") /\ UNCHANGED <<pc, snap>>
      BY <1>18, <2>3 DEF Checked, HasStatus, Reconciliation, Calls, Handlers, PostKeys, RollbackKeys,
         Keys
    <2>. QED
      BY <1>18, <2>1, <2>2, <2>3 DEF Checked
  <1>19. ASSUME NEW c \in Calls, Probe(c)
        PROVE  TraceInv'
    BY <1>19 DEF Probe, Continues
  <1>20. ASSUME NEW c \in Calls, Activate(c)
        PROVE  TraceInv'
    BY <1>20 DEF Activate, Refuses, Commits, ActivateGuard
  <1>21. ASSUME NEW c \in Calls, RegFinalize(c)
        PROVE  TraceInv'
    BY <1>21 DEF RegFinalize, Refuses, Commits, Deciding
  <1>22. ASSUME NEW c \in Calls, RegRollback(c)
        PROVE  TraceInv'
    BY <1>22 DEF RegRollback, Refuses, Commits
  <1>23. ASSUME NEW c \in Calls, Attention(c)
        PROVE  TraceInv'
    BY <1>23 DEF Attention, Refuses, Commits
  <1>24. ASSUME NEW h \in RollbackKeys, RollbackReads(h)
        PROVE  TraceInv'
    BY <1>24 DEF RollbackReads, Calls, Handlers, PostKeys, RollbackKeys, Keys
  <1>25. ASSUME NEW h \in RollbackKeys, RollbackChecks(h)
        PROVE  TraceInv'
    BY <1>25 DEF RollbackChecks, Ends, Reconciles, Calls, Handlers, PostKeys, RollbackKeys, Keys
  <1>26. ASSUME NEW h \in Handlers, Reads(h)
        PROVE  TraceInv'
    BY <1>26 DEF Reads, Reconciles, Calls, Handlers, PostKeys, RollbackKeys, Keys
  <1>27. ASSUME NEW h \in Handlers, Asks(h)
        PROVE  TraceInv'
    BY <1>27 DEF Asks, Calls, Handlers, PostKeys, RollbackKeys, Keys
  <1>28. ASSUME NEW h \in Handlers, Adopts(h)
        PROVE  TraceInv'
    BY <1>28 DEF Adopts, Writes, Calls, Handlers, PostKeys, RollbackKeys, Keys
  <1>29. ASSUME NEW h \in Handlers, Decides(h)
        PROVE  TraceInv'
    BY <1>29 DEF Decides, Ends, Writes, CanFinalize, Calls, Handlers, PostKeys, RollbackKeys, Keys
  <1>30. ASSUME NEW h \in PostKeys, Settles(h)
        PROVE  TraceInv'
    <2>1. CASE cmd[h] = "ok" /\ NoFault /\ Writes(h, Wanted(h)) /\ Ends(h, "ok")
      BY <1>30, <2>1 DEF Settles, Ends, Writes, Wanted, Calls, Handlers, PostKeys, RollbackKeys, Keys
    <2>2. CASE ((cmd[h] = "fail" /\ NoFault) \/ Fault) /\ Writes(h, "NEEDS_ATTENTION") /\ Ends(h, "err")
      BY <1>30, <2>2 DEF Settles, Ends, Writes, Wanted, Calls, Handlers, PostKeys, RollbackKeys, Keys
    <2>3. CASE Fault /\ Ends(h, "err") /\ UNCHANGED targetVars
      BY <1>30, <2>3 DEF Settles, Ends, Writes, Wanted, Calls, Handlers, PostKeys, RollbackKeys, Keys
    <2>. QED
      BY <1>30, <2>1, <2>2, <2>3 DEF Settles
  <1>31. ASSUME NEW k \in PostKeys \cup {"stage"}, AgentReads(k)
        PROVE  TraceInv'
    BY <1>31 DEF AgentReads, Calls, Handlers, PostKeys, RollbackKeys, Keys
  <1>32. ASSUME NEW k \in PostKeys \cup {"stage"}, AgentApplies(k)
        PROVE  TraceInv'
    BY <1>32 DEF AgentApplies, Wanted, ActsIn, DoneIn, AgentStates, Terminal, Calls, Handlers,
       PostKeys, RollbackKeys, Keys
  <1>33. ASSUME StageStarts
        PROVE  TraceInv'
    BY <1>33 DEF StageStarts
  <1>34. ASSUME StageExpires
        PROVE  TraceInv'
    BY <1>34 DEF StageExpires
  <1>35. ASSUME StageReturns
        PROVE  TraceInv'
    BY <1>35 DEF StageReturns
  <1>36. ASSUME StageFails
        PROVE  TraceInv'
    BY <1>36 DEF StageFails
  <1>37. ASSUME StageEnds
        PROVE  TraceInv'
    BY <1>37 DEF StageEnds
  <1>38. ASSUME Deadline \/ RepairProjection \/ Outage \/ Restore
        PROVE  TraceInv'
    BY <1>38 DEF Deadline, RepairProjection, Outage, Restore
  <1>39. ASSUME TargetCrash
        PROVE  TraceInv'
    BY <1>39 DEF TargetCrash, Working, Calls, Handlers, PostKeys, RollbackKeys, Keys
  <1>40. ASSUME MasterCrash
        PROVE  TraceInv'
    BY <1>40 DEF MasterCrash
  <1>41. CASE UNCHANGED vars
    BY <1>41 DEF vars, masterVars, callVars, remoteVars, stageVars, targetVars, handlerVars, agentVars
  <1>. QED
    BY <1>1, <1>2, <1>3, <1>4, <1>5, <1>6, <1>7, <1>8, <1>9, <1>10, <1>11, <1>12, <1>13, <1>14, <1>15,
       <1>16, <1>17, <1>18, <1>19, <1>20, <1>21, <1>22, <1>23, <1>24, <1>25, <1>26, <1>27, <1>28,
       <1>29, <1>30, <1>31, <1>32, <1>33, <1>34, <1>35, <1>36, <1>37, <1>38, <1>39, <1>40,
       <1>41 DEF Next, CallStep, HandlerStep, AgentStep, StageStep

-----------------------------------------------------------------------------
(* The registry is not ahead of the agent *)

\* What follows from a candidate on the agent: nothing brings it back to NONE.
StagedInv ==
    /\ cmd["stage"] = "NONE" => agent = "NONE"
    /\ \A k \in PostKeys \cup {"stage"} : cmd[k] \in {"STAGED", "FINALIZED",
       "ROLLED_BACK"} => agent # "NONE"
    /\ cmd["stage"] = "ok" => agent # "NONE"
    /\ stage = "end" => agent # "NONE"
    /\ op = "SUCCEEDED" => agent # "NONE"
    /\ \A c \in Calls : step[c] \in {"verify", "regStage"} => agent # "NONE"
    /\ candidate = "new" => agent # "NONE"
    /\ active = "new" => agent # "NONE"

\* What follows from a finalized one: nothing brings it back to STAGED.
FinalInv ==
    /\ cmd["finalize"] \in {"ok", "FINALIZED"} => agent \in Terminal
    /\ pc["finalize"] = "ok" => agent \in Terminal
    /\ journal.state = "FINALIZED" => agent \in Terminal
    /\ \A h \in Handlers : seen[h] = "FINALIZED" => agent \in Terminal
    /\ \A h \in Handlers : snap[h].state = "FINALIZED" => agent \in Terminal
    /\ \A c \in Calls : step[c] \in {"regFinalize", "regConfirm"} => agent \in Terminal
    /\ reg = "FINALIZED" => agent \in Terminal

LEMMA NextStagedInv == TypeOK /\ StagedInv /\ [Next]_vars => StagedInv'
  <1>. SUFFICES ASSUME TypeOK, StagedInv, [Next]_vars
                PROVE  StagedInv'
    OBVIOUS
  <1>. USE CutoverAssumption DEF TypeOK, StagedInv, Calls, masterVars, callVars, remoteVars, stageVars,
     targetVars, handlerVars, agentVars, Goes
  <1>1. ASSUME NEW c \in Operators, Prepare(c)
        PROVE  StagedInv'
    BY <1>1 DEF Prepare, Refuses, Enters
  <1>2. ASSUME NEW c \in Operators, Start(c)
        PROVE  StagedInv'
    BY <1>2 DEF Start, Enters
  <1>3. ASSUME NEW c \in Operators, Get(c)
        PROVE  StagedInv'
    BY <1>3 DEF Get, Enters
  <1>4. ASSUME NEW c \in Operators, Resume(c)
        PROVE  StagedInv'
    BY <1>4 DEF Resume, Enters, AsksStatus, Lost, Deciding
  <1>5. ASSUME NEW c \in Operators, Confirm(c)
        PROVE  StagedInv'
    BY <1>5 DEF Confirm, Enters, AsksStatus
  <1>6. ASSUME NEW c \in Operators, Rollback(c)
        PROVE  StagedInv'
    BY <1>6 DEF Rollback, Enters
  <1>7. ASSUME NEW c \in Calls, Expire(c)
        PROVE  StagedInv'
    BY <1>7 DEF Expire, AsksStatus, Lost, Deciding
  <1>8. ASSUME NEW c \in Calls, PostStage(c)
        PROVE  StagedInv'
    <2>1. CASE Goes(c, "idle") /\ (NoFault \/ Lost) /\ UNCHANGED <<used, op>>
      BY <1>8, <2>1 DEF PostStage, Lost
    <2>2. CASE used' = used \cup {"stage"} /\ Goes(c, "idle") /\ NoFault /\ UNCHANGED op
      BY <1>8, <2>2 DEF PostStage, Lost
    <2>3. CASE used' = used \cup {"stage"} /\ op' = "QUEUED" /\ NoFault
               /\ Goes(c, IF step[c] = "stage" THEN "link" ELSE "linkAgain")
      BY <1>8, <2>3 DEF PostStage, Lost
    <2>4. CASE used' = used \cup {"stage"} /\ op' = "QUEUED" /\ Fault /\ Goes(c, "idle")
      BY <1>8, <2>4 DEF PostStage, Lost
    <2>. QED
      BY <1>8, <2>1, <2>2, <2>3, <2>4 DEF PostStage
  <1>9. ASSUME NEW c \in Calls, RecordLink(c)
        PROVE  StagedInv'
    BY <1>9 DEF RecordLink
  <1>10. ASSUME NEW c \in Calls, GetOp(c)
        PROVE  StagedInv'
    BY <1>10 DEF GetOp, Lost, Continues
  <1>11. ASSUME NEW c \in Calls, Verify(c)
        PROVE  StagedInv'
    BY <1>11 DEF Verify, Continues
  <1>12. ASSUME NEW c \in Calls, RegStage(c)
        PROVE  StagedInv'
    BY <1>12 DEF RegStage, Refuses, Commits, StageGuard
  <1>13. ASSUME NEW c \in Calls, Safe(c)
        PROVE  StagedInv'
    BY <1>13 DEF Safe, Lost, Continues
  <1>14. ASSUME NEW c \in Calls, Cancel(c)
        PROVE  StagedInv'
    <2>1. CASE Goes(c, "idle") /\ (NoFault \/ Lost) /\ UNCHANGED <<used, op>>
      BY <1>14, <2>1 DEF Cancel, Lost, Cancelled, Terminal
    <2>2. CASE used' = used \cup {"cancel"} /\ op' = Cancelled(op) /\ NoFault /\ Goes(c, "attention")
      BY <1>14, <2>2 DEF Cancel, Lost, Cancelled, Terminal
    <2>3. CASE used' = used \cup {"cancel"} /\ op' = Cancelled(op) /\ (NoFault \/ Fault) /\ Goes(c,
       "idle")
      BY <1>14, <2>3 DEF Cancel, Lost, Cancelled, Terminal
    <2>. QED
      BY <1>14, <2>1, <2>2, <2>3 DEF Cancel
  <1>15. ASSUME NEW c \in Calls, NEW k \in PostKeys, Post(c, k)
        PROVE  StagedInv'
    <2>1. CASE Goes(c, "attention") /\ (NoFault \/ Lost) /\ UNCHANGED <<used, pc>>
      BY <1>15, <2>1 DEF Post, Lost, Awaiting
    <2>2. CASE used' = used \cup {k} /\ NoFault /\ Goes(c, Awaiting(k))
               /\ pc' = [pc EXCEPT ![k] = IF k = "finalize" THEN "read" ELSE "check"]
      BY <1>15, <2>2 DEF Post, Lost, Awaiting
    <2>. QED
      BY <1>15, <2>1, <2>2 DEF Post
  <1>16. ASSUME NEW c \in Calls, NEW k \in PostKeys, Answered(c, k)
        PROVE  StagedInv'
    BY <1>16 DEF Answered, Continues, Awaiting
  <1>17. ASSUME NEW c \in Calls, Confirmed(c)
        PROVE  StagedInv'
    <2>1. CASE pc[c] = "ok" /\ HasStatus(c, IF snap[c].candidate = "new" THEN "probe" ELSE "idle")
      BY <1>17, <2>1 DEF Confirmed, HasStatus
    <2>2. CASE pc[c] = "err" /\ HasStatus(c, "idle")
      BY <1>17, <2>2 DEF Confirmed, HasStatus
    <2>3. CASE Fault /\ Goes(c, "idle") /\ UNCHANGED <<pc, snap>>
      BY <1>17, <2>3 DEF Confirmed, HasStatus
    <2>. QED
      BY <1>17, <2>1, <2>2, <2>3 DEF Confirmed
  <1>18. ASSUME NEW c \in Calls, Checked(c)
        PROVE  StagedInv'
    <2>1. CASE pc[c] = "ok" /\ HasStatus(c, Reconciliation(snap[c].state))
      BY <1>18, <2>1 DEF Checked, HasStatus, Reconciliation
    <2>2. CASE pc[c] = "err" /\ HasStatus(c, "attention")
      BY <1>18, <2>2 DEF Checked, HasStatus, Reconciliation
    <2>3. CASE Fault /\ Goes(c, "attention") /\ UNCHANGED <<pc, snap>>
      BY <1>18, <2>3 DEF Checked, HasStatus, Reconciliation
    <2>. QED
      BY <1>18, <2>1, <2>2, <2>3 DEF Checked
  <1>19. ASSUME NEW c \in Calls, Probe(c)
        PROVE  StagedInv'
    BY <1>19 DEF Probe, Continues
  <1>20. ASSUME NEW c \in Calls, Activate(c)
        PROVE  StagedInv'
    BY <1>20 DEF Activate, Refuses, Commits, ActivateGuard
  <1>21. ASSUME NEW c \in Calls, RegFinalize(c)
        PROVE  StagedInv'
    BY <1>21 DEF RegFinalize, Refuses, Commits, Deciding
  <1>22. ASSUME NEW c \in Calls, RegRollback(c)
        PROVE  StagedInv'
    BY <1>22 DEF RegRollback, Refuses, Commits
  <1>23. ASSUME NEW c \in Calls, Attention(c)
        PROVE  StagedInv'
    BY <1>23 DEF Attention, Refuses, Commits
  <1>24. ASSUME NEW h \in RollbackKeys, RollbackReads(h)
        PROVE  StagedInv'
    BY <1>24 DEF RollbackReads
  <1>25. ASSUME NEW h \in RollbackKeys, RollbackChecks(h)
        PROVE  StagedInv'
    BY <1>25 DEF RollbackChecks, Ends, Reconciles
  <1>26. ASSUME NEW h \in Handlers, Reads(h)
        PROVE  StagedInv'
    BY <1>26 DEF Reads, Reconciles
  <1>27. ASSUME NEW h \in Handlers, Asks(h)
        PROVE  StagedInv'
    BY <1>27 DEF Asks
  <1>28. ASSUME NEW h \in Handlers, Adopts(h)
        PROVE  StagedInv'
    BY <1>28 DEF Adopts, Writes
  <1>29. ASSUME NEW h \in Handlers, Decides(h)
        PROVE  StagedInv'
    BY <1>29 DEF Decides, Ends, Writes, CanFinalize
  <1>30. ASSUME NEW h \in PostKeys, Settles(h)
        PROVE  StagedInv'
    BY <1>30 DEF Settles, Ends, Writes, Wanted
  <1>31. ASSUME NEW k \in PostKeys \cup {"stage"}, AgentReads(k)
        PROVE  StagedInv'
    BY <1>31 DEF AgentReads, AgentStates, CmdSteps, Terminal, PostKeys, RollbackKeys
  <1>32. ASSUME NEW k \in PostKeys \cup {"stage"}, AgentApplies(k)
        PROVE  StagedInv'
    BY <1>32 DEF AgentApplies, Wanted, ActsIn, DoneIn, AgentStates, CmdSteps, Terminal, PostKeys,
       RollbackKeys
  <1>33. ASSUME StageStarts
        PROVE  StagedInv'
    BY <1>33 DEF StageStarts
  <1>34. ASSUME StageExpires
        PROVE  StagedInv'
    BY <1>34 DEF StageExpires
  <1>35. ASSUME StageReturns
        PROVE  StagedInv'
    BY <1>35 DEF StageReturns
  <1>36. ASSUME StageFails
        PROVE  StagedInv'
    BY <1>36 DEF StageFails
  <1>37. ASSUME StageEnds
        PROVE  StagedInv'
    BY <1>37 DEF StageEnds
  <1>38. ASSUME Deadline \/ RepairProjection \/ Outage \/ Restore
        PROVE  StagedInv'
    BY <1>38 DEF Deadline, RepairProjection, Outage, Restore
  <1>39. ASSUME TargetCrash
        PROVE  StagedInv'
    BY <1>39 DEF TargetCrash
  <1>40. ASSUME MasterCrash
        PROVE  StagedInv'
    BY <1>40 DEF MasterCrash
  <1>41. CASE UNCHANGED vars
    BY <1>41 DEF vars, masterVars, callVars, remoteVars, stageVars, targetVars, handlerVars, agentVars
  <1>. QED
    BY <1>1, <1>2, <1>3, <1>4, <1>5, <1>6, <1>7, <1>8, <1>9, <1>10, <1>11, <1>12, <1>13, <1>14, <1>15,
       <1>16, <1>17, <1>18, <1>19, <1>20, <1>21, <1>22, <1>23, <1>24, <1>25, <1>26, <1>27, <1>28,
       <1>29, <1>30, <1>31, <1>32, <1>33, <1>34, <1>35, <1>36, <1>37, <1>38, <1>39, <1>40,
       <1>41 DEF Next, CallStep, HandlerStep, AgentStep, StageStep

LEMMA NextFinalInv == TypeOK /\ StagedInv /\ FinalInv /\ [Next]_vars => FinalInv'
  <1>. SUFFICES ASSUME TypeOK, StagedInv, FinalInv, [Next]_vars
                PROVE  FinalInv'
    OBVIOUS
  <1>. USE CutoverAssumption, HandlerAssumption DEF TypeOK, FinalInv, masterVars, callVars, remoteVars,
     stageVars, targetVars, handlerVars, agentVars, Goes
  <1>1. ASSUME NEW c \in Operators, Prepare(c)
        PROVE  FinalInv'
    BY <1>1 DEF Prepare, Refuses, Enters
  <1>2. ASSUME NEW c \in Operators, Start(c)
        PROVE  FinalInv'
    BY <1>2 DEF Start, Enters
  <1>3. ASSUME NEW c \in Operators, Get(c)
        PROVE  FinalInv'
    BY <1>3 DEF Get, Enters
  <1>4. ASSUME NEW c \in Operators, Resume(c)
        PROVE  FinalInv'
    <2>1. CASE Enters(c, "checking") /\ Reachable /\ AsksStatus(c) /\ NoFault
      BY <1>4, <2>1 DEF Resume, Enters, AsksStatus, Lost, Deciding, Calls, Handlers, PostKeys,
         RollbackKeys, Keys
    <2>2. CASE Enters(c, "attention") /\ Lost /\ UNCHANGED pc
      BY <1>4, <2>2 DEF Resume, Enters, AsksStatus, Lost, Deciding, Calls, Handlers, PostKeys,
         RollbackKeys, Keys
    <2>. QED
      BY <1>4, <2>1, <2>2 DEF Resume
  <1>5. ASSUME NEW c \in Operators, Confirm(c)
        PROVE  FinalInv'
    BY <1>5 DEF Confirm, Enters, AsksStatus, Calls, Handlers, PostKeys, RollbackKeys, Keys
  <1>6. ASSUME NEW c \in Operators, Rollback(c)
        PROVE  FinalInv'
    BY <1>6 DEF Rollback, Enters
  <1>7. ASSUME NEW c \in Calls, Expire(c)
        PROVE  FinalInv'
    <2>1. CASE Goes(c, "attention") /\ UNCHANGED pc /\ ((link = "none" /\ NoFault) \/ Fault)
      BY <1>7, <2>1 DEF Expire, AsksStatus, Lost, Deciding, Calls, Handlers, PostKeys, RollbackKeys,
         Keys
    <2>2. CASE Deciding /\ Goes(c, "checking") /\ AsksStatus(c) /\ NoFault
      BY <1>7, <2>2 DEF Expire, AsksStatus, Lost, Deciding, Calls, Handlers, PostKeys, RollbackKeys,
         Keys
    <2>3. CASE Deciding /\ Goes(c, "attention") /\ UNCHANGED pc /\ NoFault
      BY <1>7, <2>3 DEF Expire, AsksStatus, Lost, Deciding, Calls, Handlers, PostKeys, RollbackKeys,
         Keys
    <2>4. CASE Goes(c, "safe") /\ UNCHANGED pc /\ NoFault
      BY <1>7, <2>4 DEF Expire, AsksStatus, Lost, Deciding, Calls, Handlers, PostKeys, RollbackKeys,
         Keys
    <2>. QED
      BY <1>7, <2>1, <2>2, <2>3, <2>4 DEF Expire
  <1>8. ASSUME NEW c \in Calls, PostStage(c)
        PROVE  FinalInv'
    <2>1. CASE Goes(c, "idle") /\ (NoFault \/ Lost) /\ UNCHANGED <<used, op>>
      BY <1>8, <2>1 DEF PostStage, Lost
    <2>2. CASE used' = used \cup {"stage"} /\ Goes(c, "idle") /\ NoFault /\ UNCHANGED op
      BY <1>8, <2>2 DEF PostStage, Lost
    <2>3. CASE used' = used \cup {"stage"} /\ op' = "QUEUED" /\ NoFault
               /\ Goes(c, IF step[c] = "stage" THEN "link" ELSE "linkAgain")
      BY <1>8, <2>3 DEF PostStage, Lost
    <2>4. CASE used' = used \cup {"stage"} /\ op' = "QUEUED" /\ Fault /\ Goes(c, "idle")
      BY <1>8, <2>4 DEF PostStage, Lost
    <2>. QED
      BY <1>8, <2>1, <2>2, <2>3, <2>4 DEF PostStage
  <1>9. ASSUME NEW c \in Calls, RecordLink(c)
        PROVE  FinalInv'
    BY <1>9 DEF RecordLink
  <1>10. ASSUME NEW c \in Calls, GetOp(c)
        PROVE  FinalInv'
    BY <1>10 DEF GetOp, Lost, Continues
  <1>11. ASSUME NEW c \in Calls, Verify(c)
        PROVE  FinalInv'
    BY <1>11 DEF Verify, Continues
  <1>12. ASSUME NEW c \in Calls, RegStage(c)
        PROVE  FinalInv'
    BY <1>12 DEF RegStage, Refuses, Commits, StageGuard
  <1>13. ASSUME NEW c \in Calls, Safe(c)
        PROVE  FinalInv'
    BY <1>13 DEF Safe, Lost, Continues
  <1>14. ASSUME NEW c \in Calls, Cancel(c)
        PROVE  FinalInv'
    <2>1. CASE Goes(c, "idle") /\ (NoFault \/ Lost) /\ UNCHANGED <<used, op>>
      BY <1>14, <2>1 DEF Cancel, Lost, Cancelled
    <2>2. CASE used' = used \cup {"cancel"} /\ op' = Cancelled(op) /\ NoFault /\ Goes(c, "attention")
      BY <1>14, <2>2 DEF Cancel, Lost, Cancelled
    <2>3. CASE used' = used \cup {"cancel"} /\ op' = Cancelled(op) /\ (NoFault \/ Fault) /\ Goes(c,
       "idle")
      BY <1>14, <2>3 DEF Cancel, Lost, Cancelled
    <2>. QED
      BY <1>14, <2>1, <2>2, <2>3 DEF Cancel
  <1>15. ASSUME NEW c \in Calls, NEW k \in PostKeys, Post(c, k)
        PROVE  FinalInv'
    <2>1. CASE Goes(c, "attention") /\ (NoFault \/ Lost) /\ UNCHANGED <<used, pc>>
      BY <1>15, <2>1 DEF Post, Lost, Awaiting, Calls, Handlers, PostKeys, RollbackKeys, Keys
    <2>2. CASE used' = used \cup {k} /\ NoFault /\ Goes(c, Awaiting(k))
               /\ pc' = [pc EXCEPT ![k] = IF k = "finalize" THEN "read" ELSE "check"]
      BY <1>15, <2>2 DEF Post, Lost, Awaiting, Calls, Handlers, PostKeys, RollbackKeys, Keys
    <2>. QED
      BY <1>15, <2>1, <2>2 DEF Post
  <1>16. ASSUME NEW c \in Calls, NEW k \in PostKeys, Answered(c, k)
        PROVE  FinalInv'
    BY <1>16 DEF Answered, Continues, Awaiting, Calls, Handlers, PostKeys, RollbackKeys, Keys
  <1>17. ASSUME NEW c \in Calls, Confirmed(c)
        PROVE  FinalInv'
    <2>1. CASE pc[c] = "ok" /\ HasStatus(c, IF snap[c].candidate = "new" THEN "probe" ELSE "idle")
      BY <1>17, <2>1 DEF Confirmed, HasStatus, Calls, Handlers, PostKeys, RollbackKeys, Keys, Journal,
         NoJournal, Terminal
    <2>2. CASE pc[c] = "err" /\ HasStatus(c, "idle")
      BY <1>17, <2>2 DEF Confirmed, HasStatus, Calls, Handlers, PostKeys, RollbackKeys, Keys, Journal,
         NoJournal, Terminal
    <2>3. CASE Fault /\ Goes(c, "idle") /\ UNCHANGED <<pc, snap>>
      BY <1>17, <2>3 DEF Confirmed, HasStatus, Calls, Handlers, PostKeys, RollbackKeys, Keys, Journal,
         NoJournal, Terminal
    <2>. QED
      BY <1>17, <2>1, <2>2, <2>3 DEF Confirmed
  <1>18. ASSUME NEW c \in Calls, Checked(c)
        PROVE  FinalInv'
    <2>1. CASE pc[c] = "ok" /\ HasStatus(c, Reconciliation(snap[c].state))
      BY <1>18, <2>1 DEF Checked, HasStatus, Reconciliation, Calls, Handlers, PostKeys, RollbackKeys,
         Keys, Journal, NoJournal, Terminal
    <2>2. CASE pc[c] = "err" /\ HasStatus(c, "attention")
      BY <1>18, <2>2 DEF Checked, HasStatus, Reconciliation, Calls, Handlers, PostKeys, RollbackKeys,
         Keys, Journal, NoJournal, Terminal
    <2>3. CASE Fault /\ Goes(c, "attention") /\ UNCHANGED <<pc, snap>>
      BY <1>18, <2>3 DEF Checked, HasStatus, Reconciliation, Calls, Handlers, PostKeys, RollbackKeys,
         Keys, Journal, NoJournal, Terminal
    <2>. QED
      BY <1>18, <2>1, <2>2, <2>3 DEF Checked
  <1>19. ASSUME NEW c \in Calls, Probe(c)
        PROVE  FinalInv'
    BY <1>19 DEF Probe, Continues
  <1>20. ASSUME NEW c \in Calls, Activate(c)
        PROVE  FinalInv'
    BY <1>20 DEF Activate, Refuses, Commits, ActivateGuard
  <1>21. ASSUME NEW c \in Calls, RegFinalize(c)
        PROVE  FinalInv'
    BY <1>21 DEF RegFinalize, Refuses, Commits, Deciding
  <1>22. ASSUME NEW c \in Calls, RegRollback(c)
        PROVE  FinalInv'
    BY <1>22 DEF RegRollback, Refuses, Commits, Terminal
  <1>23. ASSUME NEW c \in Calls, Attention(c)
        PROVE  FinalInv'
    BY <1>23 DEF Attention, Refuses, Commits
  <1>24. ASSUME NEW h \in RollbackKeys, RollbackReads(h)
        PROVE  FinalInv'
    BY <1>24 DEF RollbackReads, Calls, Handlers, PostKeys, RollbackKeys, Keys, Journal, NoJournal,
       Terminal
  <1>25. ASSUME NEW h \in RollbackKeys, RollbackChecks(h)
        PROVE  FinalInv'
    BY <1>25 DEF RollbackChecks, Ends, Reconciles, Calls, Handlers, PostKeys, RollbackKeys, Keys,
       Journal, NoJournal, Terminal
  <1>26. ASSUME NEW h \in Handlers, Reads(h)
        PROVE  FinalInv'
    BY <1>26 DEF Reads, Reconciles, Calls, Handlers, PostKeys, RollbackKeys, Keys, Journal, NoJournal,
       Terminal
  <1>27. ASSUME NEW h \in Handlers, Asks(h)
        PROVE  FinalInv'
    BY <1>27 DEF Asks, Calls, Handlers, PostKeys, RollbackKeys, Keys, Journal, NoJournal, Terminal
  <1>28. ASSUME NEW h \in Handlers, Adopts(h)
        PROVE  FinalInv'
    BY <1>28 DEF Adopts, Writes, Calls, Handlers, PostKeys, RollbackKeys, Keys, Journal, NoJournal,
       Terminal
  <1>29. ASSUME NEW h \in Handlers, Decides(h)
        PROVE  FinalInv'
    <2>1. CASE Ends(h, "ok") /\ UNCHANGED targetVars
      BY <1>29, <2>1 DEF Decides, Ends, Writes, CanFinalize, Calls, Handlers, PostKeys, RollbackKeys,
         Keys, Journal, NoJournal, Terminal
    <2>2. CASE Ends(h, "err") /\ UNCHANGED targetVars
      BY <1>29, <2>2 DEF Decides, Ends, Writes, CanFinalize, Calls, Handlers, PostKeys, RollbackKeys,
         Keys, Journal, NoJournal, Terminal
    <2>3. CASE h = "finalize" /\ Writes(h,
       "FINALIZING") /\ pc' = [pc EXCEPT ![h] = "agent"] /\ UNCHANGED snap
      BY <1>29, <2>3 DEF Decides, Ends, Writes, CanFinalize, Calls, Handlers, PostKeys, RollbackKeys,
         Keys, Journal, NoJournal, Terminal
    <2>4. CASE h \in RollbackKeys /\ Writes(h,
       "ROLLING_BACK") /\ pc' = [pc EXCEPT ![h] = "agent"] /\ UNCHANGED snap
      BY <1>29, <2>4 DEF Decides, Ends, Writes, CanFinalize, Calls, Handlers, PostKeys, RollbackKeys,
         Keys, Journal, NoJournal, Terminal
    <2>. QED
      BY <1>29, <2>1, <2>2, <2>3, <2>4 DEF Decides
  <1>30. ASSUME NEW h \in PostKeys, Settles(h)
        PROVE  FinalInv'
    <2>1. CASE cmd[h] = "ok" /\ NoFault /\ Writes(h, Wanted(h)) /\ Ends(h, "ok")
      BY <1>30, <2>1 DEF Settles, Ends, Writes, Wanted, Calls, Handlers, PostKeys, RollbackKeys, Keys,
         Journal, NoJournal, Terminal
    <2>2. CASE ((cmd[h] = "fail" /\ NoFault) \/ Fault) /\ Writes(h, "NEEDS_ATTENTION") /\ Ends(h, "err")
      BY <1>30, <2>2 DEF Settles, Ends, Writes, Wanted, Calls, Handlers, PostKeys, RollbackKeys, Keys,
         Journal, NoJournal, Terminal
    <2>3. CASE Fault /\ Ends(h, "err") /\ UNCHANGED targetVars
      BY <1>30, <2>3 DEF Settles, Ends, Writes, Wanted, Calls, Handlers, PostKeys, RollbackKeys, Keys,
         Journal, NoJournal, Terminal
    <2>. QED
      BY <1>30, <2>1, <2>2, <2>3 DEF Settles
  <1>31. ASSUME NEW k \in PostKeys \cup {"stage"}, AgentReads(k)
        PROVE  FinalInv'
    BY <1>31 DEF AgentReads, AgentStates, CmdSteps, Terminal, PostKeys, RollbackKeys, Calls
  <1>32. ASSUME NEW k \in PostKeys \cup {"stage"}, AgentApplies(k)
        PROVE  FinalInv'
    BY <1>32 DEF AgentApplies, Wanted, ActsIn, DoneIn, AgentStates, CmdSteps, Terminal, PostKeys,
       RollbackKeys, StagedInv
  <1>33. ASSUME StageStarts
        PROVE  FinalInv'
    BY <1>33 DEF StageStarts, Journal
  <1>34. ASSUME StageExpires
        PROVE  FinalInv'
    BY <1>34 DEF StageExpires
  <1>35. ASSUME StageReturns
        PROVE  FinalInv'
    BY <1>35 DEF StageReturns, Journal
  <1>36. ASSUME StageFails
        PROVE  FinalInv'
    BY <1>36 DEF StageFails, Journal
  <1>37. ASSUME StageEnds
        PROVE  FinalInv'
    BY <1>37 DEF StageEnds
  <1>38. ASSUME Deadline \/ RepairProjection \/ Outage \/ Restore
        PROVE  FinalInv'
    BY <1>38 DEF Deadline, RepairProjection, Outage, Restore
  <1>39. ASSUME TargetCrash
        PROVE  FinalInv'
    BY <1>39 DEF TargetCrash, Calls, Handlers, PostKeys, RollbackKeys, Keys, Journal, NoJournal,
       Terminal, Working
  <1>40. ASSUME MasterCrash
        PROVE  FinalInv'
    BY <1>40 DEF MasterCrash
  <1>41. CASE UNCHANGED vars
    BY <1>41 DEF vars, masterVars, callVars, remoteVars, stageVars, targetVars, handlerVars, agentVars
  <1>. QED
    BY <1>1, <1>2, <1>3, <1>4, <1>5, <1>6, <1>7, <1>8, <1>9, <1>10, <1>11, <1>12, <1>13, <1>14, <1>15,
       <1>16, <1>17, <1>18, <1>19, <1>20, <1>21, <1>22, <1>23, <1>24, <1>25, <1>26, <1>27, <1>28,
       <1>29, <1>30, <1>31, <1>32, <1>33, <1>34, <1>35, <1>36, <1>37, <1>38, <1>39, <1>40,
       <1>41 DEF Next, CallStep, HandlerStep, AgentStep, StageStep

-----------------------------------------------------------------------------
(* The invariants together *)

CutoverInv == TypeOK /\ RegInv /\ CommitInv /\ TraceInv /\ StagedInv /\ FinalInv

LEMMA CutoverInvariant == Spec => []CutoverInv
  <1>1. Init => CutoverInv
    <2>. SUFFICES ASSUME Init
                  PROVE  CutoverInv
      OBVIOUS
    <2>1. TypeOK
      BY InitTypeOK
    <2>2. RegInv /\ CommitInv
      BY DEF Init, RegInv, CommitInv, Committed
    <2>3. TraceInv
      BY HandlerAssumption DEF Init, TraceInv, Handlers, PostKeys, RollbackKeys
    <2>4. StagedInv
      BY DEF Init, StagedInv, PostKeys, RollbackKeys
    <2>5. FinalInv
      BY DEF Init, FinalInv, NoJournal, Journal, Handlers, PostKeys, RollbackKeys
    <2>. QED
      BY <2>1, <2>2, <2>3, <2>4, <2>5 DEF CutoverInv
  <1>2. CutoverInv /\ [Next]_vars => CutoverInv'
    BY NextTypeOK, NextRegInv, NextCommitInv, NextTraceInv, NextStagedInv, NextFinalInv DEF CutoverInv
  <1>. QED
    BY <1>1, <1>2, PTL DEF Spec

\* However many calls overlap, and whatever is lost or crashes: the target gives
\* up its old listener and settings only after the registry was switched.
THEOREM OldServes == Spec => []OldServesUntilActivation
  <1>1. CutoverInv => OldServesUntilActivation
    BY DEF CutoverInv, CommitInv, TraceInv, OldServesUntilActivation
  <1>. QED
    BY <1>1, CutoverInvariant, PTL

\* The registry holds a candidate only after the agent has staged it, and says
\* FINALIZED only after the agent has switched the listeners.
THEOREM RegistryFollows == Spec => []NeverAheadOfTarget
  <1>1. CutoverInv => NeverAheadOfTarget
    BY DEF CutoverInv, StagedInv, FinalInv, NeverAheadOfTarget
  <1>. QED
    BY <1>1, CutoverInvariant, PTL

=============================================================================
