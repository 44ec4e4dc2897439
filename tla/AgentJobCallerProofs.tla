------------------------- MODULE AgentJobCallerProofs --------------------------
(***************************************************************************)
(* Proofs about the row of an agent job under any number of overlapping    *)
(* calls: a decided row means that no handler is at work                   *)
(* (DecidedMeansStopped), and the row only moves forward                   *)
(* (RowMovesForward), both with the one exception the code has, a refused  *)
(* START that is written by the row's id alone.                            *)
(***************************************************************************)
EXTENDS AgentJobProofs

\* A refusal in flight was given by a process that did not hold the job.
RefusalsTrue ==
    \A r \in replies : r.kind = "START" /\ ~r.ok => r.boot \in refused

\* FAILED is how the handler of the row's boot ended, or the boot's refusal.
FailureIsTrue ==
    state = "FAILED" =>
        boundTo # NoOne /\ (ended[boundTo] = "FAILED" \/ boundTo \in refused)

\* The inductive invariant.
CallerInv == TruthInv /\ RefusalsTrue /\ FailureIsTrue

-----------------------------------------------------------------------------
(***************************************************************************)
(* What a step that is not the agent's does to the row.                    *)
(***************************************************************************)

\* The row is bound by a call;
BoundByCall(c) ==
    /\ callPc[c] = "bind" /\ state = "STARTING" /\ boundTo = NoOne
    /\ UNCHANGED <<state, sequence>> /\ boundTo' = callBoot[c]

\* overwritten by a refusal;
Refused(c, r) ==
    /\ callPc[c] = "started" /\ r.to = c /\ r.kind = "START" /\ ~r.ok
    /\ state' = "FAILED" /\ boundTo' = r.boot /\ UNCHANGED sequence

\* created;
Created ==
    state = "ABSENT" /\ state' = "STARTING" /\ UNCHANGED <<boundTo, sequence>>

\* told by its own boot how the job is;
Reported(m) ==
    /\ m.boot = boundTo /\ state \in Open /\ UNCHANGED boundTo /\ sequence' >= sequence
    /\ \/ state' \in Open
       \/ state' \in RuntimeTerminal /\ ended[boundTo] = state'

\* asked to cancel or given up by the call that works on it;
ChangedByCall(c) ==
    /\ callPc[c] = "loop" /\ state \notin Terminal
    /\ state' \in {state, "CANCEL_REQUESTED", "NEEDS_ATTENTION"}
    /\ UNCHANGED <<boundTo, sequence>>

\* or fenced by a later boot.
Fenced ==
    /\ state \in RuntimeActive /\ state' = "NEEDS_ATTENTION"
    /\ UNCHANGED <<boundTo, sequence>>

\* What the steps that are not the agent's do to the row.
RowMove ==
    \/ RowStays \/ Created \/ Fenced
    \/ \E c \in Caller : BoundByCall(c) \/ ChangedByCall(c)
    \/ \E c \in Caller, r \in replies : Refused(c, r)
    \/ \E m \in writes : Reported(m)
    \/ \E m \in replies : m.ok /\ Reported(m)

\* Every step that is not the agent's is one of these on the row.
LEMMA RowMoves ==
    ASSUME TruthInv, [Next]_vars, ~AgentStep
    PROVE  RowMove
<1> USE DEF TruthInv
<1>0. /\ sequence \in Nat /\ RuntimeActive \cap RuntimeTerminal = {}
      /\ "no" \notin RuntimeActive /\ RuntimeActive \subseteq Open
      /\ state \in {"ABSENT"} \cup Open \cup Terminal
  BY DEF JobTypeOK, RowTypeOK, RuntimeActive, RuntimeTerminal, Open
<1>1. CASE RowStays
  BY <1>1 DEF RowMove
<1>2. ASSUME NEW b \in fences, Fence(b) PROVE RowMove
  BY <1>2 DEF Fence, MarkInterruptedByNewBoot, RowMove, RowStays, Fenced
<1>3. ASSUME NEW e \in writes, EventWritten(e) PROVE RowStays \/ Reported(e)
  <2>1. /\ e.boot \in Boot /\ e.seq \in Nat
        /\ e.state \in RuntimeActive \cup RuntimeTerminal
    BY DEF JobTypeOK, RelayTypeOK, Event
  <2>2. CASE RecordStarted(e.boot)
    BY <2>2, <1>0 DEF RecordStarted, RowStays, Reported, Open
  <2>3. CASE RecordHeartbeat(e.boot, e.seq)
    BY <2>1, <2>3, <1>0 DEF RecordHeartbeat, Newer, RowStays, Reported
  <2>4. CASE e.kind = "RESULT" /\ RecordResult(e.boot, e.seq, e.state)
    <3>1. ended[e.boot] = e.state /\ e.state \in RuntimeTerminal
      <4>1. ended[e.boot] = e.state /\ ended[e.boot] \in {"no"} \cup RuntimeTerminal
        BY <2>1, <2>4 DEF MessagesTrue, JobTypeOK, AgentTypeOK
      <4> QED
        BY <4>1, <2>1, <1>0
    <3> QED
      BY <2>1, <2>4, <3>1, <1>0 DEF RecordResult, Newer, RowStays, Reported
  <2> QED
    BY <1>3, <2>2, <2>3, <2>4 DEF EventWritten
<1>4. ASSUME NEW c \in Caller, CallPrepares(c) PROVE RowStays \/ Created
  BY <1>4 DEF CallPrepares, Create, RowStays, Created
<1>5. ASSUME NEW c \in Caller, CallBinds(c) PROVE RowStays \/ BoundByCall(c)
  BY <1>5 DEF CallBinds, At, BindToBoot, Bindable, RowStays, BoundByCall
<1>6. ASSUME NEW c \in Caller, CallRequestsCancel(c) \/ CallDeadline(c)
      PROVE  RowStays \/ ChangedByCall(c)
  BY <1>6 DEF CallRequestsCancel, CallDeadline, At, RequestCancel, MarkDeadlineUnknown, RowStays,
     ChangedByCall, Open, Terminal
<1>7. ASSUME NEW c \in Caller, NEW r \in replies, CallStarted(c, r)
      PROVE  RowStays \/ Refused(c, r) \/ (r.ok /\ Reported(r))
  <2>1. CASE UNCHANGED row
    BY <2>1 DEF row, RowStays
  <2>2. CASE ~r.ok /\ r.boot = callBoot[c] /\ RecordRejected(r.boot)
    BY <1>7, <2>2 DEF CallStarted, At, RecordRejected, Refused
  <2>3. CASE r.ok /\ RecordStarted(r.boot)
    BY <2>3, <1>0 DEF RecordStarted, RowStays, Reported, Open
  <2> QED
    BY <1>7, <2>1, <2>2, <2>3 DEF CallStarted
<1>8. ASSUME NEW c \in Caller, NEW r \in replies, CallStatus(c, r)
      PROVE  RowStays \/ (r.ok /\ Reported(r))
  <2>1. /\ r.boot \in Boot /\ r.seq \in Nat
        /\ r.state \in RuntimeActive \cup RuntimeTerminal
    BY DEF JobTypeOK, RelayTypeOK, Reply
  <2>2. CASE UNCHANGED row
    BY <2>2 DEF row, RowStays
  <2>3. CASE RecordStatus(r) /\ r.ok /\ r.state \in RuntimeTerminal
    <3>1. ended[r.boot] = r.state
      BY <2>3 DEF MessagesTrue
    <3> QED
      BY <2>1, <2>3, <3>1, <1>0 DEF RecordStatus, RecordResult, Newer, RowStays, Reported
  <2>4. CASE RecordStatus(r) /\ ~(r.ok /\ r.state \in RuntimeTerminal)
    BY <2>1, <2>4, <1>0 DEF RecordStatus, RowStays, Reported
  <2> QED
    BY <1>8, <2>2, <2>3, <2>4 DEF CallStatus
<1>9. ASSUME NEW c \in Caller, NEW r \in replies, CallCancelled(c, r) PROVE RowStays
  BY <1>9 DEF CallCancelled, RecordCancelOutcome, RowStays
<1>10. ASSUME NEW c \in Caller,
              \/ RunAgentJob(c) \/ CallReadsBoot(c) \/ CallSendsStart(c) \/ CallSeesEnd(c)
              \/ CallSendsCancel(c) \/ CallQueriesStatus(c) \/ CallTimesOut(c)
       PROVE  RowStays
  BY <1>10 DEF RunAgentJob, CallReadsBoot, CallSendsStart, CallSeesEnd, CallSendsCancel,
     CallQueriesStatus, CallTimesOut, row, RowStays
<1>11. CASE \/ AgentConnects \/ AgentDisconnects \/ (\E e \in events : EventArrives(e))
            \/ ApiRestart \/ DeadlinePasses \/ UNCHANGED vars
  BY <1>1, <1>11 DEF AgentConnects, AgentDisconnects, EventArrives, ApiRestart, DeadlinePasses,
     row, vars, RowStays
<1>12. ASSUME NEW c \in Caller, CallStep(c) PROVE RowMove
  BY <1>4, <1>5, <1>6, <1>7, <1>8, <1>9, <1>10, <1>12 DEF CallStep, RowMove
<1> QED
  BY <1>2, <1>3, <1>11, <1>12 DEF Next, RelayStep, RowMove

-----------------------------------------------------------------------------
\* Only a step of the agent refuses a START, and it forgets no refusal.
LEMMA RefusedGrows ==
    ASSUME [Next]_vars
    PROVE  /\ refused \subseteq refused'
           /\ ~AgentStep => refused' = refused
<1> USE DEF history
<1>1. AgentStep => refused \subseteq refused'
  BY DEF AgentStep, AgentReplaysStart, AgentRejectsStart, AgentAcceptsStart, AgentDropsStart,
     AgentReportsStatus, AgentCancels, HandlerEnds, AgentDeadline, AgentHeartbeat, AgentRestart
<1>2. ~AgentStep => refused' = refused
  BY DEF Next, RelayStep, CallStep, AgentConnects, AgentDisconnects, Fence, EventArrives,
     EventWritten, RunAgentJob, CallReadsBoot, CallPrepares, CallBinds, CallSendsStart,
     CallSeesEnd, CallRequestsCancel, CallSendsCancel, CallQueriesStatus, CallTimesOut,
     CallDeadline, CallStarted, CallCancelled, CallStatus, ApiRestart, DeadlinePasses,
     CallUnchanged, vars
<1> QED
  BY <1>1, <1>2

\* An answer, if anybody waits for it, belongs to its request and carries the
\* verdict and the boot.
LEMMA AnswerAdds ==
    ASSUME NEW ok, NEW seq, NEW st, NEW outcome, Answer(ok, seq, st, outcome)
    PROVE  \A r \in replies' : \/ r \in replies
                               \/ r.kind = Head(requests).kind /\ r.boot = boot /\ r.ok = ok
<1> DEFINE t == [to |-> Head(requests).to, kind |-> Head(requests).kind, ok |-> ok,
                 boot |-> boot, seq |-> seq, state |-> st, outcome |-> outcome]
<1>1. t.kind = Head(requests).kind /\ t.boot = boot /\ t.ok = ok
  OBVIOUS
<1>2. replies' = IF Head(requests).to = NoOne THEN replies ELSE replies \cup {t}
  BY DEF Answer
<1> HIDE DEF t
<1> QED
  BY <1>1, <1>2

\* Every refusal that the agent sends is recorded.
LEMMA AgentRefuses ==
    ASSUME RefusalsTrue, AgentStep, [Next]_vars
    PROVE  RefusalsTrue'
<1>0. refused \subseteq refused'
  BY RefusedGrows
<1> SUFFICES ASSUME NEW r \in replies', r \notin replies, r.kind = "START", ~r.ok
             PROVE  r.boot \in refused'
  BY <1>0 DEF RefusalsTrue
<1>1. CASE AgentRejectsStart
  BY <1>1, AnswerAdds DEF AgentRejectsStart
<1>2. CASE AgentReplaysStart
  BY <1>2, AnswerAdds DEF AgentReplaysStart
<1>3. CASE AgentAcceptsStart
  BY <1>3, AnswerAdds DEF AgentAcceptsStart
<1>4. CASE AgentReportsStatus
  <2>1. r.kind = Head(requests).kind /\ Head(requests).kind = "STATUS"
    BY <1>4, AnswerAdds DEF AgentReportsStatus, Asked
  <2> QED
    BY <2>1
<1>5. CASE AgentCancels
  <2> DEFINE outcome == IF jobState = "NONE" THEN "NOT_FOUND"
                      ELSE IF jobState \in RuntimeTerminal THEN "ALREADY_TERMINAL"
                      ELSE IF safe THEN "REQUESTED" ELSE "NOT_CANCELLABLE"
             ok == outcome \in {"ALREADY_TERMINAL", "REQUESTED"}
  <2>1. Answer(ok, 0, "RUNNING", outcome) /\ Head(requests).kind = "CANCEL"
    BY <1>5 DEF AgentCancels, Asked
  <2> HIDE DEF outcome, ok
  <2>2. r.kind = Head(requests).kind
    BY <2>1, AnswerAdds
  <2> QED
    BY <2>1, <2>2
<1>6. CASE \/ AgentDropsStart \/ (\E st \in RuntimeTerminal : HandlerEnds(st))
           \/ AgentDeadline \/ AgentHeartbeat \/ AgentRestart
  BY <1>6 DEF AgentDropsStart, HandlerEnds, AgentDeadline, AgentHeartbeat, AgentRestart, channel
<1> QED
  BY <1>1, <1>2, <1>3, <1>4, <1>5, <1>6 DEF AgentStep

\* The row's failure stays explained by the handler's end or by a refusal.
LEMMA CallerStep ==
    CallerInv /\ [Next]_vars => CallerInv'
<1> SUFFICES ASSUME CallerInv, [Next]_vars PROVE CallerInv'
  OBVIOUS
<1>1. TruthInv'
  BY TruthStep DEF CallerInv
<1>2. /\ refused \subseteq refused'
      /\ \A b \in Boot : ended[b] # "no" => ended'[b] = ended[b]
      /\ boundTo \in Boot \cup {NoOne}
  BY RefusedGrows, EndedStable DEF CallerInv, TruthInv, JobTypeOK, RowTypeOK
<1>3. CASE AgentStep
  <2>1. RefusalsTrue'
    BY <1>3, AgentRefuses DEF CallerInv
  <2>2. UNCHANGED <<state, boundTo>>
    BY <1>3, AgentLeavesRow DEF row
  <2>3. FailureIsTrue'
    BY <1>2, <2>2 DEF CallerInv, FailureIsTrue
  <2> QED
    BY <1>1, <2>1, <2>3 DEF CallerInv
<1>4. CASE ~AgentStep
  <2>1. /\ UNCHANGED <<ended, refused>> /\ replies' \subseteq replies
        /\ RowMove
    BY <1>4, AgentAlone, RefusedGrows, RowMoves DEF CallerInv
  <2>2. RefusalsTrue'
    BY <2>1 DEF CallerInv, RefusalsTrue
  <2>3. FailureIsTrue'
    <3>1. CASE \E c \in Caller, r \in replies : Refused(c, r)
      <4>1. PICK r \in replies : r.kind = "START" /\ ~r.ok /\ boundTo' = r.boot
        BY <3>1 DEF Refused
      <4>2. r.boot \in refused /\ r.boot \in Boot
        BY <4>1 DEF CallerInv, RefusalsTrue, TruthInv, JobTypeOK, RelayTypeOK, Reply
      <4> QED
        BY <2>1, <4>1, <4>2 DEF FailureIsTrue, Boot, NoOne
    <3>2. CASE \/ (\E m \in writes : Reported(m)) \/ (\E m \in replies : m.ok /\ Reported(m))
      <4>1. PICK m \in writes \cup replies : Reported(m)
        BY <3>2
      <4>2. boundTo \in Boot
        BY <4>1 DEF Reported, CallerInv, TruthInv, JobTypeOK, RelayTypeOK, Reply, Event
      <4> QED
        BY <2>1, <4>1, <4>2 DEF Reported, FailureIsTrue, Open, Boot, NoOne
    <3>3. CASE RowStays \/ Created \/ Fenced
      BY <2>1, <3>3 DEF RowStays, Created, Fenced, CallerInv, FailureIsTrue
    <3>4. ASSUME NEW c \in Caller, BoundByCall(c) \/ ChangedByCall(c) PROVE FailureIsTrue'
      BY <2>1, <3>4 DEF BoundByCall, ChangedByCall, CallerInv, FailureIsTrue, Terminal
    <3> QED
      BY <2>1, <3>1, <3>2, <3>3, <3>4 DEF RowMove
  <2> QED
    BY <1>1, <2>2, <2>3 DEF CallerInv
<1> QED
  BY <1>3, <1>4

\* It holds before the first call.
LEMMA CallerInit ==
    Init => CallerInv
<1>1. Init => RefusalsTrue /\ FailureIsTrue
  BY DEF Init, RefusalsTrue, FailureIsTrue
<1> QED
  BY <1>1, TruthInit DEF CallerInv

\* A row that reports how the job ended is bound to no process that is still
\* at work on it, whatever calls overlap; only a process that refused one
\* START before it accepted another leaves FAILED on a running job.
THEOREM DecidedIsStopped == Spec => []DecidedMeansStopped
<1>1. CallerInv => DecidedMeansStopped
  <2> SUFFICES ASSUME CallerInv, state \in {"SUCCEEDED", "FAILED", "CANCELLED"},
                      boundTo = boot, jobState \in RuntimeActive
               PROVE  state = "FAILED" /\ boot \in refused
    BY DEF DecidedMeansStopped
  <2>1. ended[boot] = "no"
    BY DEF CallerInv, TruthInv, EndsOnce, RuntimeActive, RuntimeTerminal
  <2> QED
    BY <2>1 DEF CallerInv, TruthInv, ResultIsTrue, FailureIsTrue
<1> QED
  BY <1>1, CallerInit, CallerStep, PTL DEF Spec

\* What one step does to the row's sequence, boot and decision.
LEMMA RowForward ==
    ASSUME CallerInv, [Next]_vars
    PROVE  /\ sequence' >= sequence
           /\ boundTo # NoOne /\ boundTo' # boundTo
                => state' = "FAILED" /\ boundTo' \in refused
           /\ state \in Terminal /\ state' # state
                => state' = "FAILED" /\ boundTo' \in refused
<1>0. sequence \in Nat
  BY DEF CallerInv, TruthInv, JobTypeOK, RowTypeOK
<1>1. CASE AgentStep
  BY <1>0, <1>1, AgentLeavesRow DEF row
<1>2. CASE ~AgentStep
  <2>1. RowMove
    BY <1>2, RowMoves DEF CallerInv
  <2>2. CASE RowStays \/ Created \/ Fenced
    BY <1>0, <2>2 DEF RowStays, Created, Fenced, Terminal, RuntimeActive
  <2>3. ASSUME NEW c \in Caller, BoundByCall(c) \/ ChangedByCall(c)
        PROVE  /\ sequence' >= sequence /\ (boundTo # NoOne => boundTo' = boundTo)
               /\ state \notin Terminal
    BY <1>0, <2>3 DEF BoundByCall, ChangedByCall, Terminal
  <2>4. CASE \E c \in Caller, r \in replies : Refused(c, r)
    BY <1>0, <2>4 DEF Refused, CallerInv, RefusalsTrue
  <2>5. CASE \/ (\E m \in writes : Reported(m)) \/ (\E m \in replies : m.ok /\ Reported(m))
    BY <2>5 DEF Reported, Open, Terminal
  <2> QED
    BY <2>1, <2>2, <2>3, <2>4, <2>5 DEF RowMove
<1> QED
  BY <1>1, <1>2

\* The row only moves forward, whatever calls overlap and whatever is late,
\* lost or repeated; only a refusal of the job replaces a boot or a decision.
THEOREM RowsMoveForward == Spec => RowMovesForward
<1>1. CallerInv /\ [Next]_vars =>
        [/\ sequence' >= sequence
         /\ boundTo # NoOne /\ boundTo' # boundTo
              => state' = "FAILED" /\ boundTo' \in refused
         /\ state \in Terminal /\ state' # state
              => state' = "FAILED" /\ boundTo' \in refused]_vars
  BY RowForward
<1> QED
  BY <1>1, CallerInit, CallerStep, PTL DEF Spec, RowMovesForward

=============================================================================
