---------------------------- MODULE AgentJobProofs ----------------------------
(***************************************************************************)
(* Proofs about one agent job, for every set of callers and every bound:   *)
(* the types, then what the row may say of the handler (ResultIsTrue) and  *)
(* that a lost result can still be recorded (LostResultRecoverable).       *)
(***************************************************************************)
EXTENDS AgentJob, SequenceTheorems, TLAPS

\* The four type groups are preserved one by one; each lemma splits Next into
\* the statements that touch its variables.

\* Fewer callers waiting for an answer leave a queue of requests.
LEMMA UnheardType ==
    ASSUME NEW s \in Seq(Request), NEW lost
    PROVE  Unheard(s, lost) \in Seq(Request)
<1> DEFINE f == Unheard(s, lost)
<1>1. DOMAIN s = 1..Len(s) /\ \A i \in DOMAIN s : s[i] \in Request
  OBVIOUS
<1>2. \A r \in Request : [kind |-> r.kind, to |-> NoOne] \in Request
  BY DEF Request
<1>3. f \in [1..Len(s) -> Request]
  BY <1>1, <1>2, Zenon DEF Unheard
<1>4. Len(s) \in Nat
  OBVIOUS
<1> QED
  BY <1>3, <1>4, SeqDef

\* What the head of the queue asks for, once taken and answered, leaves a
\* queue of requests and well-formed replies.
LEMMA AnswerType ==
    ASSUME JobTypeOK, requests # <<>>,
           NEW ok \in BOOLEAN, NEW seq \in Nat,
           NEW st \in RuntimeActive \cup RuntimeTerminal,
           NEW outcome \in {"none", "NOT_FOUND", "ALREADY_TERMINAL",
                            "NOT_CANCELLABLE", "REQUESTED"},
           Answer(ok, seq, st, outcome)
    PROVE  requests' \in Seq(Request) /\ replies' \subseteq Reply
<1>1. Head(requests) \in Request /\ Tail(requests) \in Seq(Request)
  BY DEF JobTypeOK, RelayTypeOK
<1>2. CASE Head(requests).to = NoOne
  BY <1>1, <1>2 DEF Answer, JobTypeOK, RelayTypeOK
<1>3. CASE Head(requests).to # NoOne
  <2>1. Head(requests).to \in Caller
    BY <1>1, <1>3 DEF Request
  <2>2. [to |-> Head(requests).to, kind |-> Head(requests).kind, ok |-> ok, boot |-> boot,
         seq |-> seq, state |-> st, outcome |-> outcome] \in Reply
    BY <1>1, <2>1 DEF Reply, Request, JobTypeOK, AgentTypeOK
  <2> QED
    BY <1>1, <1>3, <2>2 DEF Answer, JobTypeOK, RelayTypeOK
<1> QED
  BY <1>2, <1>3

\* Every step of the agent process keeps the types.
LEMMA AgentStepType ==
    JobTypeOK /\ AgentStep => JobTypeOK'
<1> SUFFICES ASSUME JobTypeOK, AgentStep PROVE JobTypeOK'
  OBVIOUS
<1> USE BoundsAssumption
<1>1. CASE AgentReplaysStart
  <2>1. requests' \in Seq(Request) /\ replies' \subseteq Reply
    BY <1>1, AnswerType DEF AgentReplaysStart, Asked, RuntimeActive
  <2>2. events' \subseteq Event /\ jobSeq' \in Nat
    BY <1>1 DEF AgentReplaysStart, EmitResult, Emit, Event, JobTypeOK, AgentTypeOK, RelayTypeOK
  <2> QED
    BY <1>1, <2>1, <2>2 DEF AgentReplaysStart, AgentUnchanged, row, relay, callers, history,
       JobTypeOK, RowTypeOK, AgentTypeOK, RelayTypeOK, CallTypeOK
<1>2. CASE AgentRejectsStart
  <2>1. requests' \in Seq(Request) /\ replies' \subseteq Reply
    BY <1>2, AnswerType DEF AgentRejectsStart, Asked, RuntimeActive
  <2> QED
    BY <1>2, <2>1 DEF AgentRejectsStart, AgentUnchanged, row, agent, relay, callers, history,
       JobTypeOK, RowTypeOK, AgentTypeOK, RelayTypeOK, CallTypeOK
<1>3. CASE AgentAcceptsStart
  <2>1. requests' \in Seq(Request) /\ replies' \subseteq Reply
    BY <1>3, AnswerType DEF AgentAcceptsStart, Asked, RuntimeActive
  <2>2. events' \subseteq Event /\ jobState' \in RuntimeActive
    BY <1>3 DEF AgentAcceptsStart, Emit, Event, JobTypeOK, AgentTypeOK, RelayTypeOK, RuntimeActive
  <2> QED
    BY <1>3, <2>1, <2>2 DEF AgentAcceptsStart, AgentUnchanged, row, relay, callers,
       JobTypeOK, RowTypeOK, AgentTypeOK, RelayTypeOK, CallTypeOK
<1>4. CASE AgentDropsStart
  BY <1>4 DEF AgentDropsStart, Asked, AgentUnchanged, row, agent, relay, callers, history,
       JobTypeOK, RowTypeOK, AgentTypeOK, RelayTypeOK, CallTypeOK
<1>5. CASE AgentReportsStatus
  <2>1. requests' \in Seq(Request) /\ replies' \subseteq Reply
    <3>1. CASE jobState = "NONE"
      BY <1>5, <3>1, AnswerType DEF AgentReportsStatus, Asked, RuntimeActive
    <3>2. CASE jobState # "NONE"
      <4>1. jobState \in RuntimeActive \cup RuntimeTerminal /\ jobSeq \in Nat
        BY <3>2 DEF JobTypeOK, AgentTypeOK
      <4> QED
        BY <1>5, <3>2, <4>1, AnswerType DEF AgentReportsStatus, Asked
    <3> QED
      BY <3>1, <3>2
  <2> QED
    BY <1>5, <2>1 DEF AgentReportsStatus, AgentUnchanged, row, agent, relay, callers, history,
       JobTypeOK, RowTypeOK, AgentTypeOK, RelayTypeOK, CallTypeOK
<1>6. CASE AgentCancels
  <2> DEFINE outcome == IF jobState = "NONE" THEN "NOT_FOUND"
                      ELSE IF jobState \in RuntimeTerminal THEN "ALREADY_TERMINAL"
                      ELSE IF safe THEN "REQUESTED" ELSE "NOT_CANCELLABLE"
             ok == outcome \in {"ALREADY_TERMINAL", "REQUESTED"}
  <2>1. Answer(ok, 0, "RUNNING", outcome) /\ requests # <<>>
    BY <1>6 DEF AgentCancels, Asked
  <2>2. /\ outcome \in {"none", "NOT_FOUND", "ALREADY_TERMINAL",
                        "NOT_CANCELLABLE", "REQUESTED"}
        /\ ok \in BOOLEAN /\ "RUNNING" \in RuntimeActive \cup RuntimeTerminal
    BY DEF RuntimeActive
  <2>3. requests' \in Seq(Request) /\ replies' \subseteq Reply
    <3> HIDE DEF outcome, ok
    <3> QED
      BY <2>1, <2>2, AnswerType
  <2>4. jobState' \in {"NONE"} \cup RuntimeActive \cup RuntimeTerminal
    BY <1>6 DEF AgentCancels, RuntimeActive, JobTypeOK, AgentTypeOK
  <2> QED
    BY <1>6, <2>3, <2>4 DEF AgentCancels, AgentUnchanged, row, relay, callers, history,
       JobTypeOK, RowTypeOK, AgentTypeOK, RelayTypeOK, CallTypeOK
<1>7. ASSUME NEW st \in RuntimeTerminal, HandlerEnds(st) PROVE JobTypeOK'
  <2>1. events' \subseteq Event /\ jobSeq' \in Nat /\ ended' \in [Boot -> {"no"} \cup RuntimeTerminal]
    BY <1>7 DEF HandlerEnds, EmitResult, Emit, Event, JobTypeOK, AgentTypeOK, RelayTypeOK
  <2> QED
    BY <1>7, <2>1 DEF HandlerEnds, AgentUnchanged, row, relay, callers,
       JobTypeOK, RowTypeOK, AgentTypeOK, RelayTypeOK, CallTypeOK
<1>8. CASE AgentDeadline
  BY <1>8 DEF AgentDeadline, AgentUnchanged, row, relay, callers, channel, history, RuntimeActive,
       JobTypeOK, RowTypeOK, AgentTypeOK, RelayTypeOK, CallTypeOK
<1>9. CASE AgentHeartbeat
  <2>1. events' \subseteq Event /\ jobSeq' \in Nat /\ beats' \in 0..MaxBeats
    BY <1>9 DEF AgentHeartbeat, Emit, Event, RuntimeActive, JobTypeOK, AgentTypeOK, RelayTypeOK
  <2> QED
    BY <1>9, <2>1 DEF AgentHeartbeat, AgentUnchanged, row, relay, callers, history,
       JobTypeOK, RowTypeOK, AgentTypeOK, RelayTypeOK, CallTypeOK
<1>10. CASE AgentRestart
  <2>1. boot' \in Boot
    BY <1>10 DEF AgentRestart, Boot, JobTypeOK, AgentTypeOK
  <2>2. events' \subseteq Event /\ requests' \in Seq(Request)
    BY <1>10 DEF AgentRestart
  <2> QED
    BY <1>10, <2>1, <2>2 DEF AgentRestart, AgentUnchanged, row, relay, callers, history,
       JobTypeOK, RowTypeOK, AgentTypeOK, RelayTypeOK, CallTypeOK
<1> QED
  BY <1>1, <1>2, <1>3, <1>4, <1>5, <1>6, <1>7, <1>8, <1>9, <1>10 DEF AgentStep

\* Every statement of AgentJobService keeps the row's types.
LEMMA RowType ==
    ASSUME JobTypeOK, safe' = safe,
           \/ Create \/ RequestCancel \/ MarkDeadlineUnknown
           \/ \E b \in Boot : \/ BindToBoot(b) \/ RecordRejected(b) \/ RecordStarted(b)
                              \/ MarkInterruptedByNewBoot(b)
           \/ \E b \in Boot, n \in Nat : RecordHeartbeat(b, n)
           \/ \E b \in Boot, n \in Nat, st \in RuntimeTerminal : RecordResult(b, n, st)
           \/ \E r \in Reply : RecordStatus(r) \/ RecordCancelOutcome(r.outcome)
    PROVE  RowTypeOK'
<1> USE DEF JobTypeOK, RowTypeOK, Open, Terminal, RuntimeActive, RuntimeTerminal
<1>1. CASE Create \/ RequestCancel \/ MarkDeadlineUnknown
  BY <1>1 DEF Create, RequestCancel, MarkDeadlineUnknown
<1>2. ASSUME NEW b \in Boot, \/ BindToBoot(b) \/ RecordRejected(b) \/ RecordStarted(b)
                             \/ MarkInterruptedByNewBoot(b)
      PROVE  RowTypeOK'
  BY <1>2 DEF BindToBoot, RecordRejected, RecordStarted, MarkInterruptedByNewBoot
<1>3. ASSUME NEW b \in Boot, NEW n \in Nat, RecordHeartbeat(b, n) PROVE RowTypeOK'
  BY <1>3 DEF RecordHeartbeat
<1>4. ASSUME NEW b \in Boot, NEW n \in Nat, NEW st \in RuntimeTerminal, RecordResult(b, n, st)
      PROVE  RowTypeOK'
  BY <1>4 DEF RecordResult
<1>5. ASSUME NEW r \in Reply, RecordStatus(r) PROVE RowTypeOK'
  <2>1. r.boot \in Boot /\ r.seq \in Nat /\ r.state \in RuntimeActive \cup RuntimeTerminal
    BY DEF Reply
  <2> QED
    BY <1>4, <1>5, <2>1 DEF RecordStatus
<1>6. ASSUME NEW r \in Reply, RecordCancelOutcome(r.outcome) PROVE RowTypeOK'
  BY <1>6 DEF RecordCancelOutcome, Reply
<1> QED
  BY <1>1, <1>2, <1>3, <1>4, <1>5, <1>6

\* Every step of the relay keeps the types.
LEMMA RelayStepType ==
    JobTypeOK /\ RelayStep => JobTypeOK'
<1> SUFFICES ASSUME JobTypeOK, RelayStep PROVE JobTypeOK'
  OBVIOUS
<1> USE BoundsAssumption
<1>1. CASE AgentConnects \/ AgentDisconnects
  <2>1. requests' \in Seq(Request)
    BY <1>1, UnheardType DEF AgentConnects, AgentDisconnects, JobTypeOK, RelayTypeOK
  <2>2. link' \in Boot \cup {NoOne} /\ fences' \subseteq Boot /\ drops' \in 0..MaxDrops
    BY <1>1 DEF AgentConnects, AgentDisconnects, JobTypeOK, RelayTypeOK, AgentTypeOK
  <2> QED
    BY <1>1, <2>1, <2>2 DEF AgentConnects, AgentDisconnects, row, agent, callers, history,
       JobTypeOK, RowTypeOK, AgentTypeOK, RelayTypeOK, CallTypeOK
<1>2. ASSUME NEW b \in fences, Fence(b) PROVE JobTypeOK'
  <2>1. RowTypeOK'
    BY <1>2, RowType DEF Fence, JobTypeOK, RelayTypeOK
  <2> QED
    BY <1>2, <2>1 DEF Fence, agent, channel, callers, history,
       JobTypeOK, AgentTypeOK, RelayTypeOK, CallTypeOK
<1>3. ASSUME NEW e \in events, EventArrives(e) PROVE JobTypeOK'
  BY <1>3 DEF EventArrives, row, agent, callers, history,
       JobTypeOK, RowTypeOK, AgentTypeOK, RelayTypeOK, CallTypeOK
<1>4. ASSUME NEW e \in writes, EventWritten(e) PROVE JobTypeOK'
  <2>1. /\ e.boot \in Boot /\ e.seq \in Nat
        /\ e.state \in RuntimeActive \cup RuntimeTerminal
    BY DEF Event, JobTypeOK, RelayTypeOK
  <2>2. RowTypeOK'
    <3>1. CASE e.kind # "RESULT"
      BY <1>4, <2>1, <3>1, RowType DEF EventWritten
    <3>2. CASE e.kind = "RESULT"
      BY <1>4, <2>1, <3>2 DEF EventWritten, RecordResult, JobTypeOK, RowTypeOK, Open,
         RuntimeActive, RuntimeTerminal, Terminal
    <3> QED
      BY <3>1, <3>2
  <2> QED
    BY <1>4, <2>2 DEF EventWritten, agent, channel, callers, history,
       JobTypeOK, AgentTypeOK, RelayTypeOK, CallTypeOK
<1> QED
  BY <1>1, <1>2, <1>3, <1>4 DEF RelayStep

\* A call that moves on, or ends, keeps the types of the calls.
LEMMA MoveType ==
    ASSUME JobTypeOK, NEW c \in Caller,
           \/ Returns(c)
           \/ \E pc \in {"idle", "fence", "prepare", "bind", "start", "loop",
                         "cancel"} \cup Waiting : MovesTo(c, pc)
    PROVE  CallTypeOK'
  BY DEF Returns, MovesTo, JobTypeOK, CallTypeOK

\* A packet sent joins the queue.
LEMMA SendType ==
    ASSUME JobTypeOK, NEW c \in Caller, NEW kind \in {"START", "CANCEL", "STATUS"},
           Send(c, kind)
    PROVE  requests' \in Seq(Request)
<1>1. [kind |-> kind, to |-> c] \in Request
  BY DEF Request
<1> QED
  BY <1>1 DEF Send, JobTypeOK, RelayTypeOK

\* Every step of a call keeps the types.
LEMMA CallStepType ==
    ASSUME JobTypeOK, NEW c \in Caller, CallStep(c)
    PROVE  JobTypeOK'
<1> USE BoundsAssumption
<1>0. (CallUnchanged /\ RowTypeOK' /\ CallTypeOK' /\ requests' \in Seq(Request)
        /\ replies' \subseteq Reply /\ events' \subseteq Event) => JobTypeOK'
  BY DEF CallUnchanged, agent, relay, history, JobTypeOK, AgentTypeOK, RelayTypeOK
<1>a. UNCHANGED row => RowTypeOK'
  BY DEF row, JobTypeOK, RowTypeOK
<1>b. UNCHANGED channel => requests' \in Seq(Request) /\ replies' \subseteq Reply
                           /\ events' \subseteq Event
  BY DEF channel, JobTypeOK, RelayTypeOK
<1>c. callBoot[c] \in Boot \cup {NoOne} /\ link \in Boot \cup {NoOne} /\ boundTo \in Boot \cup {NoOne}
  BY DEF JobTypeOK, CallTypeOK, RelayTypeOK, RowTypeOK
<1>1. CASE RunAgentJob(c)
  <2>1. CallTypeOK'
    BY <1>1, <1>c DEF RunAgentJob, JobTypeOK, CallTypeOK
  <2> QED
    BY <1>1, <2>1, <1>0, <1>a, <1>b DEF RunAgentJob
<1>2. CASE CallReadsBoot(c)
  <2>1. CallTypeOK'
    BY <1>2, <1>c, MoveType DEF CallReadsBoot, JobTypeOK, CallTypeOK
  <2> QED
    BY <1>2, <2>1, <1>0, <1>a, <1>b DEF CallReadsBoot
<1>3. CASE CallPrepares(c)
  <2>1. RowTypeOK' /\ CallTypeOK'
    BY <1>3, MoveType, RowType DEF CallPrepares
  <2> QED
    BY <1>3, <2>1, <1>0, <1>b DEF CallPrepares
<1>4. CASE CallBinds(c)
  <2>1. RowTypeOK'
    BY <1>4, <1>c DEF CallBinds, BindToBoot, JobTypeOK, RowTypeOK
  <2>2. CallTypeOK'
    BY <1>4, MoveType DEF CallBinds
  <2> QED
    BY <1>4, <2>1, <2>2, <1>0, <1>b DEF CallBinds
<1>5. CASE CallSendsStart(c) \/ CallSendsCancel(c) \/ CallQueriesStatus(c)
  <2>1. CallTypeOK'
    BY <1>5, MoveType DEF CallSendsStart, CallSendsCancel, CallQueriesStatus, Waiting
  <2>2. requests' \in Seq(Request)
    BY <1>5, <1>b, SendType DEF CallSendsStart, CallSendsCancel, CallQueriesStatus
  <2>3. replies' \subseteq Reply /\ events' \subseteq Event
    BY <1>5, <1>b DEF CallSendsStart, CallSendsCancel, CallQueriesStatus, JobTypeOK, RelayTypeOK
  <2> QED
    BY <1>5, <2>1, <2>2, <2>3, <1>0, <1>a DEF CallSendsStart, CallSendsCancel, CallQueriesStatus
<1>6. CASE CallSeesEnd(c)
  BY <1>6, <1>0, <1>a, <1>b, MoveType DEF CallSeesEnd
<1>7. CASE CallRequestsCancel(c)
  <2>1. RowTypeOK'
    BY <1>7, RowType DEF CallRequestsCancel
  <2>2. CallTypeOK'
    BY <1>7 DEF CallRequestsCancel, JobTypeOK, CallTypeOK
  <2> QED
    BY <1>7, <2>1, <2>2, <1>0, <1>b DEF CallRequestsCancel
<1>8. CASE CallTimesOut(c)
  <2>1. requests' \in Seq(Request)
    BY <1>8, UnheardType DEF CallTimesOut, JobTypeOK, RelayTypeOK
  <2>2. replies' \subseteq Reply /\ events' \subseteq Event
    BY <1>8 DEF CallTimesOut, JobTypeOK, RelayTypeOK
  <2> QED
    BY <1>8, <2>1, <2>2, <1>0, <1>a, MoveType DEF CallTimesOut
<1>9. CASE CallDeadline(c)
  BY <1>9, <1>0, <1>b, MoveType, RowType DEF CallDeadline
<1>10. ASSUME NEW r \in replies, CallStarted(c, r) \/ CallCancelled(c, r) \/ CallStatus(c, r)
       PROVE  JobTypeOK'
  <2>1. /\ r \in Reply /\ r.boot \in Boot
        /\ requests' \in Seq(Request) /\ replies' \subseteq Reply /\ events' \subseteq Event
    BY <1>10 DEF CallStarted, CallCancelled, CallStatus, JobTypeOK, RelayTypeOK, Reply
  <2>2. CallTypeOK'
    BY <1>10, MoveType DEF CallStarted, CallCancelled, CallStatus
  <2>3. RowTypeOK'
    BY <1>10, <2>1, <1>a, RowType DEF CallStarted, CallCancelled, CallStatus
  <2> QED
    BY <1>10, <2>1, <2>2, <2>3, <1>0 DEF CallStarted, CallCancelled, CallStatus
<1> QED
  BY <1>1, <1>2, <1>3, <1>4, <1>5, <1>6, <1>7, <1>8, <1>9, <1>10 DEF CallStep

\* Every step keeps the types.
LEMMA JobTypeStep ==
    JobTypeOK /\ [Next]_vars => JobTypeOK'
<1> SUFFICES ASSUME JobTypeOK, [Next]_vars PROVE JobTypeOK'
  OBVIOUS
<1> USE BoundsAssumption
<1>1. CASE ApiRestart
  <2>1. requests' \in Seq(Request)
    BY <1>1, UnheardType DEF ApiRestart, JobTypeOK, RelayTypeOK
  <2>2. CallTypeOK'
    BY <1>1 DEF ApiRestart, JobTypeOK, CallTypeOK
  <2> QED
    BY <1>1, <2>1, <2>2 DEF ApiRestart, row, agent, history,
       JobTypeOK, RowTypeOK, AgentTypeOK, RelayTypeOK
<1>2. CASE DeadlinePasses
  BY <1>2 DEF DeadlinePasses, row, agent, relay, channel, callers, history,
       JobTypeOK, RowTypeOK, AgentTypeOK, RelayTypeOK, CallTypeOK
<1>3. CASE UNCHANGED vars
  BY <1>3 DEF vars, row, agent, relay, channel, callers, history,
       JobTypeOK, RowTypeOK, AgentTypeOK, RelayTypeOK, CallTypeOK
<1> QED
  BY <1>1, <1>2, <1>3, AgentStepType, RelayStepType, CallStepType DEF Next

\* The initial state has the types.
LEMMA InitTyped ==
    Init => JobTypeOK
<1> SUFFICES ASSUME Init PROVE JobTypeOK
  OBVIOUS
<1> USE BoundsAssumption DEF Init
<1>1. RowTypeOK
  BY DEF RowTypeOK
<1>2. AgentTypeOK
  <2>1. 1 \in Boot /\ 0 \in 0..MaxBeats
    BY DEF Boot
  <2>2. ended \in [Boot -> {"no"} \cup RuntimeTerminal]
    OBVIOUS
  <2> QED
    BY <2>1, <2>2 DEF AgentTypeOK
<1>3. RelayTypeOK
  BY DEF RelayTypeOK
<1>4. CallTypeOK
  BY DEF CallTypeOK
<1> QED
  BY <1>1, <1>2, <1>3, <1>4 DEF JobTypeOK

\* Every variable of the job protocol has its type, whatever the callers, the
\* restarts and the order of the messages.
THEOREM JobTypeCorrectness == Spec => []JobTypeOK
  BY InitTyped, JobTypeStep, PTL DEF Spec

-----------------------------------------------------------------------------
(***************************************************************************)
(* What the messages in flight say of the handler.                         *)
(*                                                                         *)
(* ResultIsTrue is not inductive: it needs that every result event, every  *)
(* pending write of one and every status answer tells how the handler of   *)
(* the boot it names ended, and that this is never overwritten.            *)
(***************************************************************************)

\* The runtime's record and the history agree, and no later boot has run.
EndsOnce ==
    /\ jobState \in RuntimeTerminal => ended[boot] = jobState
    /\ jobState \notin RuntimeTerminal => ended[boot] = "no"
    /\ \A b \in Boot : b > boot => ended[b] = "no"

\* Results in flight are true.
MessagesTrue ==
    /\ \A e \in events \cup writes : e.kind = "RESULT" => ended[e.boot] = e.state
    /\ \A r \in replies : r.state \in RuntimeTerminal => ended[r.boot] = r.state

\* The inductive invariant behind ResultIsTrue.
TruthInv == JobTypeOK /\ EndsOnce /\ MessagesTrue /\ ResultIsTrue

\* How a handler ended is written once, by a step of the agent.
LEMMA EndedStable ==
    ASSUME JobTypeOK, EndsOnce, [Next]_vars
    PROVE  \A b \in Boot : ended[b] # "no" => ended'[b] = ended[b]
<1>1. CASE \E st \in RuntimeTerminal : HandlerEnds(st)
  <2>1. PICK st \in RuntimeTerminal : HandlerEnds(st)
    BY <1>1
  <2>2. ended[boot] = "no" /\ ended' = [ended EXCEPT ![boot] = st]
    BY <2>1 DEF HandlerEnds, EndsOnce, RuntimeActive, RuntimeTerminal
  <2> QED
    BY <2>2 DEF JobTypeOK, AgentTypeOK
<1>2. CASE ~\E st \in RuntimeTerminal : HandlerEnds(st)
  <2>1. ended' = ended
    BY <1>2 DEF Next, AgentStep, RelayStep, CallStep, AgentReplaysStart, AgentRejectsStart,
       AgentAcceptsStart, AgentDropsStart, AgentReportsStatus, AgentCancels, AgentDeadline,
       AgentHeartbeat, AgentRestart, AgentConnects, AgentDisconnects, Fence, EventArrives,
       EventWritten, RunAgentJob, CallReadsBoot, CallPrepares, CallBinds, CallSendsStart,
       CallSeesEnd, CallRequestsCancel, CallSendsCancel, CallQueriesStatus, CallTimesOut,
       CallDeadline, CallStarted, CallCancelled, CallStatus, ApiRestart, DeadlinePasses,
       CallUnchanged, history, vars
  <2> QED
    BY <2>1
<1> QED
  BY <1>1, <1>2

\* Only the agent changes its own state, and what is in flight only grows by
\* what it sends.
LEMMA AgentAlone ==
    ASSUME [Next]_vars, ~AgentStep
    PROVE  /\ UNCHANGED <<boot, jobState, jobSeq, ended>>
           /\ events' \subseteq events
           /\ writes' \subseteq writes \cup events
           /\ replies' \subseteq replies
<1> USE DEF agent, relay, channel, callers, history
<1>1. CASE RelayStep
  BY <1>1 DEF RelayStep, AgentConnects, AgentDisconnects, Fence, EventArrives, EventWritten
<1>2. ASSUME NEW c \in Caller, CallStep(c)
      PROVE  /\ UNCHANGED <<boot, jobState, jobSeq, ended, events, writes>>
             /\ replies' \subseteq replies
  BY <1>2 DEF CallStep, RunAgentJob, CallReadsBoot, CallPrepares, CallBinds, CallSendsStart,
       CallSeesEnd, CallRequestsCancel, CallSendsCancel, CallQueriesStatus, CallTimesOut,
       CallDeadline, CallStarted, CallCancelled, CallStatus, CallUnchanged
<1>3. CASE ApiRestart \/ DeadlinePasses \/ UNCHANGED vars
  BY <1>3 DEF ApiRestart, DeadlinePasses, vars
<1> QED
  BY <1>1, <1>2, <1>3 DEF Next

\* The agent leaves the row alone.
LEMMA AgentLeavesRow ==
    AgentStep => UNCHANGED <<row, relay>>
  BY DEF AgentStep, AgentReplaysStart, AgentRejectsStart, AgentAcceptsStart, AgentDropsStart,
     AgentReportsStatus, AgentCancels, HandlerEnds, AgentDeadline, AgentHeartbeat, AgentRestart,
     AgentUnchanged

\* What an agent step adds to the channel: results and status answers that
\* tell how its own handler has just ended, or had ended before.
LEMMA AgentTellsTruth ==
    ASSUME TruthInv, AgentStep
    PROVE  EndsOnce' /\ MessagesTrue'
<1> USE BoundsAssumption
<1>0. /\ boot \in Boot /\ UNCHANGED <<row, relay>>
      /\ \A b \in Boot : ended[b] # "no" => ended'[b] = ended[b]
      /\ \A e \in events \cup writes : e \in Event
      /\ \A r \in replies : r \in Reply
      /\ "no" \notin RuntimeTerminal
  BY AgentLeavesRow, EndedStable DEF TruthInv, JobTypeOK, AgentTypeOK, RelayTypeOK, Next,
     RuntimeTerminal
<1>1. CASE \E st \in RuntimeTerminal : HandlerEnds(st)
  <2>1. PICK st \in RuntimeTerminal : HandlerEnds(st)
    BY <1>1
  <2>2. /\ ended' = [ended EXCEPT ![boot] = st] /\ jobState' = st /\ boot' = boot
        /\ events' = events \cup {[kind |-> "RESULT", boot |-> boot, seq |-> jobSeq + 1,
                                   state |-> st]}
        /\ replies' = replies /\ writes' = writes
    BY <2>1, <1>0 DEF HandlerEnds, EmitResult, Emit, relay
  <2>3. ended'[boot] = st /\ \A b \in Boot : b # boot => ended'[b] = ended[b]
    BY <2>2, <1>0 DEF TruthInv, JobTypeOK, AgentTypeOK
  <2>4. EndsOnce'
    BY <2>2, <2>3, <1>0 DEF TruthInv, EndsOnce, Boot
  <2>5. MessagesTrue'
    <3>1. \A e \in events \cup writes : e.kind = "RESULT" =>
            e.boot \in Boot /\ ended[e.boot] = e.state
      BY <1>0 DEF TruthInv, MessagesTrue, Event
    <3>2. \A r \in replies : r.state \in RuntimeTerminal =>
            r.boot \in Boot /\ ended[r.boot] = r.state
      BY <1>0 DEF TruthInv, MessagesTrue, Reply
    <3>3. ended[boot] = "no"
      BY <2>1 DEF HandlerEnds, TruthInv, EndsOnce, RuntimeActive, RuntimeTerminal
    <3>4. \A e \in events \cup writes : e.kind = "RESULT" /\ e.boot = boot => e.state = "no"
      BY <3>1, <3>3
    <3> QED
      BY <2>2, <2>3, <3>1, <3>2, <3>3, <1>0 DEF MessagesTrue, Event, RuntimeActive
  <2> QED
    BY <2>4, <2>5
<1>2. CASE AgentReplaysStart \/ AgentReportsStatus \/ AgentCancels \/ AgentRejectsStart
           \/ AgentAcceptsStart \/ AgentDropsStart \/ AgentDeadline \/ AgentHeartbeat
  <2>1. ended' = ended /\ boot' = boot /\ writes' = writes
    BY <1>2, <1>0 DEF AgentReplaysStart, AgentReportsStatus, AgentCancels, AgentRejectsStart,
       AgentAcceptsStart, AgentDropsStart, AgentDeadline, AgentHeartbeat, relay, agent, history
  <2>2. /\ jobState' \in RuntimeTerminal <=> jobState \in RuntimeTerminal
        /\ jobState \in RuntimeTerminal => jobState' = jobState
    BY <1>2 DEF AgentReplaysStart, AgentReportsStatus, AgentCancels, AgentRejectsStart,
       AgentAcceptsStart, AgentDropsStart, AgentDeadline, AgentHeartbeat, agent, Beats,
       RuntimeActive, RuntimeTerminal
  <2>3. \A e \in events' : e \in events \/ e.kind # "RESULT"
                           \/ (e.boot = boot /\ e.state = jobState /\ jobState \in RuntimeTerminal)
    <3>1. CASE AgentReplaysStart
      BY <3>1 DEF AgentReplaysStart, EmitResult, Emit
    <3>2. CASE AgentAcceptsStart
      BY <3>2 DEF AgentAcceptsStart, Emit
    <3>3. CASE AgentHeartbeat
      BY <3>3 DEF AgentHeartbeat, Emit
    <3>4. CASE AgentReportsStatus \/ AgentCancels \/ AgentRejectsStart \/ AgentDropsStart
               \/ AgentDeadline
      BY <3>4 DEF AgentReportsStatus, AgentCancels, AgentRejectsStart, AgentDropsStart,
         AgentDeadline, channel
    <3> QED
      BY <1>2, <3>1, <3>2, <3>3, <3>4
  <2>4. \A r \in replies' : \/ r \in replies \/ r.state \notin RuntimeTerminal
                            \/ r.boot = boot /\ r.state = jobState
    BY <1>2 DEF AgentReplaysStart, AgentReportsStatus, AgentCancels, AgentRejectsStart,
       AgentAcceptsStart, AgentDropsStart, AgentDeadline, AgentHeartbeat, Answer,
       channel, RuntimeTerminal
  <2> QED
    BY <2>1, <2>2, <2>3, <2>4 DEF TruthInv, EndsOnce, MessagesTrue
<1>3. CASE AgentRestart
  <2>1. /\ boot' = boot + 1 /\ boot' \in Boot /\ jobState' = "NONE" /\ events' = {}
        /\ replies' = replies /\ writes' = writes /\ ended' = ended
    BY <1>3, <1>0 DEF AgentRestart, Boot, relay, history
  <2>2. EndsOnce'
    BY <2>1, <1>0 DEF TruthInv, EndsOnce, Boot, RuntimeTerminal
  <2> QED
    BY <2>1, <2>2 DEF TruthInv, MessagesTrue
<1> QED
  BY <1>1, <1>2, <1>3 DEF TruthInv, AgentStep

\* A statement makes the row a success or a cancellation only with a result, or
\* with a status answer, that the row's own boot has sent.
LEMMA RowDecided ==
    ASSUME TruthInv, [Next]_vars, ~AgentStep,
           state' \in {"SUCCEEDED", "CANCELLED"}
    PROVE  boundTo' # NoOne /\ ended[boundTo'] = state'
<1> USE DEF TruthInv, ResultIsTrue
<1>0. RuntimeTerminal = {"SUCCEEDED", "FAILED", "CANCELLED"} /\ NoOne \notin Boot
  BY DEF RuntimeTerminal, NoOne, Boot
<1>1. CASE UNCHANGED <<state, boundTo>>
  BY <1>1
<1>2. CASE \E e \in writes : EventWritten(e)
  <2>1. PICK e \in writes : EventWritten(e)
    BY <1>2
  <2>2. e.boot \in Boot
    BY DEF JobTypeOK, RelayTypeOK, Event
  <2>3. CASE e.kind = "RESULT" /\ RecordResult(e.boot, e.seq, e.state)
    BY <2>2, <2>3, <1>0 DEF RecordResult, Newer, MessagesTrue
  <2>4. CASE RecordStarted(e.boot) \/ RecordHeartbeat(e.boot, e.seq)
    BY <2>4 DEF RecordStarted, RecordHeartbeat
  <2> QED
    BY <2>1, <2>3, <2>4 DEF EventWritten
<1>3. ASSUME NEW c \in Caller, NEW r \in replies, CallStatus(c, r)
      PROVE  boundTo' # NoOne /\ ended[boundTo'] = state'
  <2>1. r.boot \in Boot /\ r.state \in RuntimeActive \cup RuntimeTerminal
    BY DEF JobTypeOK, RelayTypeOK, Reply
  <2>2. CASE UNCHANGED row
    BY <2>2 DEF row
  <2>3. CASE RecordStatus(r)
    <3>1. CASE r.ok /\ r.state \in RuntimeTerminal
      BY <2>1, <2>3, <3>1, <1>0 DEF RecordStatus, RecordResult, Newer, MessagesTrue
    <3>2. CASE ~(r.ok /\ r.state \in RuntimeTerminal)
      BY <2>1, <2>3, <3>2, <1>0 DEF RecordStatus, RuntimeActive
    <3> QED
      BY <3>1, <3>2
  <2> QED
    BY <1>3, <2>2, <2>3 DEF CallStatus
<1>4. ASSUME NEW c \in Caller, NEW r \in replies, CallStarted(c, r) \/ CallCancelled(c, r)
      PROVE  boundTo' # NoOne /\ ended[boundTo'] = state'
  BY <1>4 DEF CallStarted, CallCancelled, RecordRejected, RecordStarted, RecordCancelOutcome, row
<1>5. ASSUME NEW c \in Caller,
             \/ CallPrepares(c) \/ CallBinds(c) \/ CallRequestsCancel(c) \/ CallDeadline(c)
      PROVE  boundTo' # NoOne /\ ended[boundTo'] = state'
  BY <1>5 DEF CallPrepares, Create, CallBinds, BindToBoot, Bindable, CallRequestsCancel,
     RequestCancel, CallDeadline, MarkDeadlineUnknown
<1>6. ASSUME NEW b \in fences, Fence(b)
      PROVE  boundTo' # NoOne /\ ended[boundTo'] = state'
  BY <1>6 DEF Fence, MarkInterruptedByNewBoot
<1>7. ASSUME NEW c \in Caller,
             \/ RunAgentJob(c) \/ CallReadsBoot(c) \/ CallSendsStart(c) \/ CallSeesEnd(c)
             \/ CallSendsCancel(c) \/ CallQueriesStatus(c) \/ CallTimesOut(c)
      PROVE  UNCHANGED <<state, boundTo>>
  BY <1>7 DEF RunAgentJob, CallReadsBoot, CallSendsStart, CallSeesEnd, CallSendsCancel,
     CallQueriesStatus, CallTimesOut, row
<1>8. CASE \/ AgentConnects \/ AgentDisconnects \/ (\E e \in events : EventArrives(e))
           \/ ApiRestart \/ DeadlinePasses \/ UNCHANGED vars
  BY <1>1, <1>8 DEF AgentConnects, AgentDisconnects, EventArrives, ApiRestart, DeadlinePasses,
     row, vars
<1> QED
  BY <1>1, <1>2, <1>3, <1>4, <1>5, <1>6, <1>7, <1>8 DEF Next, RelayStep, CallStep

\* Nothing has been said yet.
LEMMA TruthInit ==
    Init => TruthInv
<1>1. Init => EndsOnce /\ MessagesTrue /\ ResultIsTrue
  BY BoundsAssumption DEF Init, EndsOnce, MessagesTrue, ResultIsTrue, RuntimeTerminal, Boot
<1> QED
  BY <1>1, InitTyped DEF TruthInv

\* The agent tells the truth; the others pass on what it told.
LEMMA TruthStep ==
    TruthInv /\ [Next]_vars => TruthInv'
<1> SUFFICES ASSUME TruthInv, [Next]_vars PROVE TruthInv'
  OBVIOUS
<1>1. JobTypeOK'
  BY JobTypeStep DEF TruthInv
<1>2. CASE AgentStep
  <2>1. EndsOnce' /\ MessagesTrue' /\ UNCHANGED row
    BY <1>2, AgentTellsTruth, AgentLeavesRow
  <2>2. \A b \in Boot : ended[b] # "no" => ended'[b] = ended[b]
    BY EndedStable DEF TruthInv
  <2>3. ResultIsTrue'
    BY <2>1, <2>2 DEF TruthInv, ResultIsTrue, row, JobTypeOK, RowTypeOK
  <2> QED
    BY <1>1, <2>1, <2>3 DEF TruthInv
<1>3. CASE ~AgentStep
  <2>1. EndsOnce' /\ MessagesTrue'
    BY <1>3, AgentAlone DEF TruthInv, EndsOnce, MessagesTrue
  <2>2. ResultIsTrue'
    BY <1>3, RowDecided, AgentAlone DEF ResultIsTrue
  <2> QED
    BY <1>1, <2>1, <2>2 DEF TruthInv
<1> QED
  BY <1>2, <1>3

\* The row never reports a success or a cancellation that did not happen on the
\* agent boot it is bound to: recordResult, recordStatus and the listeners
\* together keep ResultIsTrue, whatever is late, lost, repeated or reordered.
THEOREM ResultsAreTrue == Spec => []ResultIsTrue
<1>1. TruthInv => ResultIsTrue
  BY DEF TruthInv
<1> QED
  BY <1>1, TruthInit, TruthStep, PTL DEF Spec

-----------------------------------------------------------------------------
(***************************************************************************)
(* The sequence numbers.                                                   *)
(*                                                                         *)
(* LostResultRecoverable needs the same of everything that may still be    *)
(* written into the row: what a running handler sent stays below the       *)
(* number that the end of the handler takes.                               *)
(***************************************************************************)

\* A number recorded or sent before the handler's end.
Below(n) == n <= jobSeq /\ (jobState \in RuntimeTerminal => n < jobSeq)

\* Nothing names an agent boot that does not exist yet.
BootsExist ==
    /\ boundTo <= boot /\ link <= boot
    /\ \A c \in Caller : callBoot[c] <= boot
    /\ \A m \in events \cup writes \cup replies : m.boot <= boot

\* Heartbeats and status answers of a running handler are below its end.
MessagesBelow ==
    /\ \A e \in events \cup writes : e.boot = boot /\ e.kind = "HEARTBEAT" => Below(e.seq)
    /\ \A r \in replies : r.boot = boot /\ r.state \in RuntimeActive => Below(r.seq)

\* So is the row, from the moment it is bound.
RowBelow ==
    /\ boundTo = NoOne => sequence = 0
    /\ state \notin Terminal /\ boundTo = boot => Below(sequence)

\* The inductive invariant behind LostResultRecoverable.
SequenceInv ==
    TruthInv /\ Below(0) /\ (jobState = "NONE" => jobSeq = 0)
    /\ BootsExist /\ MessagesBelow /\ RowBelow

\* The agent numbers what it sends above everything it sent before.
LEMMA AgentNumbers ==
    ASSUME SequenceInv, AgentStep
    PROVE  Below(0)' /\ (jobState = "NONE" => jobSeq = 0)' /\ BootsExist'
           /\ MessagesBelow' /\ RowBelow'
<1> USE DEF SequenceInv, TruthInv
<1>0. /\ UNCHANGED <<state, boundTo, sequence, link, writes>>
      /\ boot \in Nat /\ boot # NoOne /\ jobSeq \in Nat /\ sequence \in Nat
      /\ jobState \in {"NONE"} \cup RuntimeActive \cup RuntimeTerminal
      /\ \A m \in events \cup writes \cup replies : m.seq \in Nat /\ m.boot \in Nat
      /\ boundTo \in Nat /\ link \in Nat /\ \A c \in Caller : callBoot[c] \in Nat
  <2>1. UNCHANGED <<state, boundTo, sequence, link, writes>>
    BY AgentLeavesRow DEF row, relay
  <2>2. Boot \subseteq Nat /\ NoOne \notin Boot /\ NoOne \in Nat
    BY DEF Boot, NoOne
  <2>3. \A m \in events \cup writes : m.seq \in Nat /\ m.boot \in Nat
    BY <2>2 DEF JobTypeOK, RelayTypeOK, Event
  <2>4. \A m \in replies : m.seq \in Nat /\ m.boot \in Nat
    BY <2>2 DEF JobTypeOK, RelayTypeOK, Reply
  <2>5. /\ boot \in Nat /\ boot # NoOne /\ jobSeq \in Nat /\ sequence \in Nat
        /\ jobState \in {"NONE"} \cup RuntimeActive \cup RuntimeTerminal
    BY <2>2 DEF JobTypeOK, RowTypeOK, AgentTypeOK
  <2>6. boundTo \in Nat /\ link \in Nat /\ \A c \in Caller : callBoot[c] \in Nat
    BY <2>2 DEF JobTypeOK, RowTypeOK, RelayTypeOK, CallTypeOK
  <2> QED
    BY <2>1, <2>3, <2>4, <2>5, <2>6
<1>c. UNCHANGED callBoot
  BY DEF AgentStep, AgentReplaysStart, AgentRejectsStart, AgentAcceptsStart, AgentDropsStart,
     AgentReportsStatus, AgentCancels, HandlerEnds, AgentDeadline, AgentHeartbeat, AgentRestart,
     AgentUnchanged, callers
<1>d. RuntimeActive \cap RuntimeTerminal = {} /\ "NONE" \notin RuntimeActive \cup RuntimeTerminal
  BY DEF RuntimeActive, RuntimeTerminal
<1>1. CASE AgentRestart
  <2>1. /\ boot' = boot + 1 /\ jobState' = "NONE" /\ jobSeq' = 0 /\ events' = {}
        /\ replies' = replies
    BY <1>1 DEF AgentRestart
  <2>2. BootsExist'
    BY <2>1, <1>0, <1>c DEF BootsExist
  <2>3. boundTo' # boot' /\ \A m \in events' \cup writes' \cup replies' : m.boot # boot'
    BY <2>1, <1>0 DEF BootsExist
  <2>4. MessagesBelow'
    BY <2>3 DEF MessagesBelow
  <2>5. RowBelow'
    BY <2>3, <1>0 DEF RowBelow
  <2> QED
    BY <2>1, <2>2, <2>4, <2>5, <1>d DEF Below
<1>2. CASE ~AgentRestart
  \* The number never decreases, it grows when the handler ends, and what the
  \* step sends is numbered at most with it.
  <2>1. /\ boot' = boot
        /\ jobSeq' \in Nat /\ jobSeq <= jobSeq'
        /\ jobState' \in RuntimeTerminal =>
              jobState \in RuntimeTerminal \/ jobSeq < jobSeq'
        /\ jobState' = "NONE" => jobState = "NONE" /\ jobSeq' = jobSeq
    <3>1. CASE \E st \in RuntimeTerminal : HandlerEnds(st)
      BY <3>1, <1>0, <1>d DEF HandlerEnds, EmitResult
    <3>2. CASE AgentReplaysStart
      BY <3>2, <1>0, <1>d DEF AgentReplaysStart, EmitResult
    <3>3. CASE AgentAcceptsStart
      BY <3>3, <1>0 DEF AgentAcceptsStart, RuntimeTerminal
    <3>4. CASE AgentHeartbeat
      BY <3>4, <1>0, <1>d DEF AgentHeartbeat, Beats
    <3>5. CASE AgentDeadline
      BY <3>5, <1>0 DEF AgentDeadline, RuntimeTerminal
    <3>6. CASE AgentCancels
      BY <3>6, <1>0 DEF AgentCancels, RuntimeTerminal
    <3>7. CASE AgentRejectsStart \/ AgentDropsStart \/ AgentReportsStatus
      <4>1. boot' = boot /\ jobState' = jobState /\ jobSeq' = jobSeq
        BY <3>7 DEF AgentRejectsStart, AgentDropsStart, AgentReportsStatus, agent
      <4> QED
        BY <4>1, <1>0
    <3> QED
      BY <1>2, <3>1, <3>2, <3>3, <3>4, <3>5, <3>6, <3>7 DEF AgentStep
  <2>2. \A n \in Nat : Below(n) => Below(n)'
    BY <2>1, <1>0 DEF Below
  <2>3. \A e \in events' :
           \/ e \in events
           \/ e.boot = boot /\ (e.kind # "HEARTBEAT" \/ Below(e.seq)')
    <3>1. CASE \E st \in RuntimeTerminal : HandlerEnds(st)
      BY <3>1 DEF HandlerEnds, EmitResult, Emit
    <3>2. CASE AgentReplaysStart
      BY <3>2 DEF AgentReplaysStart, EmitResult, Emit
    <3>3. CASE AgentAcceptsStart
      BY <3>3 DEF AgentAcceptsStart, Emit
    <3>4. CASE AgentHeartbeat
      <4>1. \A n : n = jobSeq + 1 => Below(n)'
        BY <3>4, <1>0, <1>d DEF AgentHeartbeat, Beats, Below
      <4> QED
        BY <3>4, <4>1 DEF AgentHeartbeat, Emit
    <3>5. CASE \/ AgentRejectsStart \/ AgentDropsStart \/ AgentReportsStatus \/ AgentCancels
               \/ AgentDeadline
      BY <3>5 DEF AgentRejectsStart, AgentDropsStart, AgentReportsStatus, AgentCancels,
         AgentDeadline, channel
    <3> QED
      BY <1>2, <3>1, <3>2, <3>3, <3>4, <3>5 DEF AgentStep
  <2>4. \A r \in replies' :
           \/ r \in replies
           \/ r.boot = boot /\ (r.state \notin RuntimeActive \/ Below(r.seq)')
    <3>0. Below(0)'
      BY <2>2
    <3>1. CASE AgentReportsStatus
      <4>1. \A n : n = jobSeq /\ jobState \in RuntimeActive => Below(n)'
        BY <3>1, <1>0, <1>d DEF AgentReportsStatus, agent, Below
      <4> QED
        BY <3>0, <3>1, <4>1 DEF AgentReportsStatus, Answer
    <3>2. CASE AgentReplaysStart
      BY <3>0, <3>2 DEF AgentReplaysStart, Answer
    <3>3. CASE AgentAcceptsStart
      BY <3>0, <3>3 DEF AgentAcceptsStart, Answer
    <3>4. CASE AgentRejectsStart
      BY <3>0, <3>4 DEF AgentRejectsStart, Answer
    <3>5. CASE AgentCancels
      BY <3>0, <3>5 DEF AgentCancels, Answer
    <3>6. CASE \/ AgentDropsStart \/ AgentDeadline \/ AgentHeartbeat
               \/ (\E st \in RuntimeTerminal : HandlerEnds(st))
      BY <3>6 DEF AgentDropsStart, AgentDeadline, AgentHeartbeat, HandlerEnds, channel
    <3> QED
      BY <1>2, <3>1, <3>2, <3>3, <3>4, <3>5, <3>6 DEF AgentStep
  <2>5. BootsExist'
    BY <2>1, <2>3, <2>4, <1>0, <1>c DEF BootsExist
  <2>6. MessagesBelow'
    BY <2>1, <2>2, <2>3, <2>4, <1>0 DEF MessagesBelow
  <2>7. RowBelow'
    BY <2>1, <2>2, <1>0 DEF RowBelow
  <2> QED
    BY <2>1, <2>2, <2>5, <2>6, <2>7
<1> QED
  BY <1>1, <1>2

\* What a statement that is not the agent's may do to the row: nothing;
RowStays == UNCHANGED <<state, boundTo, sequence>>

\* a change of state that keeps its boot and number and does not reopen it;
RowKept == UNCHANGED <<boundTo, sequence>> /\ (state \in Terminal => state' \in Terminal)

\* bindToBoot;
RowBound == /\ state = "STARTING" /\ boundTo = NoOne
            /\ UNCHANGED <<state, sequence>>
            /\ boundTo' # NoOne /\ boundTo' <= boot

\* the number of a heartbeat or of a status answer of a running handler;
RowNumbered == /\ UNCHANGED <<state, boundTo>> \/ (state \in Open /\ UNCHANGED boundTo)
               /\ \E m \in writes \cup replies :
                     /\ m.seq = sequence' /\ m.boot = boundTo
                     /\ \/ m \in writes /\ m.kind = "HEARTBEAT"
                        \/ m \in replies /\ m.state \in RuntimeActive

\* the end of the job, by a result or a refusal.
RowEnds == /\ state' \in Terminal
           /\ \/ UNCHANGED boundTo /\ boundTo # NoOne
              \/ boundTo' # NoOne /\ boundTo' <= boot

\* Every step that is not the agent's does one of these to the row, and no
\* name of a boot appears from nowhere.
LEMMA RowSteps ==
    ASSUME TruthInv, BootsExist, [Next]_vars, ~AgentStep
    PROVE  /\ RowStays \/ RowKept \/ RowBound \/ RowNumbered \/ RowEnds
           /\ link' <= boot /\ \A c \in Caller : callBoot'[c] <= boot
<1> USE DEF TruthInv
<1>0. /\ Boot \subseteq Nat /\ NoOne \notin Boot /\ NoOne \in Nat /\ NoOne <= boot
      /\ boot \in Boot /\ boot \in Nat
  BY DEF Boot, NoOne, JobTypeOK, AgentTypeOK
<1>t. callBoot \in [Caller -> Boot \cup {NoOne}]
  BY DEF JobTypeOK, CallTypeOK
<1>r. \A c \in Caller : Returns(c) => \A d \in Caller : callBoot'[d] <= boot
  BY <1>0, <1>t DEF Returns, BootsExist
<1>m. \A c, pc : MovesTo(c, pc) => \A d \in Caller : callBoot'[d] <= boot
  BY DEF MovesTo, BootsExist
<1>1. CASE RelayStep
  <2>0. UNCHANGED callBoot
    BY <1>1 DEF RelayStep, AgentConnects, AgentDisconnects, Fence, EventArrives, EventWritten,
       callers
  <2>1. link' <= boot
    BY <1>1, <1>0 DEF RelayStep, AgentConnects, AgentDisconnects, Fence, EventArrives,
       EventWritten, BootsExist
  <2>2. CASE AgentConnects \/ AgentDisconnects \/ \E e \in events : EventArrives(e)
    <3>1. RowStays
      BY <2>2 DEF AgentConnects, AgentDisconnects, EventArrives, row, RowStays
    <3> QED
      BY <2>0, <2>1, <3>1 DEF BootsExist
  <2>3. ASSUME NEW b \in fences, Fence(b) PROVE RowKept
    BY <2>3 DEF Fence, MarkInterruptedByNewBoot, RowKept, Terminal
  <2>4. ASSUME NEW e \in writes, EventWritten(e) PROVE RowStays \/ RowKept \/ RowNumbered \/ RowEnds
    <3>1. e.boot \in Boot /\ e.state \in RuntimeActive \cup RuntimeTerminal
      BY DEF JobTypeOK, RelayTypeOK, Event
    <3>2. CASE e.kind = "STARTED" /\ RecordStarted(e.boot)
      BY <3>2 DEF RecordStarted, RowKept, Terminal
    <3>3. CASE e.kind = "HEARTBEAT" /\ RecordHeartbeat(e.boot, e.seq)
      BY <3>3 DEF RecordHeartbeat, Newer, RowStays, RowNumbered
    <3>4. CASE e.kind = "RESULT" /\ RecordResult(e.boot, e.seq, e.state)
      <4>1. CASE ~Newer(e.boot, e.seq)
        BY <3>4, <4>1 DEF RecordResult, RowStays
      <4>2. CASE Newer(e.boot, e.seq) /\ e.state \in RuntimeTerminal
        BY <3>1, <3>4, <4>2, <1>0 DEF RecordResult, Newer, RowEnds, Terminal, RuntimeTerminal
      <4>3. CASE e.state \in RuntimeActive
        <5>1. ended[e.boot] = e.state /\ ended[e.boot] \in {"no"} \cup RuntimeTerminal
          BY <3>1, <3>4 DEF MessagesTrue, JobTypeOK, AgentTypeOK
        <5> QED
          BY <4>3, <5>1 DEF RuntimeActive, RuntimeTerminal
      <4> QED
        BY <3>1, <4>1, <4>2, <4>3
    <3> QED
      BY <2>4, <3>2, <3>3, <3>4 DEF EventWritten
  <2> QED
    BY <1>1, <2>0, <2>1, <2>2, <2>3, <2>4 DEF RelayStep, BootsExist
<1>2. ASSUME NEW c \in Caller, CallStep(c)
      PROVE  /\ RowStays \/ RowKept \/ RowBound \/ RowNumbered \/ RowEnds
             /\ \A d \in Caller : callBoot'[d] <= boot
  <2>1. CASE \/ RunAgentJob(c) \/ CallReadsBoot(c) \/ CallSendsStart(c) \/ CallSeesEnd(c)
             \/ CallSendsCancel(c) \/ CallQueriesStatus(c) \/ CallTimesOut(c)
    <3>1. RowStays
      BY <2>1 DEF RunAgentJob, CallReadsBoot, CallSendsStart, CallSeesEnd, CallSendsCancel,
         CallQueriesStatus, CallTimesOut, row, RowStays
    <3>2. CASE RunAgentJob(c)
      BY <3>1, <3>2 DEF RunAgentJob, BootsExist
    <3>3. CASE CallReadsBoot(c)
      <4>1. link <= boot /\ \A d \in Caller : callBoot[d] <= boot
        BY DEF BootsExist
      <4>2. CASE ~Returns(c)
        <5>1. callBoot' = [callBoot EXCEPT ![c] = link]
          BY <3>3, <4>2 DEF CallReadsBoot
        <5> QED
          BY <3>1, <4>1, <5>1, <1>t
      <4> QED
        BY <3>1, <4>2, <1>r
    <3>4. CASE \/ CallSendsStart(c) \/ CallSeesEnd(c) \/ CallSendsCancel(c)
               \/ CallQueriesStatus(c) \/ CallTimesOut(c)
      BY <3>1, <3>4, <1>r, <1>m DEF CallSendsStart, CallSeesEnd, CallSendsCancel,
         CallQueriesStatus, CallTimesOut
    <3> QED
      BY <2>1, <3>2, <3>3, <3>4
  <2>2. CASE CallPrepares(c)
    <3>1. RowKept
      BY <2>2 DEF CallPrepares, Create, RowKept, Terminal
    <3> QED
      BY <2>2, <3>1, <1>r, <1>m DEF CallPrepares
  <2>3. CASE CallBinds(c)
    <3>1. RowStays \/ RowBound
      <4>1. callBoot[c] \in Boot \cup {NoOne} /\ callBoot[c] <= boot
        BY <1>t DEF BootsExist
      <4> QED
        BY <2>3, <4>1 DEF CallBinds, BindToBoot, Bindable, RowStays, RowBound
    <3> QED
      BY <2>3, <3>1, <1>r, <1>m DEF CallBinds
  <2>4. CASE CallRequestsCancel(c)
    <3>1. RowKept
      BY <2>4 DEF CallRequestsCancel, RequestCancel, RowKept
    <3> QED
      BY <2>4, <3>1 DEF CallRequestsCancel, BootsExist
  <2>5. CASE CallDeadline(c)
    <3>1. RowKept
      BY <2>5 DEF CallDeadline, MarkDeadlineUnknown, RowKept, Terminal
    <3> QED
      BY <2>5, <3>1, <1>r DEF CallDeadline
  <2>6. ASSUME NEW r \in replies, CallStarted(c, r) \/ CallCancelled(c, r) \/ CallStatus(c, r)
        PROVE  /\ RowStays \/ RowKept \/ RowBound \/ RowNumbered \/ RowEnds
               /\ \A d \in Caller : callBoot'[d] <= boot
    <3>1. /\ r.boot \in Boot /\ r.boot <= boot
          /\ r.state \in RuntimeActive \cup RuntimeTerminal
      BY DEF JobTypeOK, RelayTypeOK, Reply, BootsExist
    <3>2. \A d \in Caller : callBoot'[d] <= boot
      BY <2>6, <1>r, <1>m DEF CallStarted, CallCancelled, CallStatus
    <3>3. CASE RecordRejected(r.boot)
      BY <3>1, <3>2, <3>3, <1>0 DEF RecordRejected, RowEnds, Terminal
    <3>4. CASE RecordStarted(r.boot)
      BY <3>2, <3>4 DEF RecordStarted, RowKept, Terminal
    <3>5. CASE RecordCancelOutcome(r.outcome)
      BY <3>2, <3>5 DEF RecordCancelOutcome, RowStays
    <3>6. CASE RecordStatus(r)
      <4>1. CASE r.ok /\ r.state \in RuntimeTerminal
        <5>1. CASE ~Newer(r.boot, r.seq)
          BY <3>2, <3>6, <4>1, <5>1 DEF RecordStatus, RecordResult, RowStays
        <5>2. CASE Newer(r.boot, r.seq)
          BY <3>1, <3>2, <3>6, <4>1, <5>2, <1>0 DEF RecordStatus, RecordResult, Newer, RowEnds,
             Terminal, RuntimeTerminal
        <5> QED
          BY <5>1, <5>2
      <4>2. CASE ~(r.ok /\ r.state \in RuntimeTerminal)
        BY <3>1, <3>2, <3>6, <4>2 DEF RecordStatus, RowStays, RowNumbered
      <4> QED
        BY <4>1, <4>2
    <3>7. CASE UNCHANGED row
      BY <3>2, <3>7 DEF row, RowStays
    <3> QED
      BY <2>6, <3>3, <3>4, <3>5, <3>6, <3>7 DEF CallStarted, CallCancelled, CallStatus
  <2> QED
    BY <1>2, <2>1, <2>2, <2>3, <2>4, <2>5, <2>6 DEF CallStep
<1>3. CASE ApiRestart \/ DeadlinePasses \/ UNCHANGED vars
  <2>1. RowStays
    BY <1>3 DEF ApiRestart, DeadlinePasses, vars, row, RowStays
  <2>2. link' <= boot /\ \A c \in Caller : callBoot'[c] <= boot
    BY <1>3, <1>0 DEF ApiRestart, DeadlinePasses, vars, relay, callers, BootsExist
  <2> QED
    BY <2>1, <2>2
<1>4. ASSUME NEW c \in Caller, CallStep(c) PROVE link' = link
  BY <1>4 DEF CallStep, RunAgentJob, CallReadsBoot, CallPrepares, CallBinds, CallSendsStart,
     CallSeesEnd, CallRequestsCancel, CallSendsCancel, CallQueriesStatus, CallTimesOut,
     CallDeadline, CallStarted, CallCancelled, CallStatus, CallUnchanged, relay
<1> QED
  BY <1>1, <1>2, <1>3, <1>4 DEF Next, BootsExist

\* The sequence numbers stay in order.
LEMMA SequenceStep ==
    SequenceInv /\ [Next]_vars => SequenceInv'
<1> SUFFICES ASSUME SequenceInv, [Next]_vars PROVE SequenceInv'
  OBVIOUS
<1> USE DEF SequenceInv
<1>1. TruthInv'
  BY TruthStep
<1>2. CASE AgentStep
  BY <1>1, <1>2, AgentNumbers
<1>3. CASE ~AgentStep
  <2>1. /\ UNCHANGED <<boot, jobState, jobSeq>>
        /\ events' \subseteq events /\ writes' \subseteq writes \cup events
        /\ replies' \subseteq replies
    BY <1>3, AgentAlone
  <2>2. /\ RowStays \/ RowKept \/ RowBound \/ RowNumbered \/ RowEnds
        /\ link' <= boot /\ \A c \in Caller : callBoot'[c] <= boot
    BY <1>3, RowSteps
  <2>3. \A n : Below(n)' <=> Below(n)
    BY <2>1 DEF Below
  <2>4. MessagesBelow'
    BY <2>1, <2>3 DEF MessagesBelow
  <2>5. boundTo' <= boot
    BY <2>2 DEF RowStays, RowKept, RowBound, RowNumbered, RowEnds, BootsExist
  <2>6. BootsExist'
    BY <2>1, <2>2, <2>5 DEF BootsExist
  <2>7. RowBelow'
    <3>0. boot # NoOne
      BY DEF TruthInv, JobTypeOK, AgentTypeOK, Boot, NoOne
    <3>1. CASE RowStays \/ RowKept
      BY <3>1, <2>1, <2>3 DEF RowStays, RowKept, RowBelow
    <3>2. CASE RowBound
      BY <3>2, <2>1, <2>3 DEF RowBound, RowBelow
    <3>3. CASE RowNumbered
      <4>1. PICK m \in writes \cup replies :
                     /\ m.seq = sequence' /\ m.boot = boundTo
                     /\ \/ m \in writes /\ m.kind = "HEARTBEAT"
                        \/ m \in replies /\ m.state \in RuntimeActive
        BY <3>3 DEF RowNumbered
      <4>2. m.boot # NoOne
        BY DEF TruthInv, JobTypeOK, RelayTypeOK, Event, Reply, Boot, NoOne
      <4>3. boundTo = boot => Below(sequence')
        BY <4>1 DEF MessagesBelow
      <4>4. boundTo' = boundTo
        BY <3>3 DEF RowNumbered
      <4> QED
        BY <4>1, <4>2, <4>3, <4>4, <2>1, <2>3 DEF RowBelow, Below
    <3>4. CASE RowEnds
      BY <3>4 DEF RowEnds, RowBelow
    <3> QED
      BY <2>2, <3>1, <3>2, <3>3, <3>4
  <2> QED
    BY <1>1, <2>1, <2>3, <2>4, <2>6, <2>7
<1> QED
  BY <1>2, <1>3

\* A lost result is never lost for good: while the row is open and bound to the
\* running agent, the strict comparison in recordResult accepts what the agent
\* reports of a handler that has ended.
THEOREM LostResultsAreRecoverable == Spec => []LostResultRecoverable
<1>1. Init => SequenceInv
  <2>1. Init => /\ Below(0) /\ (jobState = "NONE" => jobSeq = 0)
                /\ BootsExist /\ MessagesBelow /\ RowBelow
    BY DEF Init, Below, BootsExist, MessagesBelow, RowBelow, RuntimeTerminal, NoOne
  <2> QED
    BY <2>1, TruthInit DEF SequenceInv
<1>2. SequenceInv => LostResultRecoverable
  BY DEF SequenceInv, RowBelow, LostResultRecoverable, Below, Open, Terminal
<1> QED
  BY <1>1, <1>2, SequenceStep, PTL DEF Spec

=============================================================================
