------------------------------- MODULE AgentJob -------------------------------
(***************************************************************************)
(* One durable agent job: the step of a queued operation that the API runs *)
(* on the local agent over Socket.IO.                                      *)
(*                                                                         *)
(* Three parties share it:                                                 *)
(*   - the agent_jobs row (AgentJobService): state, boundTo, sequence,     *)
(*     cancelOutcome, safe.  Each SQL statement or transaction is a step;  *)
(*   - the calls of AgentRelayService.runAgentJob, which interleave at     *)
(*     every await: callPc, callBoot, awaited, cancelSent;                 *)
(*   - the agent process (AgentJobRuntime), whose job map lives in memory  *)
(*     and dies with its boot: boot, jobState, jobSeq.                     *)
(* Between them are a FIFO of requests to the agent, the replies to them,  *)
(* the events the agent emits (an event that never arrives is a lost one), *)
(* and the database writes the event listeners start without awaiting.     *)
(***************************************************************************)
EXTENDS Naturals, Sequences, FiniteSets

CONSTANTS
    Caller,     \* executions of the operation that may call runAgentJob
    MaxCalls,   \* calls of runAgentJob in one behaviour
    MaxBoots,   \* agent processes in one behaviour
    MaxBeats,   \* heartbeats in one behaviour
    MaxDrops,   \* API restarts and lost connections in one behaviour
    MaxLoad     \* boots, calls in progress, and twice the drops and heartbeats

ASSUME CallerAssumption == 0 \notin Caller
ASSUME BoundsAssumption == /\ MaxCalls \in Nat
                           /\ MaxBoots \in Nat \ {0}
                           /\ MaxBeats \in Nat
                           /\ MaxDrops \in Nat
                           /\ MaxLoad \in Nat

VARIABLES
    state, boundTo, sequence, cancelOutcome, safe,   \* the agent_jobs row
    late,                                            \* deadlineAt has passed
    boot, jobState, jobSeq, beats,                   \* the agent process
    link, fences, writes, drops,                     \* the relay: agentSocket
    requests, replies, events,                       \* the Socket.IO channel
    callPc, callBoot, awaited, cancelSent, calls,    \* runAgentJob
    ended, runs, refused                             \* history of the agent

row == <<state, boundTo, sequence, cancelOutcome, safe>>
agent == <<boot, jobState, jobSeq, beats>>
relay == <<link, fences, writes, drops>>
channel == <<requests, replies, events>>
callers == <<callPc, callBoot, awaited, cancelSent, calls>>
history == <<ended, runs, refused>>
vars == <<row, late, agent, relay, channel, callers, history>>

Boot == 1..MaxBoots
NoOne == 0                        \* no boot, no socket, nobody to answer

Terminal == {"SUCCEEDED", "FAILED", "CANCELLED", "NEEDS_ATTENTION"}
Open == {"STARTING", "RUNNING", "CANCEL_REQUESTED"}
RuntimeActive == {"RUNNING", "CANCEL_REQUESTED"}
RuntimeTerminal == {"SUCCEEDED", "FAILED", "CANCELLED"}
Waiting == {"started", "cancelled", "status"}

Request == [kind : {"START", "CANCEL", "STATUS"}, to : Caller \cup {NoOne}]
Reply == [to : Caller, kind : {"START", "CANCEL", "STATUS"}, ok : BOOLEAN, boot : Boot, seq : Nat,
          state : RuntimeActive \cup RuntimeTerminal,
          outcome : {"none", "NOT_FOUND", "ALREADY_TERMINAL",
                     "NOT_CANCELLABLE", "REQUESTED"}]
Event == [kind : {"STARTED", "HEARTBEAT", "RESULT"}, boot : Boot, seq : Nat,
          state : RuntimeActive \cup RuntimeTerminal]

\* What the behaviour has seen and the calls in progress stay below a bound,
\* with room for `weight` more.
Room(weight) ==
    boot + 2 * (beats + drops) + Cardinality({c \in Caller : callPc[c] # "idle"}) + weight
        <= MaxLoad

Init ==
    /\ state = "ABSENT" /\ boundTo = NoOne /\ sequence = 0
    /\ cancelOutcome = "none" /\ safe \in BOOLEAN
    /\ late = FALSE
    /\ boot = 1 /\ jobState = "NONE" /\ jobSeq = 0 /\ beats = 0
    /\ link = NoOne /\ fences = {} /\ writes = {} /\ drops = 0
    /\ requests = <<>> /\ replies = {} /\ events = {}
    /\ callPc = [c \in Caller |-> "idle"]
    /\ callBoot = [c \in Caller |-> NoOne]
    /\ awaited = [c \in Caller |-> NoOne]
    /\ cancelSent = [c \in Caller |-> FALSE]
    /\ calls = 0
    /\ ended = [b \in Boot |-> "no"] /\ runs = 0 /\ refused = {}

-----------------------------------------------------------------------------
(***************************************************************************)
(* AgentJobService: the statements on the row.  Each leaves `safe` alone.  *)
(***************************************************************************)

\* prepare: the deterministic id makes a second call find the first one's row.
Create ==
    /\ state' = IF state = "ABSENT" THEN "STARTING" ELSE state
    /\ UNCHANGED <<boundTo, sequence, cancelOutcome>>

\* bindToBoot's updateMany.
Bindable(b) == state = "STARTING" /\ boundTo \in {NoOne, b}

\* bindToBoot returns unless the row belongs to another boot and is open.
BindAccepts(b) == Bindable(b) \/ boundTo = b \/ state \in Terminal

BindToBoot(b) ==
    /\ boundTo' = IF Bindable(b) THEN b ELSE boundTo
    /\ UNCHANGED <<state, sequence, cancelOutcome>>

\* recordStarted of a refusal: by id alone, whatever the row says.
RecordRejected(b) ==
    /\ state' = "FAILED" /\ boundTo' = b
    /\ UNCHANGED <<sequence, cancelOutcome>>

\* recordStarted of an acceptance.
RecordStarted(b) ==
    /\ state' = IF state \in {"STARTING", "RUNNING"} /\ boundTo = b
                THEN "RUNNING" ELSE state
    /\ UNCHANGED <<boundTo, sequence, cancelOutcome>>

\* The WHERE clause that heartbeats and results share.
Newer(b, seq) == boundTo = b /\ state \in Open /\ sequence < seq

RecordHeartbeat(b, seq) ==
    /\ sequence' = IF Newer(b, seq) THEN seq ELSE sequence
    /\ UNCHANGED <<state, boundTo, cancelOutcome>>

\* Mutants of RecordResult: without the boot, without the state in its WHERE.
RecordResult_anyBoot(b, seq, result) ==
    /\ IF state \in Open /\ sequence < seq
       THEN /\ state' = result /\ sequence' = seq
            /\ cancelOutcome' = IF result = "CANCELLED" THEN "CANCELLED" ELSE "none"
       ELSE UNCHANGED <<state, sequence, cancelOutcome>>
    /\ UNCHANGED boundTo

RecordResult_evenDecided(b, seq, result) ==
    /\ IF boundTo = b /\ sequence < seq
       THEN /\ state' = result /\ sequence' = seq
            /\ cancelOutcome' = IF result = "CANCELLED" THEN "CANCELLED" ELSE "none"
       ELSE UNCHANGED <<state, sequence, cancelOutcome>>
    /\ UNCHANGED boundTo

\* recordResult.
RecordResult(b, seq, result) ==
    /\ IF Newer(b, seq)
       THEN /\ state' = result /\ sequence' = seq
            /\ cancelOutcome' = IF result = "CANCELLED" THEN "CANCELLED" ELSE "none"
       ELSE UNCHANGED <<state, sequence, cancelOutcome>>
    /\ UNCHANGED boundTo

\* recordStatus: a decided job goes through recordResult; an answer that the
\* agent does not know the job changes nothing.
RecordStatus(r) ==
    IF r.ok /\ r.state \in RuntimeTerminal
    THEN RecordResult(r.boot, r.seq, r.state)
    ELSE /\ IF r.ok /\ boundTo = r.boot /\ state \in Open /\ sequence <= r.seq
            THEN state' = r.state /\ sequence' = r.seq
            ELSE UNCHANGED <<state, sequence>>
         /\ UNCHANGED <<boundTo, cancelOutcome>>

\* requestCancel, one transaction.
RequestCancel ==
    /\ IF state \in Terminal THEN UNCHANGED <<state, cancelOutcome>>
       ELSE /\ cancelOutcome' = IF safe THEN "REQUESTED" ELSE "NOT_CANCELLABLE"
            /\ state' = IF safe THEN "CANCEL_REQUESTED" ELSE state
    /\ UNCHANGED <<boundTo, sequence>>

RecordCancelOutcome(outcome) ==
    /\ cancelOutcome' = outcome
    /\ UNCHANGED <<state, boundTo, sequence>>

MarkInterruptedByNewBoot(b) ==
    /\ state' = IF boundTo \notin {NoOne, b} /\ state \in RuntimeActive
                THEN "NEEDS_ATTENTION" ELSE state
    /\ UNCHANGED <<boundTo, sequence, cancelOutcome>>

\* Mutant of MarkDeadlineUnknown: a state of operations, not of jobs.
MarkDeadlineUnknown_operationState ==
    /\ state' = IF state \in Open THEN "UNKNOWN_RECOVERY_REQUIRED" ELSE state
    /\ UNCHANGED <<boundTo, sequence, cancelOutcome>>

MarkDeadlineUnknown ==
    /\ state' = IF state \in Open THEN "NEEDS_ATTENTION" ELSE state
    /\ UNCHANGED <<boundTo, sequence, cancelOutcome>>

-----------------------------------------------------------------------------
(***************************************************************************)
(* The agent process.  It answers requests in the order they arrive.       *)
(***************************************************************************)

\* The request at the head is taken and answered, unless nobody waits for it:
\* Socket.IO matches an acknowledgement with the request it belongs to.
\* Fields that the relay does not read have a fixed value.
Answer(ok, seq, st, outcome) ==
    /\ requests' = Tail(requests)
    /\ replies' = IF Head(requests).to = NoOne THEN replies
                  ELSE replies \cup {[to |-> Head(requests).to,
                                      kind |-> Head(requests).kind, ok |-> ok, boot |-> boot, seq |-> seq, state |-> st,
                                      outcome |-> outcome]}

Asked(kind) == requests # <<>> /\ Head(requests).kind = kind

Emit(kind, seq, st) ==
    events' = events \cup {[kind |-> kind, boot |-> boot, seq |-> seq, state |-> st]}

AgentUnchanged == UNCHANGED <<row, late, relay, callers>>

\* Mutant of EmitResult: the sequence is not advanced.
EmitResult_sameSequence(st) == jobSeq' = jobSeq /\ Emit("RESULT", jobSeq, st)

\* emitResult: also when a START is repeated after the end.
EmitResult(st) == jobSeq' = jobSeq + 1 /\ Emit("RESULT", jobSeq + 1, st)

\* handleStart of a job the map holds.
AgentReplaysStart ==
    /\ Asked("START") /\ jobState # "NONE"
    /\ Answer(TRUE, 0, "RUNNING", "none")
    /\ IF jobState \in RuntimeTerminal THEN EmitResult(jobState)
       ELSE UNCHANGED <<jobSeq, events>>
    /\ UNCHANGED <<boot, jobState, beats, history>> /\ AgentUnchanged

\* Mutant of AgentRejectsStart: the limit is checked before the job map.
AgentRejectsStart_known ==
    /\ Asked("START")
    /\ Answer(FALSE, 0, "RUNNING", "none")
    /\ refused' = IF jobState = "NONE" THEN refused \cup {boot} ELSE refused
    /\ UNCHANGED <<agent, events, ended, runs>> /\ AgentUnchanged

\* handleStart of a new job: the deadline, the limit of two active jobs and a
\* missing handler refuse it (the last two are choices of the environment).
AgentRejectsStart ==
    /\ Asked("START") /\ jobState = "NONE"
    /\ Answer(FALSE, 0, "RUNNING", "none")
    /\ refused' = refused \cup {boot}
    /\ UNCHANGED <<agent, events, ended, runs>> /\ AgentUnchanged

AgentAcceptsStart ==
    /\ Asked("START") /\ jobState = "NONE" /\ ~late
    /\ Answer(TRUE, 0, "RUNNING", "none")
    /\ jobState' = "RUNNING" /\ jobSeq' = 0
    /\ Emit("STARTED", 0, "RUNNING")
    /\ runs' = runs + 1
    /\ UNCHANGED <<boot, beats, ended, refused>> /\ AgentUnchanged

\* pruneJobs throws when the history is full: no record and no answer.
AgentDropsStart ==
    /\ Asked("START") /\ jobState = "NONE" /\ ~late
    /\ requests' = Tail(requests)
    /\ UNCHANGED <<agent, replies, events, history>> /\ AgentUnchanged

\* handleStatus.
AgentReportsStatus ==
    /\ Asked("STATUS")
    /\ IF jobState = "NONE" THEN Answer(FALSE, 0, "RUNNING", "none")
       ELSE Answer(TRUE, jobSeq, jobState, "none")
    /\ UNCHANGED <<agent, events, history>> /\ AgentUnchanged

\* handleCancel.
AgentCancels ==
    /\ Asked("CANCEL")
    /\ LET outcome == IF jobState = "NONE" THEN "NOT_FOUND"
                      ELSE IF jobState \in RuntimeTerminal THEN "ALREADY_TERMINAL"
                      ELSE IF safe THEN "REQUESTED" ELSE "NOT_CANCELLABLE"
       IN /\ jobState' = IF outcome = "REQUESTED" THEN "CANCEL_REQUESTED" ELSE jobState
          /\ Answer(outcome \in {"ALREADY_TERMINAL", "REQUESTED"}, 0, "RUNNING", outcome)
    /\ UNCHANGED <<boot, jobSeq, beats, events, history>> /\ AgentUnchanged

\* execute: the handler is done, its result is kept and emitted.
HandlerEnds(st) ==
    /\ jobState \in RuntimeActive
    /\ (st = "CANCELLED") <=> (jobState = "CANCEL_REQUESTED")
    /\ jobState' = st
    /\ EmitResult(st)
    /\ ended' = [ended EXCEPT ![boot] = st]
    /\ UNCHANGED <<boot, beats, requests, replies, runs, refused>> /\ AgentUnchanged

\* execute: the deadline timer.
AgentDeadline ==
    /\ late /\ safe /\ jobState = "RUNNING"
    /\ jobState' = "CANCEL_REQUESTED"
    /\ UNCHANGED <<boot, jobSeq, beats, channel, history>> /\ AgentUnchanged

\* emitHeartbeat: the timer or the handler's own.
Beats == jobState \in RuntimeActive

AgentHeartbeat ==
    /\ Beats /\ beats < MaxBeats /\ Room(2)
    /\ beats' = beats + 1
    /\ jobSeq' = jobSeq + 1
    /\ Emit("HEARTBEAT", jobSeq + 1, "RUNNING")
    /\ UNCHANGED <<boot, jobState, requests, replies, history>> /\ AgentUnchanged

\* A new process: the job map and what the old one had in flight are gone.
AgentRestart ==
    /\ boot < MaxBoots /\ Room(1)
    /\ boot' = boot + 1 /\ jobState' = "NONE" /\ jobSeq' = 0 /\ UNCHANGED beats
    /\ requests' = <<>> /\ events' = {}
    /\ UNCHANGED <<replies, history>> /\ AgentUnchanged

-----------------------------------------------------------------------------
(***************************************************************************)
(* The relay: the agent's socket and the listeners on it.                  *)
(***************************************************************************)
\* The callers in `lost` no longer wait for an answer.
Unheard(s, lost) ==
    [i \in DOMAIN s |-> IF s[i].to \in lost THEN [kind |-> s[i].kind, to |-> NoOne]
                                            ELSE s[i]]

\* setAgentSocket of a connected agent; bootReady is the pending fence.
AgentConnects ==
    /\ link # boot
    /\ link' = boot /\ fences' = fences \cup {boot}
    /\ requests' = Unheard(requests, Caller)
    /\ UNCHANGED <<row, late, agent, writes, drops, replies, events, callers, history>>

\* markInterruptedByNewBoot, started by setAgentSocket and not awaited there.
Fence(b) ==
    /\ b \in fences
    /\ fences' = fences \ {b}
    /\ MarkInterruptedByNewBoot(b)
    /\ UNCHANGED <<safe, late, agent, link, writes, drops, channel, callers, history>>

\* clearAgentSocket: no request of the old socket will be answered any more.
AgentDisconnects ==
    /\ link # NoOne /\ drops < MaxDrops /\ Room(2)
    /\ drops' = drops + 1
    /\ link' = NoOne
    /\ requests' = Unheard(requests, Caller)
    /\ UNCHANGED <<row, late, agent, fences, writes, replies, events, callers, history>>

\* handleAgentJobStarted/Heartbeat/Result: the boot is checked, the write is
\* started and not awaited.
EventArrives(e) ==
    /\ e \in events /\ e.boot = link
    /\ events' = events \ {e}
    /\ writes' = writes \cup {e}
    /\ UNCHANGED <<row, late, agent, link, fences, drops, requests, replies, callers, history>>

EventWritten(e) ==
    /\ e \in writes
    /\ writes' = writes \ {e}
    /\ \/ e.kind = "STARTED" /\ RecordStarted(e.boot)
       \/ e.kind = "HEARTBEAT" /\ RecordHeartbeat(e.boot, e.seq)
       \/ e.kind = "RESULT" /\ RecordResult(e.boot, e.seq, e.state)
    /\ UNCHANGED <<safe, late, agent, link, fences, drops, channel, callers, history>>

-----------------------------------------------------------------------------
(***************************************************************************)
(* AgentRelayService.runAgentJob, cut at its awaits.                       *)
(***************************************************************************)
At(c, pc) == callPc[c] = pc

MovesTo(c, pc) ==
    /\ callPc' = [callPc EXCEPT ![c] = pc]
    /\ UNCHANGED <<callBoot, awaited, cancelSent, calls>>

\* The call returns or throws.
Returns(c) ==
    /\ callPc' = [callPc EXCEPT ![c] = "idle"]
    /\ callBoot' = [callBoot EXCEPT ![c] = NoOne]
    /\ awaited' = [awaited EXCEPT ![c] = NoOne]
    /\ cancelSent' = [cancelSent EXCEPT ![c] = FALSE]
    /\ UNCHANGED calls

\* requestAgent: the packet goes to the socket of this moment, which may be
\* that of a process that is already gone.
Send(c, kind) ==
    requests' = IF link = boot THEN Append(requests, [kind |-> kind, to |-> c])
                ELSE requests

CallUnchanged == UNCHANGED <<late, agent, relay, history>>

\* The promise awaited is the one of the socket connected now.
RunAgentJob(c) ==
    /\ At(c, "idle") /\ calls < MaxCalls /\ Room(1)
    /\ calls' = calls + 1
    /\ callPc' = [callPc EXCEPT ![c] = "fence"]
    /\ awaited' = [awaited EXCEPT ![c] = link]
    /\ UNCHANGED <<callBoot, cancelSent, row, channel>> /\ CallUnchanged

\* bootId is read once the promise has resolved, and never again.
CallReadsBoot(c) ==
    /\ At(c, "fence") /\ awaited[c] \notin fences
    /\ IF link = NoOne THEN Returns(c)
       ELSE /\ callPc' = [callPc EXCEPT ![c] = "prepare"]
            /\ callBoot' = [callBoot EXCEPT ![c] = link]
            /\ awaited' = [awaited EXCEPT ![c] = NoOne]
            /\ UNCHANGED <<cancelSent, calls>>
    /\ UNCHANGED <<row, channel>> /\ CallUnchanged

CallPrepares(c) ==
    /\ At(c, "prepare")
    /\ Create
    /\ IF state \in Terminal THEN Returns(c) ELSE MovesTo(c, "bind")
    /\ UNCHANGED <<safe, channel>> /\ CallUnchanged

CallBinds(c) ==
    /\ At(c, "bind")
    /\ BindToBoot(callBoot[c])
    /\ IF BindAccepts(callBoot[c]) THEN MovesTo(c, "start") ELSE Returns(c)
    /\ UNCHANGED <<safe, channel>> /\ CallUnchanged

CallSendsStart(c) ==
    /\ At(c, "start")
    /\ IF link = NoOne THEN Returns(c) /\ UNCHANGED channel
       ELSE MovesTo(c, "started") /\ Send(c, "START") /\ UNCHANGED <<replies, events>>
    /\ UNCHANGED row /\ CallUnchanged

\* The acknowledgement: its identity is checked, then recordStarted.
CallStarted(c, r) ==
    /\ At(c, "started") /\ r \in replies /\ r.to = c /\ r.kind = "START"
    /\ replies' = replies \ {r}
    /\ \/ /\ r.boot # callBoot[c]
          /\ Returns(c) /\ UNCHANGED row
       \/ /\ r.boot = callBoot[c] /\ ~r.ok
          /\ RecordRejected(r.boot) /\ Returns(c) /\ UNCHANGED safe
       \/ /\ r.boot = callBoot[c] /\ r.ok
          /\ RecordStarted(r.boot) /\ UNCHANGED safe
          /\ IF state \in Terminal \/ boundTo \in {NoOne, r.boot}
             THEN MovesTo(c, "loop") ELSE Returns(c)
    /\ UNCHANGED <<requests, events>> /\ CallUnchanged

\* The polling loop sees a decided row.
CallSeesEnd(c) ==
    /\ At(c, "loop") /\ state \in Terminal
    /\ Returns(c)
    /\ UNCHANGED <<row, channel>> /\ CallUnchanged

\* The operation's cancellation is passed on once.
CallRequestsCancel(c) ==
    /\ At(c, "loop") /\ ~cancelSent[c]
    /\ RequestCancel
    /\ cancelSent' = [cancelSent EXCEPT ![c] = TRUE]
    /\ callPc' = [callPc EXCEPT ![c] =
                    IF state \notin Terminal /\ safe THEN "cancel" ELSE "loop"]
    /\ UNCHANGED <<safe, callBoot, awaited, calls, channel>> /\ CallUnchanged

CallSendsCancel(c) ==
    /\ At(c, "cancel")
    /\ IF link # callBoot[c] THEN Returns(c) /\ UNCHANGED channel
       ELSE MovesTo(c, "cancelled") /\ Send(c, "CANCEL") /\ UNCHANGED <<replies, events>>
    /\ UNCHANGED row /\ CallUnchanged

CallCancelled(c, r) ==
    /\ At(c, "cancelled") /\ r \in replies /\ r.to = c /\ r.kind = "CANCEL"
    /\ replies' = replies \ {r}
    /\ RecordCancelOutcome(r.outcome)
    /\ MovesTo(c, "loop")
    /\ UNCHANGED <<safe, requests, events>> /\ CallUnchanged

\* Every ten seconds, while the socket is still that of the call's boot.
CallQueriesStatus(c) ==
    /\ At(c, "loop") /\ state \notin Terminal /\ link = callBoot[c]
    /\ MovesTo(c, "status") /\ Send(c, "STATUS") /\ UNCHANGED <<replies, events>>
    /\ UNCHANGED row /\ CallUnchanged

CallStatus(c, r) ==
    /\ At(c, "status") /\ r \in replies /\ r.to = c /\ r.kind = "STATUS"
    /\ replies' = replies \ {r}
    /\ IF r.boot # link THEN Returns(c) /\ UNCHANGED row
       ELSE MovesTo(c, "loop") /\ RecordStatus(r) /\ UNCHANGED safe
    /\ UNCHANGED <<requests, events>> /\ CallUnchanged

\* requestAgent's timeout: the packet may still be handled, unheard.
CallTimesOut(c) ==
    /\ callPc[c] \in Waiting
    /\ Returns(c)
    /\ requests' = Unheard(requests, {c})
    /\ replies' = {r \in replies : r.to # c}
    /\ UNCHANGED <<row, events>> /\ CallUnchanged

\* The loop's deadline.
CallDeadline(c) ==
    /\ At(c, "loop") /\ late
    /\ MarkDeadlineUnknown
    /\ Returns(c)
    /\ UNCHANGED <<safe, channel>> /\ CallUnchanged

\* The API process restarts: its calls, its socket and its writes are gone.
ApiRestart ==
    /\ drops < MaxDrops /\ Room(2)
    /\ drops' = drops + 1
    /\ link' = NoOne /\ fences' = {} /\ writes' = {}
    /\ requests' = Unheard(requests, Caller) /\ replies' = {}
    /\ callPc' = [c \in Caller |-> "idle"]
    /\ callBoot' = [c \in Caller |-> NoOne]
    /\ awaited' = [c \in Caller |-> NoOne]
    /\ cancelSent' = [c \in Caller |-> FALSE]
    /\ UNCHANGED <<row, late, agent, events, calls, history>>

DeadlinePasses ==
    /\ ~late /\ state # "ABSENT"
    /\ late' = TRUE
    /\ UNCHANGED <<row, agent, relay, channel, callers, history>>

AgentStep ==
    \/ AgentReplaysStart \/ AgentRejectsStart \/ AgentAcceptsStart \/ AgentDropsStart
    \/ AgentReportsStatus \/ AgentCancels
    \/ \E st \in RuntimeTerminal : HandlerEnds(st)
    \/ AgentDeadline \/ AgentHeartbeat \/ AgentRestart

RelayStep ==
    \/ AgentConnects \/ AgentDisconnects
    \/ \E b \in fences : Fence(b)
    \/ \E e \in events : EventArrives(e)
    \/ \E e \in writes : EventWritten(e)

CallStep(c) ==
    \/ RunAgentJob(c) \/ CallReadsBoot(c) \/ CallPrepares(c) \/ CallBinds(c)
    \/ CallSendsStart(c) \/ CallSeesEnd(c) \/ CallRequestsCancel(c)
    \/ CallSendsCancel(c) \/ CallQueriesStatus(c) \/ CallTimesOut(c) \/ CallDeadline(c)
    \/ \E r \in replies : CallStarted(c, r) \/ CallCancelled(c, r) \/ CallStatus(c, r)

Next ==
    \/ AgentStep \/ RelayStep \/ ApiRestart \/ DeadlinePasses
    \/ \E c \in Caller : CallStep(c)

Spec == Init /\ [][Next]_vars

-----------------------------------------------------------------------------
RowTypeOK ==
    /\ state \in {"ABSENT"} \cup Open \cup Terminal
    /\ boundTo \in Boot \cup {NoOne}
    /\ sequence \in Nat
    /\ cancelOutcome \in {"none", "REQUESTED", "NOT_CANCELLABLE", "CANCELLED",
                          "NOT_FOUND", "ALREADY_TERMINAL"}
    /\ safe \in BOOLEAN

AgentTypeOK ==
    /\ boot \in Boot /\ jobState \in {"NONE"} \cup RuntimeActive \cup RuntimeTerminal
    /\ jobSeq \in Nat /\ beats \in 0..MaxBeats /\ late \in BOOLEAN
    /\ ended \in [Boot -> {"no"} \cup RuntimeTerminal] /\ runs \in Nat
    /\ refused \subseteq Boot

RelayTypeOK ==
    /\ drops \in 0..MaxDrops /\ link \in Boot \cup {NoOne} /\ fences \subseteq Boot /\ writes \subseteq Event
    /\ requests \in Seq(Request) /\ replies \subseteq Reply /\ events \subseteq Event

CallTypeOK ==
    /\ callPc \in [Caller -> {"idle", "fence", "prepare", "bind", "start", "loop",
                              "cancel"} \cup Waiting]
    /\ callBoot \in [Caller -> Boot \cup {NoOne}]
    /\ awaited \in [Caller -> Boot \cup {NoOne}]
    /\ cancelSent \in [Caller -> BOOLEAN]
    /\ calls \in 0..MaxCalls

\* Every variable has its type: the row's states are those of AgentJobService,
\* the runtime's those that AgentJobRuntime assigns.
JobTypeOK == RowTypeOK /\ AgentTypeOK /\ RelayTypeOK /\ CallTypeOK

\* A row never reports a success or a cancellation that did not happen: what
\* recordResult and recordStatus wrote is how the handler ended on the very
\* agent boot the row is bound to, however late, repeated or reordered the
\* events and the status answers were.
ResultIsTrue ==
    state \in {"SUCCEEDED", "CANCELLED"} => boundTo # NoOne /\ ended[boundTo] = state

\* A lost job.result is never lost for good: while the row is open and bound
\* to the running agent, whose handler has ended, the sequence the agent would
\* report is above the one recorded, so that the strict comparison in
\* recordResult accepts the next status answer or repeated result.
LostResultRecoverable ==
    state \in Open /\ boundTo = boot /\ jobState \in RuntimeTerminal
        => sequence < jobSeq

\* A row that reports how the job ended is bound to no agent process that is
\* still at work on it, however the answers to overlapping calls are ordered.
\* The one exception is the write by id of a refused START: a process that
\* first refuses the START of one call and then accepts that of another (a
\* place under the limit of two active jobs is free again) leaves FAILED on a
\* job that runs.
DecidedMeansStopped ==
    state \in {"SUCCEEDED", "FAILED", "CANCELLED"} /\ boundTo = boot
        /\ jobState \in RuntimeActive
        => state = "FAILED" /\ boot \in refused

\* The row only moves forward: its sequence never decreases, the boot it is
\* bound to is never exchanged for another and a decided row never changes,
\* except that a process which refused the job makes it FAILED and its own.
RowMovesForward ==
    [][/\ sequence' >= sequence
       /\ boundTo # NoOne /\ boundTo' # boundTo
            => state' = "FAILED" /\ boundTo' \in refused
       /\ state \in Terminal /\ state' # state
            => state' = "FAILED" /\ boundTo' \in refused]_vars

\* "The deterministic ID prevents duplicate effects after API or Socket.IO
\* reconnects" (schema.prisma): the handler of a job runs at most once.
EffectsAtMostOnce == runs <= 1

=============================================================================
