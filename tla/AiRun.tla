------------------------------- MODULE AiRun -------------------------------
(***************************************************************************)
(* The life of an AI run: the ai_runs row that several processes write,    *)
(* the API process that produces its answer, the client's cancel request   *)
(* and the worker that recovers stale runs.                                *)
(*                                                                         *)
(* Every SQL statement or transaction is one step.  The producer is the    *)
(* promise chain AiService.start -> chat() -> createLifecycleMiddleware -> *)
(* createPublicStream; each await of it that other processes can observe   *)
(* is a value of pc.  A run's lease is measured by age, the time since     *)
(* heartbeat_at: both writers of the row set deadline_at to heartbeat_at   *)
(* plus the lease, so one number stands for both columns.                  *)
(***************************************************************************)
EXTENDS Naturals, Sequences

CONSTANTS
  Runs,             \* run identifiers a client may post
  Messages,         \* user messages the runs answer
  MessageOf,        \* the user message each run is posted for
  NoRun,            \* "no run has stored this message"
  Lease,            \* runLeaseMilliseconds, in ticks
  HeartbeatLimit,   \* recovery's 120 s heartbeat cutoff, in ticks
  MaxChunks,        \* bound: visible chunks a run streams
  MaxFaults         \* bound: failed database calls

ASSUME AiRunAssumption ==
  /\ MessageOf \in [Runs -> Messages]
  /\ NoRun \notin Runs
  /\ Lease \in Nat \ {0}
  /\ HeartbeatLimit \in Nat
  /\ Lease <= HeartbeatLimit
  /\ MaxChunks \in Nat
  /\ MaxFaults \in Nat

VARIABLES
  status,        \* ai_runs.status, "absent" without a row
  closed,        \* ai_runs.stream_closed_at is set
  age,           \* now - ai_runs.heartbeat_at, up to HeartbeatLimit
  assistant,     \* the run's assistant message is stored
  userMessage,   \* the run that stored the user message (messages.run_id)
  log,           \* ai_run_events of the run, in id order
  pc,            \* where the run's producer is
  terminal,      \* createTerminalState's status
  abort,         \* the abort signal and the kind of its reason
  gone,          \* the consumer called the public stream's return()
  poll,          \* a cancellation poll whose answer is not applied yet
  renew,         \* a failed lease renewal on its way to an abort
  cancel,        \* the client's cancel request for the run
  faults         \* failed database calls so far

row == <<status, closed, age>>
tables == <<status, closed, age, assistant, userMessage, log>>
memory == <<terminal, abort, gone, poll, renew>>
vars == <<status, closed, age, assistant, userMessage, log,
          pc, terminal, abort, gone, poll, renew, cancel, faults>>

Statuses == {"absent", "reserved", "completed", "failed", "cancelled"}
Decided == {"completed", "failed", "cancelled"}
SourceChunks == {"chunk", "finished", "error"}
Ended == {"done", "dead"}
Places == {"idle", "begun", "streaming", "completing", "failing",
           "draining", "closing"} \cup Ended
Replies == {"none", "missed", "cancelled", "already_cancelled",
            "completed", "failed", "not_found"}

TypeOK ==
  /\ status \in [Runs -> Statuses]
  /\ closed \in [Runs -> BOOLEAN]
  /\ age \in [Runs -> 0..HeartbeatLimit]
  /\ assistant \in [Runs -> BOOLEAN]
  /\ userMessage \in [Messages -> Runs \cup {NoRun}]
  /\ log \in [Runs -> Seq(SourceChunks)]
  /\ pc \in [Runs -> Places]
  /\ terminal \in [Runs -> {"pending", "succeeded", "failed", "cancelled"}]
  /\ abort \in [Runs -> {"none", "cancel", "failure"}]
  /\ gone \in [Runs -> BOOLEAN]
  /\ poll \in [Runs -> {"idle", "cancelled", "error"}]
  /\ renew \in [Runs -> {"idle", "failed", "lost", "cancelled"}]
  /\ cancel \in [Runs -> Replies]
  /\ faults \in 0..MaxFaults

Init ==
  /\ status = [r \in Runs |-> "absent"]
  /\ closed = [r \in Runs |-> FALSE]
  /\ age = [r \in Runs |-> 0]
  /\ assistant = [r \in Runs |-> FALSE]
  /\ userMessage = [m \in Messages |-> NoRun]
  /\ log = [r \in Runs |-> <<>>]
  /\ pc = [r \in Runs |-> "idle"]
  /\ terminal = [r \in Runs |-> "pending"]
  /\ abort = [r \in Runs |-> "none"]
  /\ gone = [r \in Runs |-> FALSE]
  /\ poll = [r \in Runs |-> "idle"]
  /\ renew = [r \in Runs |-> "idle"]
  /\ cancel = [r \in Runs |-> "none"]
  /\ faults = 0

-----------------------------------------------------------------------------
(* The guards the handlers share.                                          *)

\* A database call that fails: the caller sees an exception.
Fault == faults < MaxFaults /\ faults' = faults + 1

\* Mutant: the terminal updates lose their WHERE status = 'reserved'.
LeaseHeldUnchecked(r) == status[r] # "absent"

\* WHERE status = 'reserved', the condition of every terminal update.
LeaseHeld(r) == status[r] = "reserved"

\* Mutants: recovery looks at the lease alone; recovery joins the event log.
StaleAnyStatus(r) == status[r] # "absent" /\ age[r] >= Lease
StaleWithEvents(r) ==
  status[r] = "reserved" /\ age[r] >= Lease /\ log[r] # <<>>

\* Recovery's predicate over deadline_at and heartbeat_at.
Stale(r) ==
  /\ status[r] = "reserved"
  /\ age[r] >= Lease \/ age[r] >= HeartbeatLimit

\* !stopped && !aborted: every hook that ends the stream calls stop().
Active(r) == pc[r] = "streaming" /\ ~gone[r] /\ abort[r] = "none"

\* RUN_CANCEL_REASON when the database said so, a failure's reason otherwise.
AbortKind(answer) == IF answer = "cancelled" THEN "cancel" ELSE "failure"

\* Mutant: the source's terminal chunks pass through.
VisibleUnfiltered(c) == c \in SourceChunks

\* createPublicStream drops the source's own RUN_FINISHED and RUN_ERROR.
Visible(c) == c = "chunk"

\* Mutants: every uncancelled end is announced as success; success is silent.
TerminalChunkOptimistic(t) == IF t = "cancelled" THEN <<>> ELSE <<"finished">>
TerminalChunkErrorsOnly(t) == IF t = "failed" THEN <<"error">> ELSE <<>>

\* The one chunk the public stream adds after its source has ended.
TerminalChunk(t) ==
  CASE t = "succeeded" -> <<"finished">>
    [] t = "failed" -> <<"error">>
    [] OTHER -> <<>>

\* What cancelRun answers from the status it reads after its update missed.
CancelOutcome(s) ==
  CASE s = "absent" -> "not_found"
    [] s = "cancelled" -> "already_cancelled"
    [] s = "completed" -> "completed"
    [] OTHER -> "failed"

-----------------------------------------------------------------------------
(* AiService.start: reserve the run, prepare, hand the stream over.        *)

\* beginRun.  A second post of the same run inserts nothing and is answered
\* 409; a run whose message does not match is rolled back: neither changes
\* any state.  When the commit's acknowledgement is lost the exception is
\* thrown outside start's try, and the row stays without a producer.
BeginRun(r) ==
  /\ pc[r] = "idle"
  /\ status[r] = "absent"
  /\ status' = [status EXCEPT ![r] = "reserved"]
  /\ age' = [age EXCEPT ![r] = 0]
  /\ userMessage' = [userMessage EXCEPT
                       ![MessageOf[r]] = IF @ = NoRun THEN r ELSE @]
  /\ \/ pc' = [pc EXCEPT ![r] = "begun"] /\ UNCHANGED faults
     \/ pc' = [pc EXCEPT ![r] = "dead"] /\ Fault
  /\ UNCHANGED <<closed, assistant, log, memory, cancel>>

\* The rest of start succeeded and the response iterates the public stream.
StartStream(r) ==
  /\ pc[r] = "begun"
  /\ pc' = [pc EXCEPT ![r] = "streaming"]
  /\ UNCHANGED <<tables, memory, cancel, faults>>

\* Mutant: start's catch calls failRun.
FailRunAndCloseForgotten(r) ==
  /\ pc[r] = "begun"
  /\ pc' = [pc EXCEPT ![r] = "done"]
  /\ status' = [status EXCEPT ![r] = IF LeaseHeld(r) THEN "failed" ELSE @]
  /\ UNCHANGED <<closed, age, assistant, userMessage, log, memory, cancel, faults>>

\* A read between beginRun and createStream throws: failRunAndClose.
FailRunAndClose(r) ==
  /\ pc[r] = "begun"
  /\ pc' = [pc EXCEPT ![r] = "done"]
  /\ \/ /\ LeaseHeld(r)
        /\ status' = [status EXCEPT ![r] = "failed"]
        /\ closed' = [closed EXCEPT ![r] = TRUE]
        /\ UNCHANGED faults
     \/ /\ ~LeaseHeld(r)
        /\ UNCHANGED <<status, closed, faults>>
     \/ /\ Fault
        /\ UNCHANGED <<status, closed>>
  /\ UNCHANGED <<age, assistant, userMessage, log, memory, cancel>>

-----------------------------------------------------------------------------
(* The stream's timers: cancellation poll, lease renewal, overall timeout. *)

\* pollCancellation's query.  An answer "not cancelled" changes nothing.
PollCancellation(r) ==
  /\ Active(r) /\ poll[r] = "idle"
  /\ \/ /\ status[r] = "cancelled"
        /\ poll' = [poll EXCEPT ![r] = "cancelled"]
        /\ UNCHANGED faults
     \/ /\ Fault
        /\ poll' = [poll EXCEPT ![r] = "error"]
  /\ UNCHANGED <<tables, pc, terminal, abort, gone, renew, cancel>>

\* The poll's then/catch callback, which may run after stop() or an abort.
ApplyPoll(r) ==
  /\ poll[r] # "idle"
  /\ poll' = [poll EXCEPT ![r] = "idle"]
  /\ abort' = [abort EXCEPT ![r] =
                 IF Active(r) THEN AbortKind(poll[r]) ELSE @]
  /\ UNCHANGED <<tables, pc, terminal, gone, renew, cancel, faults>>

\* renewRunLease: extends a reserved run's lease, rejects for any other.
RenewLease(r) ==
  /\ Active(r) /\ renew[r] = "idle"
  /\ \/ /\ LeaseHeld(r)
        /\ age' = [age EXCEPT ![r] = 0]
        /\ UNCHANGED <<renew, faults>>
     \/ /\ ~LeaseHeld(r)
        /\ renew' = [renew EXCEPT ![r] = "failed"]
        /\ UNCHANGED <<age, faults>>
     \/ /\ Fault
        /\ renew' = [renew EXCEPT ![r] = "failed"]
        /\ UNCHANGED age
  /\ UNCHANGED <<status, closed, assistant, userMessage, log,
                 pc, terminal, abort, gone, poll, cancel>>

\* The rejected renewal asks whether the run was cancelled; an error of the
\* question counts as "no".
CheckLostLease(r) ==
  /\ renew[r] = "failed"
  /\ \/ /\ ~Active(r)
        /\ renew' = [renew EXCEPT ![r] = "idle"]
        /\ UNCHANGED faults
     \/ /\ Active(r)
        /\ renew' = [renew EXCEPT ![r] =
                       IF status[r] = "cancelled" THEN "cancelled" ELSE "lost"]
        /\ UNCHANGED faults
     \/ /\ Active(r) /\ Fault
        /\ renew' = [renew EXCEPT ![r] = "lost"]
  /\ UNCHANGED <<tables, pc, terminal, abort, gone, poll, cancel>>

AbortLostLease(r) ==
  /\ renew[r] \in {"lost", "cancelled"}
  /\ renew' = [renew EXCEPT ![r] = "idle"]
  /\ abort' = [abort EXCEPT ![r] =
                 IF Active(r) THEN AbortKind(renew[r]) ELSE @]
  /\ UNCHANGED <<tables, pc, terminal, gone, poll, cancel, faults>>

\* Mutants: the timeout aborts with RUN_CANCEL_REASON; the timeout is cleared
\* by the first chunk.
OverallTimeoutAsCancel(r) ==
  /\ Active(r)
  /\ abort' = [abort EXCEPT ![r] = "cancel"]
  /\ UNCHANGED <<tables, pc, terminal, gone, poll, renew, cancel, faults>>
OverallTimeoutFirstChunk(r) ==
  /\ Active(r) /\ log[r] = <<>>
  /\ abort' = [abort EXCEPT ![r] = "failure"]
  /\ UNCHANGED <<tables, pc, terminal, gone, poll, renew, cancel, faults>>

\* The overall timeout aborts whatever the provider is doing.
OverallTimeout(r) ==
  /\ Active(r)
  /\ abort' = [abort EXCEPT ![r] = "failure"]
  /\ UNCHANGED <<tables, pc, terminal, gone, poll, renew, cancel, faults>>

-----------------------------------------------------------------------------
(* The stream itself: source chunks, the hooks that end it, persistence.   *)

\* next(): a chunk of the source reaches the client and the event log.
ForwardChunk(r) ==
  /\ pc[r] = "streaming" /\ ~gone[r]
  /\ Len(log[r]) < MaxChunks
  /\ \E c \in SourceChunks :
       Visible(c) /\ log' = [log EXCEPT ![r] = Append(@, c)]
  /\ UNCHANGED <<row, assistant, userMessage, pc, memory, cancel, faults>>

\* return(): the consumer left.  The signal is raised unless it already was.
ConsumerReturns(r) ==
  /\ pc[r] \in {"streaming", "completing", "failing"} /\ ~gone[r]
  /\ gone' = [gone EXCEPT ![r] = TRUE]
  /\ abort' = [abort EXCEPT ![r] =
                 IF pc[r] = "streaming" /\ @ = "none" THEN "failure" ELSE @]
  /\ UNCHANGED <<tables, pc, terminal, poll, renew, cancel, faults>>

\* onFinish with a usable result: terminal.complete, still pending.
FinishSource(r) ==
  /\ pc[r] = "streaming"
  /\ pc' = [pc EXCEPT ![r] = "completing"]
  /\ UNCHANGED <<tables, memory, cancel, faults>>

\* onFinish with an incomplete result, onError, an iterator that throws or
\* returns while the state is pending: terminal.fail.
FailSource(r) ==
  /\ pc[r] = "streaming"
  /\ terminal' = [terminal EXCEPT ![r] = "failed"]
  /\ pc' = [pc EXCEPT ![r] = "failing"]
  /\ UNCHANGED <<tables, abort, gone, poll, renew, cancel, faults>>

\* onAbort: a cancellation is already in the database, any other reason is
\* a failure to record.
AbortSource(r) ==
  /\ pc[r] = "streaming" /\ abort[r] # "none"
  /\ \/ /\ abort[r] = "cancel"
        /\ terminal' = [terminal EXCEPT ![r] = "cancelled"]
        /\ pc' = [pc EXCEPT ![r] = "draining"]
     \/ /\ abort[r] = "failure"
        /\ terminal' = [terminal EXCEPT ![r] = "failed"]
        /\ pc' = [pc EXCEPT ![r] = "failing"]
  /\ UNCHANGED <<tables, abort, gone, poll, renew, cancel, faults>>

\* onComplete: completeRun's transaction.  The verdict is "succeeded" only
\* when its promise resolves; a lost lease, a catalog error before it and a
\* lost commit acknowledgement all lead to onFailure.
CompleteRun(r) ==
  /\ pc[r] = "completing"
  /\ \/ /\ LeaseHeld(r)
        /\ status' = [status EXCEPT ![r] = "completed"]
        /\ assistant' = [assistant EXCEPT ![r] = TRUE]
        /\ \/ /\ terminal' = [terminal EXCEPT ![r] = "succeeded"]
              /\ pc' = [pc EXCEPT ![r] = "draining"]
              /\ UNCHANGED faults
           \/ /\ terminal' = [terminal EXCEPT ![r] = "failed"]
              /\ pc' = [pc EXCEPT ![r] = "failing"]
              /\ Fault
     \/ /\ terminal' = [terminal EXCEPT ![r] = "failed"]
        /\ pc' = [pc EXCEPT ![r] = "failing"]
        /\ UNCHANGED <<status, assistant, faults>>
  /\ UNCHANGED <<closed, age, userMessage, log, abort, gone, poll, renew, cancel>>

\* onFailure: failRun.  Its exception is swallowed and the stream ends.
FailRun(r) ==
  /\ pc[r] = "failing"
  /\ pc' = [pc EXCEPT ![r] = "draining"]
  /\ \/ /\ LeaseHeld(r)
        /\ status' = [status EXCEPT ![r] = "failed"]
        /\ UNCHANGED faults
     \/ /\ ~LeaseHeld(r)
        /\ UNCHANGED <<status, faults>>
     \/ /\ Fault
        /\ UNCHANGED status
  /\ UNCHANGED <<closed, age, assistant, userMessage, log, memory, cancel>>

\* The terminal chunk is appended; a consumer that left may have missed it,
\* and the append itself may fail.
EmitTerminal(r) ==
  /\ pc[r] = "draining"
  /\ pc' = [pc EXCEPT ![r] = "closing"]
  /\ \/ /\ log' = [log EXCEPT ![r] = @ \o TerminalChunk(terminal[r])]
        /\ UNCHANGED faults
     \/ /\ gone[r]
        /\ UNCHANGED <<log, faults>>
     \/ /\ Fault
        /\ UNCHANGED log
  /\ UNCHANGED <<row, assistant, userMessage, memory, cancel>>

\* durability.close, unconditional in the status.
CloseStream(r) ==
  /\ pc[r] = "closing"
  /\ pc' = [pc EXCEPT ![r] = "done"]
  /\ \/ /\ closed' = [closed EXCEPT ![r] = TRUE]
        /\ UNCHANGED faults
     \/ /\ Fault
        /\ UNCHANGED closed
  /\ UNCHANGED <<status, age, assistant, userMessage, log, memory, cancel>>

\* The API process dies: what it held in memory is gone, the row stays.
Crash(r) ==
  /\ pc[r] \notin {"idle"} \cup Ended
  /\ pc' = [pc EXCEPT ![r] = "dead"]
  /\ terminal' = [terminal EXCEPT ![r] = "pending"]
  /\ abort' = [abort EXCEPT ![r] = "none"]
  /\ gone' = [gone EXCEPT ![r] = FALSE]
  /\ poll' = [poll EXCEPT ![r] = "idle"]
  /\ renew' = [renew EXCEPT ![r] = "idle"]
  /\ UNCHANGED <<tables, cancel, faults>>

-----------------------------------------------------------------------------
(* The client's cancel request and the worker.                             *)

\* cancelRun's update.  A lost acknowledgement leaves the client unanswered.
CancelRun(r) ==
  /\ cancel[r] # "missed"
  /\ \/ /\ LeaseHeld(r)
        /\ status' = [status EXCEPT ![r] = "cancelled"]
        /\ closed' = [closed EXCEPT ![r] = TRUE]
        /\ \/ cancel' = [cancel EXCEPT ![r] = "cancelled"] /\ UNCHANGED faults
           \/ cancel' = [cancel EXCEPT ![r] = "none"] /\ Fault
     \/ /\ ~LeaseHeld(r)
        /\ cancel' = [cancel EXCEPT ![r] = "missed"]
        /\ UNCHANGED <<status, closed, faults>>
  /\ UNCHANGED <<age, assistant, userMessage, log, pc, memory>>

\* cancelRun's second statement: under READ COMMITTED it sees what others
\* committed after the update.
ReportCancel(r) ==
  /\ cancel[r] = "missed"
  /\ cancel' = [cancel EXCEPT ![r] = CancelOutcome(status[r])]
  /\ UNCHANGED <<tables, pc, memory, faults>>

\* Time passes for every reserved row.
Tick ==
  /\ \E r \in Runs : status[r] = "reserved" /\ age[r] < HeartbeatLimit
  /\ age' = [r \in Runs |->
               IF status[r] = "reserved" /\ age[r] < HeartbeatLimit
                 THEN age[r] + 1 ELSE age[r]]
  /\ UNCHANGED <<status, closed, assistant, userMessage, log,
                 pc, memory, cancel, faults>>

\* Mutant: recovery sets the status only.
RecoverWithoutClose(locked) ==
  LET stale == {r \in Runs : Stale(r)} \ locked
  IN /\ stale # {}
     /\ status' = [r \in Runs |-> IF r \in stale THEN "failed" ELSE status[r]]
     /\ UNCHANGED <<closed, age, assistant, userMessage, log, pc, memory,
                    cancel, faults>>

\* recoverStaleReservedRuns: one transaction fails every stale run whose row
\* no other transaction has locked.
RecoverStaleReservedRuns(locked) ==
  LET stale == {r \in Runs : Stale(r)} \ locked
  IN /\ stale # {}
     /\ status' = [r \in Runs |-> IF r \in stale THEN "failed" ELSE status[r]]
     /\ closed' = [r \in Runs |-> IF r \in stale THEN TRUE ELSE closed[r]]
     /\ UNCHANGED <<age, assistant, userMessage, log, pc, memory, cancel, faults>>

-----------------------------------------------------------------------------
Producer(r) ==
  \/ BeginRun(r) \/ StartStream(r) \/ FailRunAndClose(r)
  \/ PollCancellation(r) \/ ApplyPoll(r)
  \/ RenewLease(r) \/ CheckLostLease(r) \/ AbortLostLease(r)
  \/ OverallTimeout(r) \/ ForwardChunk(r) \/ ConsumerReturns(r)
  \/ FinishSource(r) \/ FailSource(r) \/ AbortSource(r)
  \/ CompleteRun(r) \/ FailRun(r) \/ EmitTerminal(r) \/ CloseStream(r)
  \/ Crash(r)

Client(r) == CancelRun(r) \/ ReportCancel(r)

Worker == Tick \/ \E locked \in SUBSET Runs : RecoverStaleReservedRuns(locked)

Next == Worker \/ \E r \in Runs : Producer(r) \/ Client(r)

Spec == Init /\ [][Next]_vars

\* What the runtime guarantees: timers fire, awaited calls settle, an abort
\* ends the source, and the worker's loop comes round with the rows free.
\* Nothing makes the provider finish, a client cancel or a process crash.
Fairness ==
  /\ WF_vars(Tick) /\ WF_vars(RecoverStaleReservedRuns({}))
  /\ \A r \in Runs :
       /\ WF_vars(StartStream(r) \/ FailRunAndClose(r))
       /\ WF_vars(OverallTimeout(r)) /\ WF_vars(AbortSource(r))
       /\ WF_vars(CompleteRun(r)) /\ WF_vars(FailRun(r))
       /\ WF_vars(EmitTerminal(r)) /\ WF_vars(CloseStream(r))

FairSpec == Spec /\ Fairness

-----------------------------------------------------------------------------
(* Properties.                                                             *)

Ledger == INSTANCE RunLedger WITH outcome <- status, answered <- assistant

\* The row and the messages behave like the ledger: completion, failure,
\* cancellation and recovery race for a reserved run and exactly one wins,
\* and the assistant message is there if and only if completion won.
ImplementsLedger == Ledger!Spec

\* A client that is told RUN_FINISHED finds the answer in the conversation.
FinishedMeansStored ==
  \A r \in Runs : \A i \in DOMAIN log[r] :
    log[r][i] = "finished" => status[r] = "completed" /\ assistant[r]

\* A client that is told RUN_ERROR finds no answer, unless a database call
\* failed (a commit whose acknowledgement was lost is reported as an error).
ErrorMeansNotStored ==
  \A r \in Runs : \A i \in DOMAIN log[r] :
    log[r][i] = "error" /\ faults = 0 => ~assistant[r]

\* A run's event log carries at most one terminal chunk, as its last event.
TerminalChunkIsLast ==
  \A r \in Runs : \A i \in DOMAIN log[r] :
    log[r][i] # "chunk" =>
      i = Len(log[r]) /\ pc[r] \in {"closing"} \cup Ended

\* What the event log tells a client of the end of its run is what the tables
\* say (RUN_FINISHED, RUN_ERROR, and nothing after either).
VerdictMatchesTables ==
  FinishedMeansStored /\ ErrorMeansNotStored /\ TerminalChunkIsLast

\* When a producer reaches its end on its own, its run is decided: no path
\* through the hooks leaves the reservation to the worker, unless a database
\* call failed.
EndedMeansDecided ==
  \A r \in Runs :
    pc[r] \in {"draining", "closing", "done"} /\ faults = 0 =>
      status[r] \in Decided

\* The stream of a completed run is closed only after its RUN_FINISHED is in
\* the log, unless the consumer left or a database call failed.
ClosedHasVerdict ==
  \A r \in Runs :
    closed[r] /\ status[r] = "completed" /\ ~gone[r] /\ faults = 0 =>
      log[r] # <<>> /\ log[r][Len(log[r])] = "finished"

\* What cancel answers stays true: "cancelled" and "already_cancelled" of a
\* run no answer will ever appear for, "completed" of an answered one.
CancelReplyHonoured ==
  \A r \in Runs :
    /\ cancel[r] \in {"cancelled", "already_cancelled"} =>
         status[r] = "cancelled" /\ ~assistant[r]
    /\ cancel[r] = "completed" => status[r] = "completed" /\ assistant[r]

\* cancel answers "failed" only of a failed run.
CancelFailedMeansFailed ==
  \A r \in Runs : cancel[r] = "failed" => status[r] = "failed"

\* What FinishedMeansStored and its neighbours need to be inductive.
\* The answer is written by the transaction that completes the run.
AnswerIffCompleted ==
  \A r \in Runs : assistant[r] <=> status[r] = "completed"

\* The producer believes in a cancellation or a success only once the row
\* records it, on every path that carries the belief.
BeliefIsRecorded ==
  \A r \in Runs :
    /\ \/ poll[r] = "cancelled" \/ renew[r] = "cancelled"
       \/ abort[r] = "cancel" \/ terminal[r] = "cancelled"
       => status[r] = "cancelled"
    /\ terminal[r] = "succeeded" => status[r] = "completed"

\* Where the producer of a run in each state can be.
PlaceFitsStatus ==
  \A r \in Runs :
    /\ pc[r] # "idle" => status[r] # "absent"
    /\ status[r] = "completed" =>
         /\ pc[r] \in {"failing", "draining", "closing"} \cup Ended
         /\ faults = 0 => pc[r] = "dead" \/ terminal[r] = "succeeded"
    /\ closed[r] => status[r] \in {"cancelled", "failed"} \/ pc[r] = "done"

\* The verdict of a completed run is logged before its stream is closed.
VerdictBeforeClose ==
  \A r \in Runs :
    pc[r] \in {"closing", "done"} /\ status[r] = "completed"
      /\ ~gone[r] /\ faults = 0
    => log[r] # <<>> /\ log[r][Len(log[r])] = "finished"

\* The inductive invariant behind the theorems of AiProofs.
Inductive ==
  /\ TypeOK
  /\ AnswerIffCompleted
  /\ BeliefIsRecorded
  /\ PlaceFitsStatus
  /\ VerdictBeforeClose
  /\ FinishedMeansStored
  /\ ErrorMeansNotStored
  /\ TerminalChunkIsLast
  /\ EndedMeansDecided
  /\ CancelReplyHonoured

\* A reservation does not outlive its producer: completed, failed, cancelled
\* or recovered, every reserved run is decided in the end.
ReservedIsDecided ==
  \A r \in Runs : status[r] = "reserved" ~> status[r] \in Decided

\* A provider that never answers does not keep the producer: every stream
\* ends, by its source, a cancellation, a lost lease or the timeout.
ProducerEnds == \A r \in Runs : pc[r] = "streaming" ~> pc[r] \in Ended

\* The runs whose stream stays open for ever: decided by their producer,
\* which died, or whose close failed, before stream_closed_at was written.
\* Recovery looks at reserved rows only and never reaches them.
Stranded(r) ==
  /\ ~closed[r] /\ status[r] \in {"completed", "failed"}
  /\ pc[r] = "dead" \/ (pc[r] = "done" /\ faults > 0)

\* Every other run's stream is closed in the end, so its replays end.
StreamCloses ==
  \A r \in Runs : status[r] = "reserved" ~> (closed[r] \/ Stranded(r))

\* A run that lost its producer before it was decided is closed too: the
\* worker's recovery ends its replays.
OrphanStreamCloses ==
  \A r \in Runs :
    status[r] = "reserved" /\ pc[r] \in Ended ~> closed[r]

\* A run comes to its end in every respect: its row, its producer, its stream.
RunsComplete ==
  ReservedIsDecided /\ ProducerEnds /\ StreamCloses /\ OrphanStreamCloses
=============================================================================
