------------------------------ MODULE AiProofs ------------------------------
(***************************************************************************)
(* Theorems about AiRun and AiReplay, for every set of runs, messages and  *)
(* replays, every lease and page size and every bound on chunks and        *)
(* faults.                                                                 *)
(*                                                                         *)
(* The steps of the row and the message table are separated from the rest: *)
(* LedgerStep shows that every step of AiRun is a step of RunLedger or     *)
(* leaves the ledger alone, and LedgerKeeps what any ledger step keeps (a  *)
(* decision is final).  The lemmas about the producer's memory, its place  *)
(* and the event log use only that, never which action decided a run.      *)
(*                                                                         *)
(* What the end of a replay tells its client comes after: the steps of     *)
(* AiRun are reused through its inductive invariant; the steps of the      *)
(* readers change none of AiRun's variables.                               *)
(***************************************************************************)
EXTENDS AiReplay, SequenceTheorems, TLAPS

\* Every step keeps every variable within its type.
LEMMA TypeStep ==
  ASSUME TypeOK, [Next]_vars
  PROVE  TypeOK'
<1> USE DEF TypeOK, Statuses, SourceChunks, Ended, Places, Replies, row, tables, memory
<1>0. Fault => faults' \in 0..MaxFaults
  BY AiRunAssumption DEF Fault, AiRunAssumption
<1>h. 0 \in 0..HeartbeatLimit
  BY AiRunAssumption DEF AiRunAssumption
<1>1. ASSUME NEW r \in Runs, BeginRun(r) PROVE TypeOK'
  BY <1>0, <1>h, <1>1, AiRunAssumption DEF BeginRun, AiRunAssumption
<1>2. ASSUME NEW r \in Runs, StartStream(r) PROVE TypeOK'
  BY <1>2 DEF StartStream
<1>3. ASSUME NEW r \in Runs, FailRunAndClose(r) PROVE TypeOK'
  BY <1>0, <1>3 DEF FailRunAndClose
<1>4. ASSUME NEW r \in Runs, PollCancellation(r) PROVE TypeOK'
  BY <1>0, <1>4 DEF PollCancellation
<1>5. ASSUME NEW r \in Runs, ApplyPoll(r) PROVE TypeOK'
  BY <1>5 DEF ApplyPoll, AbortKind
<1>6. ASSUME NEW r \in Runs, RenewLease(r) PROVE TypeOK'
  BY <1>0, <1>h, <1>6, ZenonT(40) DEF RenewLease
<1>7. ASSUME NEW r \in Runs, CheckLostLease(r) PROVE TypeOK'
  BY <1>0, <1>7 DEF CheckLostLease
<1>8. ASSUME NEW r \in Runs, AbortLostLease(r) PROVE TypeOK'
  BY <1>8 DEF AbortLostLease, AbortKind
<1>9. ASSUME NEW r \in Runs, OverallTimeout(r) PROVE TypeOK'
  BY <1>9 DEF OverallTimeout
<1>10. ASSUME NEW r \in Runs, ForwardChunk(r) PROVE TypeOK'
  BY <1>10 DEF ForwardChunk
<1>11. ASSUME NEW r \in Runs, ConsumerReturns(r) PROVE TypeOK'
  BY <1>11 DEF ConsumerReturns
<1>12. ASSUME NEW r \in Runs, FinishSource(r) PROVE TypeOK'
  BY <1>12 DEF FinishSource
<1>13. ASSUME NEW r \in Runs, FailSource(r) PROVE TypeOK'
  BY <1>13 DEF FailSource
<1>14. ASSUME NEW r \in Runs, AbortSource(r) PROVE TypeOK'
  BY <1>14 DEF AbortSource
<1>15. ASSUME NEW r \in Runs, CompleteRun(r) PROVE TypeOK'
  BY <1>0, <1>15, ZenonT(40) DEF CompleteRun
<1>16. ASSUME NEW r \in Runs, FailRun(r) PROVE TypeOK'
  BY <1>0, <1>16 DEF FailRun
<1>17. ASSUME NEW r \in Runs, EmitTerminal(r) PROVE TypeOK'
  <2>1. log[r] \o TerminalChunk(terminal[r]) \in Seq(SourceChunks)
    <3>1. TerminalChunk(terminal[r]) \in {<<>>, <<"finished">>, <<"error">>}
      BY Zenon DEF TerminalChunk
    <3>2. /\ <<>> \in Seq(SourceChunks) /\ <<"finished">> \in Seq(SourceChunks)
          /\ <<"error">> \in Seq(SourceChunks)
      OBVIOUS
    <3>3. log[r] \in Seq(SourceChunks)
      OBVIOUS
    <3> QED BY <3>1, <3>2, <3>3, ConcatProperties
  <2> QED  BY <1>0, <1>17, <2>1 DEF EmitTerminal
<1>18. ASSUME NEW r \in Runs, CloseStream(r) PROVE TypeOK'
  BY <1>0, <1>18 DEF CloseStream
<1>19. ASSUME NEW r \in Runs, Crash(r) PROVE TypeOK'
  BY <1>19 DEF Crash
<1>20. ASSUME NEW r \in Runs, CancelRun(r) PROVE TypeOK'
  BY <1>0, <1>20, ZenonT(40) DEF CancelRun
<1>21. ASSUME NEW r \in Runs, ReportCancel(r) PROVE TypeOK'
  BY <1>21 DEF ReportCancel, CancelOutcome
<1>22. CASE Tick
  BY <1>22, AiRunAssumption DEF Tick, AiRunAssumption
<1>23. ASSUME NEW locked \in SUBSET Runs, RecoverStaleReservedRuns(locked) PROVE TypeOK'
  BY <1>23 DEF RecoverStaleReservedRuns
<1>24. CASE UNCHANGED vars
  BY <1>24 DEF vars
<1> QED
  BY <1>1, <1>2, <1>3, <1>4, <1>5, <1>6, <1>7, <1>8, <1>9, <1>10, <1>11,
     <1>12, <1>13, <1>14, <1>15, <1>16, <1>17, <1>18, <1>19, <1>20, <1>21,
     <1>22, <1>23, <1>24 DEF Next, Worker, Producer, Client

\* Every step decides reserved runs, reserves a new one, or leaves the row's
\* status and the answers alone.
LEMMA LedgerStep ==
  ASSUME TypeOK, AnswerIffCompleted, [Next]_vars
  PROVE  [Ledger!Next]_<<status, assistant>>
<1> USE DEF TypeOK, AnswerIffCompleted, LeaseHeld
<1> DEFINE Same == UNCHANGED <<status, assistant>>
           Reserved(r) == Ledger!Reserve(r)
           Chosen(S, d) == Ledger!Decide(S, d)
<1>1. ASSUME NEW r \in Runs, BeginRun(r) PROVE Reserved(r)
  BY <1>1 DEF BeginRun, Ledger!Reserve
<1>2. ASSUME NEW r \in Runs, status[r] = "reserved",
             status' = [status EXCEPT ![r] = "completed"],
             assistant' = [assistant EXCEPT ![r] = TRUE]
      PROVE  Chosen({r}, "completed")
  BY <1>2 DEF Ledger!Decide
<1>3. ASSUME NEW r \in Runs, NEW d \in {"failed", "cancelled"},
             status[r] = "reserved",
             status' = [status EXCEPT ![r] = d], assistant' = assistant
      PROVE  Chosen({r}, d)
  BY <1>3, ZenonT(40) DEF Ledger!Decide
<1>4. ASSUME NEW r \in Runs, FailRunAndClose(r)
      PROVE  Chosen({r}, "failed") \/ Same
  BY <1>3, <1>4 DEF FailRunAndClose
<1>5. ASSUME NEW r \in Runs, CompleteRun(r)
      PROVE  Chosen({r}, "completed") \/ Same
  BY <1>2, <1>5 DEF CompleteRun
<1>6. ASSUME NEW r \in Runs, FailRun(r)
      PROVE  Chosen({r}, "failed") \/ Same
  BY <1>3, <1>6 DEF FailRun
<1>7. ASSUME NEW r \in Runs, CancelRun(r)
      PROVE  Chosen({r}, "cancelled") \/ Same
  BY <1>3, <1>7 DEF CancelRun
<1>8. ASSUME NEW locked \in SUBSET Runs, RecoverStaleReservedRuns(locked)
      PROVE  Chosen({r \in Runs : Stale(r)} \ locked, "failed")
  BY <1>8, ZenonT(40) DEF RecoverStaleReservedRuns, Stale, Ledger!Decide
<1>9. ASSUME NEW r \in Runs,
             \/ StartStream(r) \/ PollCancellation(r) \/ ApplyPoll(r)
             \/ RenewLease(r) \/ CheckLostLease(r) \/ AbortLostLease(r)
             \/ OverallTimeout(r) \/ ForwardChunk(r) \/ ConsumerReturns(r)
             \/ FinishSource(r) \/ FailSource(r) \/ AbortSource(r)
             \/ EmitTerminal(r) \/ CloseStream(r) \/ Crash(r)
             \/ ReportCancel(r)
      PROVE  Same
  BY <1>9 DEF tables, row, StartStream, PollCancellation, ApplyPoll, RenewLease,
     CheckLostLease, AbortLostLease, OverallTimeout, ForwardChunk,
     ConsumerReturns, FinishSource, FailSource, AbortSource, EmitTerminal,
     CloseStream, Crash, ReportCancel
<1>10. ASSUME Tick \/ UNCHANGED vars PROVE Same
  BY <1>10 DEF Tick, vars
<1>11. ASSUME NEW S \in SUBSET Runs, NEW d \in {"completed", "failed", "cancelled"},
              Chosen(S, d)
       PROVE  Ledger!Next
  BY <1>11 DEF Ledger!Next, Ledger!Decisions
<1>12. ASSUME NEW r \in Runs, Reserved(r) PROVE Ledger!Next
  BY <1>12 DEF Ledger!Next
<1> HIDE DEF Same, Reserved, Chosen
<1> QED
  <2>1. ASSUME NEW r \in Runs, Producer(r) \/ Client(r)
        PROVE  Same \/ Ledger!Next
    BY <2>1, <1>1, <1>4, <1>5, <1>6, <1>7, <1>9, <1>11, <1>12
       DEF Producer, Client
  <2>2. ASSUME Worker \/ UNCHANGED vars PROVE Same \/ Ledger!Next
    BY <2>2, <1>8, <1>10, <1>11 DEF Worker
  <2> QED  BY <2>1, <2>2 DEF Next, Same

\* A step of the ledger keeps answers and completions together and never
\* changes a decision.
LEMMA LedgerKeeps ==
  ASSUME TypeOK, AnswerIffCompleted, [Ledger!Next]_<<status, assistant>>
  PROVE  /\ AnswerIffCompleted'
         /\ \A r \in Runs : status[r] \in Decided => status'[r] = status[r]
         /\ \A r \in Runs : status[r] # "absent" => status'[r] # "absent"
<1> USE DEF TypeOK, AnswerIffCompleted, Decided
<1>1. CASE UNCHANGED <<status, assistant>>
  BY <1>1
<1>2. CASE \E r \in Runs : Ledger!Reserve(r)
  BY <1>2 DEF Ledger!Reserve
<1>3. CASE \E S \in SUBSET Runs, d \in Decided : Ledger!Decide(S, d)
  <2>1. PICK S \in SUBSET Runs, d \in Decided : Ledger!Decide(S, d)
    BY <1>3
  <2>2. ASSUME NEW r \in Runs
        PROVE  /\ assistant'[r] <=> status'[r] = "completed"
               /\ status[r] \in Decided => status'[r] = status[r]
               /\ status[r] # "absent" => status'[r] # "absent"
    BY <2>1, <2>2 DEF Ledger!Decide
  <2> QED  BY <2>2
<1> QED  BY <1>1, <1>2, <1>3 DEF Ledger!Next, Ledger!Decisions

\* Polls, renewals and hooks act on cancellations and successes that the row
\* records, also when the answer is applied steps after it was read.
LEMMA BeliefStep ==
  ASSUME TypeOK, AnswerIffCompleted, BeliefIsRecorded, [Next]_vars
  PROVE  BeliefIsRecorded'
<1>1. \A r \in Runs : status[r] \in Decided => status'[r] = status[r]
  BY LedgerStep, LedgerKeeps
<1> USE DEF TypeOK, BeliefIsRecorded, Decided, memory
<1>2. ASSUME NEW r \in Runs, PollCancellation(r) PROVE BeliefIsRecorded'
  BY <1>1, <1>2 DEF PollCancellation
<1>3. ASSUME NEW r \in Runs, ApplyPoll(r) PROVE BeliefIsRecorded'
  BY <1>1, <1>3 DEF ApplyPoll, AbortKind
<1>4. ASSUME NEW r \in Runs, RenewLease(r) PROVE BeliefIsRecorded'
  BY <1>1, <1>4 DEF RenewLease
<1>5. ASSUME NEW r \in Runs, CheckLostLease(r) PROVE BeliefIsRecorded'
  BY <1>1, <1>5 DEF CheckLostLease
<1>6. ASSUME NEW r \in Runs, AbortLostLease(r) PROVE BeliefIsRecorded'
  BY <1>1, <1>6 DEF AbortLostLease, AbortKind
<1>7. ASSUME NEW r \in Runs, OverallTimeout(r) PROVE BeliefIsRecorded'
  BY <1>1, <1>7 DEF OverallTimeout
<1>8. ASSUME NEW r \in Runs, ConsumerReturns(r) PROVE BeliefIsRecorded'
  BY <1>1, <1>8 DEF ConsumerReturns
<1>9. ASSUME NEW r \in Runs, FailSource(r) PROVE BeliefIsRecorded'
  BY <1>1, <1>9 DEF FailSource
<1>10. ASSUME NEW r \in Runs, AbortSource(r) PROVE BeliefIsRecorded'
  BY <1>1, <1>10, ZenonT(40) DEF AbortSource
<1>11. ASSUME NEW r \in Runs, CompleteRun(r) PROVE BeliefIsRecorded'
  BY <1>1, <1>11 DEF CompleteRun
<1>12. ASSUME NEW r \in Runs, Crash(r) PROVE BeliefIsRecorded'
  BY <1>1, <1>12 DEF Crash
<1>13. ASSUME UNCHANGED memory PROVE BeliefIsRecorded'
  BY <1>1, <1>13
<1>14. ASSUME NEW r \in Runs,
              \/ BeginRun(r) \/ StartStream(r) \/ FailRunAndClose(r)
              \/ ForwardChunk(r) \/ FinishSource(r) \/ FailRun(r)
              \/ EmitTerminal(r) \/ CloseStream(r)
              \/ CancelRun(r) \/ ReportCancel(r)
       PROVE  UNCHANGED memory
  BY <1>14 DEF BeginRun, StartStream, FailRunAndClose, ForwardChunk,
     FinishSource, FailRun, EmitTerminal, CloseStream, CancelRun, ReportCancel
<1>15. ASSUME Worker \/ UNCHANGED vars PROVE UNCHANGED memory
  BY <1>15 DEF Worker, Tick, RecoverStaleReservedRuns, vars
<1> QED
  <2> HIDE DEF TypeOK, BeliefIsRecorded, memory
  <2> QED
    BY <1>2, <1>3, <1>4, <1>5, <1>6, <1>7, <1>8, <1>9, <1>10, <1>11, <1>12,
       <1>13, <1>14, <1>15 DEF Next, Producer, Client

\* The producer's place keeps fitting the row's status and stream_closed_at.
LEMMA PlaceStep ==
  ASSUME TypeOK, BeliefIsRecorded, PlaceFitsStatus, [Next]_vars
  PROVE  PlaceFitsStatus'
<1>0. Fault => faults' # 0
  BY AiRunAssumption DEF Fault, TypeOK, AiRunAssumption
<1> USE DEF TypeOK, PlaceFitsStatus, Ended, LeaseHeld, tables, row, memory
<1>1. ASSUME NEW r \in Runs, BeginRun(r) PROVE PlaceFitsStatus'
  BY <1>0, <1>1 DEF BeginRun
<1>2. ASSUME NEW r \in Runs, StartStream(r) PROVE PlaceFitsStatus'
  BY <1>0, <1>2 DEF StartStream
<1>3. ASSUME NEW r \in Runs, FailRunAndClose(r) PROVE PlaceFitsStatus'
  BY <1>0, <1>3 DEF FailRunAndClose
<1>4. ASSUME NEW r \in Runs, FinishSource(r) PROVE PlaceFitsStatus'
  BY <1>0, <1>4 DEF FinishSource
<1>5. ASSUME NEW r \in Runs, FailSource(r) PROVE PlaceFitsStatus'
  BY <1>0, <1>5 DEF FailSource
<1>6. ASSUME NEW r \in Runs, AbortSource(r) PROVE PlaceFitsStatus'
  BY <1>0, <1>6 DEF AbortSource, BeliefIsRecorded
<1>7. ASSUME NEW r \in Runs, CompleteRun(r) PROVE PlaceFitsStatus'
  <2>1. pc[r] = "completing" /\ status[r] # "completed" /\ status[r] # "absent"
    BY <1>7 DEF CompleteRun
  <2>2. CASE /\ status' = [status EXCEPT ![r] = "completed"]
             /\ LeaseHeld(r)
             /\ terminal' = [terminal EXCEPT ![r] = "succeeded"]
             /\ pc' = [pc EXCEPT ![r] = "draining"]
             /\ UNCHANGED <<closed, faults>>
    BY <2>1, <2>2
  <2>3. CASE /\ status' = [status EXCEPT ![r] = "completed"]
             /\ LeaseHeld(r)
             /\ pc' = [pc EXCEPT ![r] = "failing"]
             /\ Fault
             /\ terminal' = [terminal EXCEPT ![r] = "failed"]
             /\ UNCHANGED closed
    BY <1>0, <2>1, <2>3
  <2>4. CASE /\ terminal' = [terminal EXCEPT ![r] = "failed"]
             /\ pc' = [pc EXCEPT ![r] = "failing"]
             /\ UNCHANGED <<status, closed, faults>>
    BY <2>1, <2>4
  <2> QED  BY <1>7, <2>2, <2>3, <2>4 DEF CompleteRun
<1>8. ASSUME NEW r \in Runs, FailRun(r) PROVE PlaceFitsStatus'
  BY <1>0, <1>8 DEF FailRun
<1>9. ASSUME NEW r \in Runs, EmitTerminal(r) PROVE PlaceFitsStatus'
  BY <1>0, <1>9 DEF EmitTerminal
<1>10. ASSUME NEW r \in Runs, CloseStream(r) PROVE PlaceFitsStatus'
  BY <1>0, <1>10 DEF CloseStream
<1>11. ASSUME NEW r \in Runs, Crash(r) PROVE PlaceFitsStatus'
  BY <1>0, <1>11 DEF Crash
<1>12. ASSUME NEW r \in Runs, CancelRun(r) PROVE PlaceFitsStatus'
  BY <1>0, <1>12 DEF CancelRun
<1>13. ASSUME NEW locked \in SUBSET Runs, RecoverStaleReservedRuns(locked)
       PROVE  PlaceFitsStatus'
  BY <1>13 DEF RecoverStaleReservedRuns, Stale
<1>14. ASSUME UNCHANGED <<status, closed, pc, terminal>>,
              UNCHANGED faults \/ Fault
       PROVE  PlaceFitsStatus'
  BY <1>0, <1>14
<1>15. ASSUME NEW r \in Runs,
              \/ PollCancellation(r) \/ ApplyPoll(r) \/ RenewLease(r)
              \/ CheckLostLease(r) \/ AbortLostLease(r) \/ OverallTimeout(r)
              \/ ForwardChunk(r) \/ ConsumerReturns(r) \/ ReportCancel(r)
       PROVE  /\ UNCHANGED <<status, closed, pc, terminal>>
              /\ UNCHANGED faults \/ Fault
  BY <1>15 DEF PollCancellation, ApplyPoll, RenewLease, CheckLostLease,
     AbortLostLease, OverallTimeout, ForwardChunk, ConsumerReturns,
     ReportCancel
<1>16. ASSUME Tick \/ UNCHANGED vars
       PROVE  UNCHANGED <<status, closed, pc, terminal, faults>>
  BY <1>16 DEF Tick, vars
<1> QED
  <2> HIDE DEF TypeOK, PlaceFitsStatus, Ended, LeaseHeld, tables, row, memory
  <2> QED
    BY <1>1, <1>2, <1>3, <1>4, <1>5, <1>6, <1>7, <1>8, <1>9, <1>10,
       <1>11, <1>12, <1>13, <1>14, <1>15, <1>16
       DEF Next, Producer, Client, Worker

\* A producer that has emitted its terminal chunk never streams again.
LEMMA PlaceForward ==
  ASSUME TypeOK, [Next]_vars
  PROVE  \A r \in Runs :
           /\ pc[r] \in {"closing"} \cup Ended => pc'[r] \in {"closing"} \cup Ended
           /\ pc[r] \in Ended => pc'[r] = pc[r]
<1> USE DEF TypeOK, Ended
<1>1. ASSUME NEW r \in Runs, NEW q \in Runs,
             \/ BeginRun(r) \/ StartStream(r) \/ FailRunAndClose(r)
             \/ FinishSource(r) \/ FailSource(r) \/ AbortSource(r)
             \/ CompleteRun(r) \/ FailRun(r) \/ EmitTerminal(r)
             \/ CloseStream(r) \/ Crash(r),
             pc[q] \in {"closing"} \cup Ended
      PROVE  /\ pc'[q] \in {"closing"} \cup Ended
             /\ pc[q] \in Ended => pc'[q] = pc[q]
  BY <1>1 DEF BeginRun, StartStream, FailRunAndClose, FinishSource, FailSource,
     AbortSource, CompleteRun, FailRun, EmitTerminal, CloseStream,
     Crash
<1>2. ASSUME NEW r \in Runs,
             \/ PollCancellation(r) \/ ApplyPoll(r) \/ RenewLease(r)
             \/ CheckLostLease(r) \/ AbortLostLease(r) \/ OverallTimeout(r)
             \/ ForwardChunk(r) \/ ConsumerReturns(r) \/ CancelRun(r)
             \/ ReportCancel(r)
      PROVE  pc' = pc
  BY <1>2 DEF PollCancellation, ApplyPoll, RenewLease, CheckLostLease,
     AbortLostLease, OverallTimeout, ForwardChunk, ConsumerReturns,
     CancelRun, ReportCancel
<1>3. ASSUME Worker \/ UNCHANGED vars PROVE pc' = pc
  BY <1>3 DEF Worker, Tick, RecoverStaleReservedRuns, vars
<1> QED  BY <1>1, <1>2, <1>3 DEF Next, Producer, Client

\* A run of the system without a failed call so far had none before.
LEMMA FaultsGrow ==
  ASSUME TypeOK, [Next]_vars, faults' = 0
  PROVE  faults = 0
<1>1. ~Fault
  BY AiRunAssumption DEF Fault, TypeOK, AiRunAssumption
<1>2. ASSUME NEW r \in Runs, Producer(r) \/ Client(r) PROVE faults' = faults
  BY <1>1, <1>2 DEF Producer, Client, BeginRun, StartStream,
     FailRunAndClose, PollCancellation,
     ApplyPoll, RenewLease, CheckLostLease, AbortLostLease,
     OverallTimeout, ForwardChunk, ConsumerReturns, FinishSource,
     FailSource, AbortSource, CompleteRun, FailRun, EmitTerminal,
     CloseStream, Crash, CancelRun, ReportCancel
<1>3. ASSUME Worker \/ UNCHANGED vars PROVE faults' = faults
  BY <1>3 DEF Worker, Tick, RecoverStaleReservedRuns, vars
<1> QED  BY <1>2, <1>3 DEF Next

\* Only the step out of "completing" stores an answer.
LEMMA AnswerPlace ==
  ASSUME TypeOK, [Next]_vars
  PROVE  \A r \in Runs : assistant'[r] = assistant[r] \/ pc[r] = "completing"
<1>1. ASSUME NEW r \in Runs, CompleteRun(r)
      PROVE  \A q \in Runs : assistant'[q] = assistant[q] \/ pc[q] = "completing"
  BY <1>1 DEF CompleteRun, TypeOK
<1>2. ASSUME NEW r \in Runs,
             \/ BeginRun(r) \/ StartStream(r) \/ FailRunAndClose(r)
             \/ PollCancellation(r) \/ ApplyPoll(r) \/ RenewLease(r)
             \/ CheckLostLease(r) \/ AbortLostLease(r) \/ OverallTimeout(r)
             \/ ForwardChunk(r) \/ ConsumerReturns(r) \/ FinishSource(r)
             \/ FailSource(r) \/ AbortSource(r) \/ FailRun(r)
             \/ EmitTerminal(r) \/ CloseStream(r) \/ Crash(r)
             \/ CancelRun(r) \/ ReportCancel(r)
      PROVE  assistant' = assistant
  BY <1>2 DEF tables, BeginRun, StartStream, FailRunAndClose, PollCancellation,
     ApplyPoll, RenewLease, CheckLostLease, AbortLostLease,
     OverallTimeout, ForwardChunk, ConsumerReturns, FinishSource,
     FailSource, AbortSource, FailRun, EmitTerminal, CloseStream,
     Crash, CancelRun, ReportCancel
<1>3. ASSUME Worker \/ UNCHANGED vars PROVE assistant' = assistant
  BY <1>3 DEF Worker, Tick, RecoverStaleReservedRuns, vars
<1> QED  BY <1>1, <1>2, <1>3 DEF Next, Producer, Client

\* What the event log says about the verdict stays true, and stays last.
LEMMA LogStep ==
  ASSUME TypeOK, AnswerIffCompleted, BeliefIsRecorded, PlaceFitsStatus,
         FinishedMeansStored, ErrorMeansNotStored, TerminalChunkIsLast,
         [Next]_vars
  PROVE  FinishedMeansStored' /\ ErrorMeansNotStored' /\ TerminalChunkIsLast'
<1> DEFINE LogGood == FinishedMeansStored /\ ErrorMeansNotStored /\ TerminalChunkIsLast
<1>1. /\ AnswerIffCompleted'
      /\ \A r \in Runs : status[r] \in Decided => status'[r] = status[r]
  BY LedgerStep, LedgerKeeps
<1>2. \A r \in Runs : \A i \in DOMAIN log[r] :
        log[r][i] # "chunk" =>
          /\ i = Len(log[r]) /\ pc'[r] \in {"closing"} \cup Ended
          /\ log[r][i] = "finished" => status'[r] = "completed" /\ assistant'[r]
          /\ log[r][i] = "error" /\ faults' = 0 => ~assistant'[r]
  <2> SUFFICES ASSUME NEW r \in Runs, NEW i \in DOMAIN log[r], log[r][i] # "chunk"
               PROVE  /\ i = Len(log[r]) /\ pc'[r] \in {"closing"} \cup Ended
                      /\ log[r][i] = "finished" => status'[r] = "completed" /\ assistant'[r]
                      /\ log[r][i] = "error" /\ faults' = 0 => ~assistant'[r]
    OBVIOUS
  <2>1. i = Len(log[r]) /\ pc[r] \in {"closing"} \cup Ended
    BY DEF TerminalChunkIsLast
  <2>2. pc'[r] \in {"closing"} \cup Ended
    BY <2>1, PlaceForward
  <2>3. log[r][i] = "finished" => status'[r] = "completed" /\ assistant'[r]
    BY <1>1 DEF FinishedMeansStored, AnswerIffCompleted, Decided
  <2>4. log[r][i] = "error" /\ faults' = 0 => ~assistant'[r]
    BY <2>1, AnswerPlace, FaultsGrow DEF ErrorMeansNotStored, Ended
  <2> QED  BY <2>1, <2>2, <2>3, <2>4
<1>3. ASSUME log' = log PROVE LogGood'
  BY <1>2, <1>3 DEF FinishedMeansStored, ErrorMeansNotStored, TerminalChunkIsLast
<1>4. ASSUME NEW r \in Runs, ForwardChunk(r) PROVE LogGood'
  <2>1. /\ log' = [log EXCEPT ![r] = Append(@, "chunk")]
        /\ pc[r] = "streaming" /\ UNCHANGED <<status, assistant, pc, faults>>
    BY <1>4 DEF ForwardChunk, Visible, row
  <2>2. \A i \in DOMAIN log[r] : log[r][i] = "chunk"
    BY <2>1 DEF TerminalChunkIsLast, Ended
  <2>3. \A i \in DOMAIN log'[r] : log'[r][i] = "chunk"
    BY <2>1, <2>2, AppendProperties DEF TypeOK, SourceChunks
  <2>4. \A q \in Runs \ {r} : log'[q] = log[q]
    BY <2>1 DEF TypeOK
  <2> QED
    BY <1>2, <2>3, <2>4 DEF FinishedMeansStored, ErrorMeansNotStored,
       TerminalChunkIsLast
<1>5. ASSUME NEW r \in Runs, EmitTerminal(r) PROVE LogGood'
  <2>1. /\ pc[r] = "draining" /\ pc'[r] = "closing"
        /\ UNCHANGED <<status, assistant, terminal>>
        /\ log' = log \/ log' = [log EXCEPT ![r] = @ \o TerminalChunk(terminal[r])]
    BY <1>5 DEF EmitTerminal, TypeOK, row, memory
  <2>2. \A i \in DOMAIN log[r] : log[r][i] = "chunk"
    BY <2>1 DEF TerminalChunkIsLast, Ended
  <2>3. CASE log' = log
    BY <1>3, <2>3
  <2>4. CASE log' = [log EXCEPT ![r] = @ \o TerminalChunk(terminal[r])]
    <3>1. \A q \in Runs \ {r} : log'[q] = log[q]
      BY <2>4 DEF TypeOK
    <3>2. CASE TerminalChunk(terminal[r]) = <<>>
      <4>1. log'[r] = log[r]
        BY <2>4, <3>2, ConcatEmptySeq DEF TypeOK
      <4> QED
        BY <1>2, <3>1, <4>1 DEF FinishedMeansStored, ErrorMeansNotStored,
           TerminalChunkIsLast
    <3>3. CASE TerminalChunk(terminal[r]) = <<"finished">> /\ terminal[r] = "succeeded"
      <4>1. log'[r] = Append(log[r], "finished")
        BY <2>4, <3>3 DEF TypeOK
      <4>2. status'[r] = "completed" /\ assistant'[r]
        BY <2>1, <3>3, <1>1 DEF BeliefIsRecorded, AnswerIffCompleted
      <4>3. \A i \in DOMAIN log'[r] :
              log'[r][i] # "chunk" => i = Len(log'[r]) /\ log'[r][i] = "finished"
        <5>1. /\ log[r] \in Seq(SourceChunks) /\ "finished" \in SourceChunks
              /\ DOMAIN log[r] = 1..Len(log[r])
              /\ DOMAIN log'[r] = 1..(Len(log[r]) + 1)
              /\ Len(log'[r]) = Len(log[r]) + 1 /\ Len(log[r]) \in Nat
              /\ log'[r][Len(log[r]) + 1] = "finished"
          BY <4>1, AppendProperties DEF TypeOK, SourceChunks
        <5>2. \A i \in 1..Len(log[r]) : log'[r][i] = log[r][i]
          BY <4>1, <5>1, AppendProperties
        <5> QED  BY <5>1, <5>2, <2>2
      <4> QED
        BY <1>2, <2>1, <3>1, <4>2, <4>3
           DEF FinishedMeansStored, ErrorMeansNotStored, TerminalChunkIsLast
    <3>4. CASE TerminalChunk(terminal[r]) = <<"error">> /\ terminal[r] = "failed"
      <4>1. log'[r] = Append(log[r], "error")
        BY <2>4, <3>4 DEF TypeOK
      <4>2. faults' = 0 => ~assistant'[r]
        BY <2>1, <3>4, FaultsGrow DEF PlaceFitsStatus, AnswerIffCompleted
      <4>3. \A i \in DOMAIN log'[r] :
              log'[r][i] # "chunk" => i = Len(log'[r]) /\ log'[r][i] = "error"
        <5>1. /\ log[r] \in Seq(SourceChunks) /\ "error" \in SourceChunks
              /\ DOMAIN log[r] = 1..Len(log[r])
              /\ DOMAIN log'[r] = 1..(Len(log[r]) + 1)
              /\ Len(log'[r]) = Len(log[r]) + 1 /\ Len(log[r]) \in Nat
              /\ log'[r][Len(log[r]) + 1] = "error"
          BY <4>1, AppendProperties DEF TypeOK, SourceChunks
        <5>2. \A i \in 1..Len(log[r]) : log'[r][i] = log[r][i]
          BY <4>1, <5>1, AppendProperties
        <5> QED  BY <5>1, <5>2, <2>2
      <4> QED
        BY <1>2, <2>1, <3>1, <4>2, <4>3
           DEF FinishedMeansStored, ErrorMeansNotStored, TerminalChunkIsLast
    <3> QED  BY <3>2, <3>3, <3>4, Zenon DEF TerminalChunk
  <2> QED  BY <2>1, <2>3, <2>4
<1>6. ASSUME NEW r \in Runs,
             \/ BeginRun(r) \/ StartStream(r) \/ FailRunAndClose(r)
             \/ PollCancellation(r) \/ ApplyPoll(r) \/ RenewLease(r)
             \/ CheckLostLease(r) \/ AbortLostLease(r) \/ OverallTimeout(r)
             \/ ConsumerReturns(r) \/ FinishSource(r) \/ FailSource(r)
             \/ AbortSource(r) \/ CompleteRun(r) \/ FailRun(r)
             \/ CloseStream(r) \/ Crash(r) \/ CancelRun(r)
             \/ ReportCancel(r)
      PROVE  log' = log
  BY <1>6 DEF tables, BeginRun, StartStream, FailRunAndClose, PollCancellation,
     ApplyPoll, RenewLease, CheckLostLease, AbortLostLease,
     OverallTimeout, ConsumerReturns, FinishSource, FailSource,
     AbortSource, CompleteRun, FailRun, CloseStream, Crash, CancelRun,
     ReportCancel
<1>7. ASSUME Worker \/ UNCHANGED vars PROVE log' = log
  BY <1>7 DEF Worker, Tick, RecoverStaleReservedRuns, vars
<1> QED  BY <1>3, <1>4, <1>5, <1>6, <1>7 DEF Next, Producer, Client

\* A completed run reaches close with its RUN_FINISHED in the log.
LEMMA VerdictStep ==
  ASSUME TypeOK, PlaceFitsStatus, VerdictBeforeClose, [Next]_vars
  PROVE  VerdictBeforeClose'
<1> DEFINE Finished(l) == l # <<>> /\ l[Len(l)] = "finished"
<1>0. Fault => faults' # 0
  BY AiRunAssumption DEF Fault, TypeOK, AiRunAssumption
<1>1. \A r \in Runs :
        /\ pc[r] \in {"closing", "done"} /\ status[r] = "completed"
        /\ ~gone[r] /\ faults = 0
        => Finished(log[r])
  BY DEF VerdictBeforeClose
<1> HIDE DEF Finished
<1> DEFINE Goal == \A r \in Runs :
        /\ pc'[r] \in {"closing", "done"} /\ status'[r] = "completed"
        /\ ~gone'[r] /\ faults' = 0
        => Finished(log'[r])
<1> USE DEF TypeOK, LeaseHeld, tables, row, memory
<1>3. ASSUME NEW r \in Runs, BeginRun(r) PROVE Goal
  BY <1>0, <1>1, <1>3 DEF BeginRun, PlaceFitsStatus, Ended
<1>4. ASSUME NEW r \in Runs, FailRunAndClose(r) PROVE Goal
  BY <1>0, <1>1, <1>4 DEF FailRunAndClose, PlaceFitsStatus, Ended
<1>5. ASSUME NEW r \in Runs, ForwardChunk(r) PROVE Goal
  BY <1>0, <1>1, <1>5 DEF ForwardChunk
<1>6. ASSUME NEW r \in Runs, ConsumerReturns(r) PROVE Goal
  BY <1>0, <1>1, <1>6 DEF ConsumerReturns
<1>7. ASSUME NEW r \in Runs, CompleteRun(r) PROVE Goal
  BY <1>0, <1>1, <1>7 DEF CompleteRun, PlaceFitsStatus, Ended
<1>8. ASSUME NEW r \in Runs, FailRun(r) PROVE Goal
  BY <1>0, <1>1, <1>8 DEF FailRun
<1>9. ASSUME NEW r \in Runs, CloseStream(r) PROVE Goal
  BY <1>0, <1>1, <1>9 DEF CloseStream
<1>10. ASSUME NEW r \in Runs, Crash(r) PROVE Goal
  BY <1>0, <1>1, <1>10 DEF Crash
<1>11. ASSUME NEW r \in Runs, CancelRun(r) PROVE Goal
  BY <1>0, <1>1, <1>11 DEF CancelRun
<1>12. ASSUME NEW r \in Runs, EmitTerminal(r) PROVE Goal
  <2>1. pc[r] = "draining" /\ UNCHANGED <<status, gone, terminal>>
    BY <1>12 DEF EmitTerminal
  <2>2. CASE gone[r] \/ Fault
    BY <1>0, <1>1, <1>12, <2>2 DEF EmitTerminal
  <2>3. CASE log' = [log EXCEPT ![r] = @ \o TerminalChunk(terminal[r])] /\ UNCHANGED faults
    <3>1. ASSUME status'[r] = "completed", faults' = 0 PROVE Finished(log'[r])
      <4>1. TerminalChunk(terminal[r]) = <<"finished">>
        BY <2>1, <2>3, <3>1, Zenon DEF PlaceFitsStatus, TerminalChunk
      <4>2. log'[r] = log[r] \o <<"finished">>
        BY <2>3, <4>1
      <4>3. /\ Len(log'[r]) = Len(log[r]) + 1
            /\ log'[r][Len(log[r]) + 1] = "finished"
            /\ Len(log[r]) \in Nat
        BY <4>2, ConcatProperties DEF SourceChunks
      <4> QED  BY <4>3 DEF Finished
    <3> QED  BY <1>1, <1>12, <2>3, <3>1 DEF EmitTerminal
  <2> QED  BY <1>12, <2>2, <2>3 DEF EmitTerminal
<1>13. ASSUME NEW r \in Runs,
             \/ StartStream(r) \/ PollCancellation(r) \/ ApplyPoll(r)
             \/ RenewLease(r) \/ CheckLostLease(r) \/ AbortLostLease(r)
             \/ OverallTimeout(r) \/ FinishSource(r) \/ FailSource(r)
             \/ AbortSource(r) \/ ReportCancel(r)
       PROVE  Goal
  BY <1>0, <1>1, <1>13 DEF StartStream, PollCancellation, ApplyPoll, RenewLease,
     CheckLostLease, AbortLostLease, OverallTimeout, FinishSource,
     FailSource, AbortSource, ReportCancel
<1>14. ASSUME Worker \/ UNCHANGED vars PROVE Goal
  <2>1. UNCHANGED <<log, pc, gone, faults>>
    BY <1>14 DEF Worker, Tick, RecoverStaleReservedRuns, vars
  <2>2. \A r \in Runs : status'[r] = "completed" => status[r] = "completed"
    BY <1>14, ZenonT(40) DEF Worker, Tick, RecoverStaleReservedRuns, vars
  <2> QED  BY <1>1, <2>1, <2>2
<1> HIDE DEF Goal, TypeOK, LeaseHeld, tables, row, memory
<1> QED
  <2>1. Goal
    BY <1>3, <1>4, <1>5, <1>6, <1>7, <1>8, <1>9, <1>10, <1>11, <1>12, <1>13,
       <1>14 DEF Next, Producer, Client
  <2> QED  BY <2>1 DEF Goal, Finished, VerdictBeforeClose

\* Every path through the hooks decides the run before the stream ends.
LEMMA EndedStep ==
  ASSUME TypeOK, AnswerIffCompleted, BeliefIsRecorded, PlaceFitsStatus,
         EndedMeansDecided, [Next]_vars
  PROVE  EndedMeansDecided'
<1>0. Fault => faults' # 0
  BY AiRunAssumption DEF Fault, TypeOK, AiRunAssumption
<1>1. \A r \in Runs : status[r] \in Decided => status'[r] = status[r]
  BY LedgerStep, LedgerKeeps
<1> USE DEF TypeOK, EndedMeansDecided, LeaseHeld, tables, memory, row
<1>2. ASSUME NEW r \in Runs, FailRunAndClose(r) PROVE EndedMeansDecided'
  BY <1>0, <1>1, <1>2 DEF FailRunAndClose, PlaceFitsStatus, Statuses, Decided
<1>3. ASSUME NEW r \in Runs, AbortSource(r) PROVE EndedMeansDecided'
  BY <1>0, <1>1, <1>3 DEF AbortSource, BeliefIsRecorded, Decided
<1>4. ASSUME NEW r \in Runs, CompleteRun(r) PROVE EndedMeansDecided'
  BY <1>0, <1>1, <1>4 DEF CompleteRun, Decided
<1>5. ASSUME NEW r \in Runs, FailRun(r) PROVE EndedMeansDecided'
  BY <1>0, <1>1, <1>5 DEF FailRun, PlaceFitsStatus, Statuses, Decided
<1>6. ASSUME NEW r \in Runs,
             \/ BeginRun(r) \/ StartStream(r) \/ FinishSource(r)
             \/ FailSource(r) \/ EmitTerminal(r) \/ CloseStream(r)
             \/ Crash(r)
      PROVE  EndedMeansDecided'
  BY <1>0, <1>1, <1>6 DEF BeginRun, StartStream, FinishSource, FailSource, EmitTerminal,
     CloseStream, Crash
<1>7. ASSUME NEW r \in Runs,
             \/ PollCancellation(r) \/ ApplyPoll(r) \/ RenewLease(r)
             \/ CheckLostLease(r) \/ AbortLostLease(r) \/ OverallTimeout(r)
             \/ ForwardChunk(r) \/ ConsumerReturns(r) \/ CancelRun(r)
             \/ ReportCancel(r)
      PROVE  pc' = pc /\ (UNCHANGED faults \/ Fault)
  BY <1>7 DEF PollCancellation, ApplyPoll, RenewLease, CheckLostLease,
     AbortLostLease, OverallTimeout, ForwardChunk, ConsumerReturns,
     CancelRun, ReportCancel
<1>8. ASSUME Worker \/ UNCHANGED vars PROVE UNCHANGED <<pc, faults>>
  BY <1>8 DEF Worker, Tick, RecoverStaleReservedRuns, vars
<1>9. ASSUME pc' = pc, UNCHANGED faults \/ Fault PROVE EndedMeansDecided'
  BY <1>0, <1>1, <1>9
<1> HIDE DEF TypeOK, EndedMeansDecided, LeaseHeld, tables, memory, row
<1> QED
  BY <1>2, <1>3, <1>4, <1>5, <1>6, <1>7, <1>8, <1>9 DEF Next, Producer, Client

\* An answered cancel request stays truthful after later steps.
LEMMA CancelStep ==
  ASSUME TypeOK, AnswerIffCompleted, CancelReplyHonoured, [Next]_vars
  PROVE  CancelReplyHonoured'
<1>1. /\ AnswerIffCompleted'
      /\ \A r \in Runs : status[r] \in Decided => status'[r] = status[r]
  BY LedgerStep, LedgerKeeps
<1> USE DEF TypeOK, AnswerIffCompleted, CancelReplyHonoured, Decided
<1>2. ASSUME NEW r \in Runs, CancelRun(r) PROVE CancelReplyHonoured'
  BY <1>1, <1>2 DEF CancelRun, LeaseHeld
<1>3. ASSUME NEW r \in Runs, ReportCancel(r) PROVE CancelReplyHonoured'
  BY <1>1, <1>3 DEF ReportCancel, CancelOutcome, tables
<1>4. ASSUME NEW r \in Runs,
             \/ BeginRun(r) \/ StartStream(r) \/ FailRunAndClose(r)
             \/ PollCancellation(r) \/ ApplyPoll(r) \/ RenewLease(r)
             \/ CheckLostLease(r) \/ AbortLostLease(r) \/ OverallTimeout(r)
             \/ ForwardChunk(r) \/ ConsumerReturns(r) \/ FinishSource(r)
             \/ FailSource(r) \/ AbortSource(r) \/ CompleteRun(r)
             \/ FailRun(r) \/ EmitTerminal(r) \/ CloseStream(r)
             \/ Crash(r)
      PROVE  cancel' = cancel
  BY <1>4 DEF BeginRun, StartStream, FailRunAndClose, PollCancellation,
     ApplyPoll, RenewLease, CheckLostLease, AbortLostLease,
     OverallTimeout, ForwardChunk, ConsumerReturns, FinishSource,
     FailSource, AbortSource, CompleteRun, FailRun, EmitTerminal,
     CloseStream, Crash
<1>5. ASSUME Worker \/ UNCHANGED vars PROVE cancel' = cancel
  BY <1>5 DEF Worker, Tick, RecoverStaleReservedRuns, vars
<1>6. ASSUME cancel' = cancel PROVE CancelReplyHonoured'
  BY <1>1, <1>6
<1> HIDE DEF TypeOK, AnswerIffCompleted, CancelReplyHonoured, Decided
<1> QED  BY <1>2, <1>3, <1>4, <1>5, <1>6 DEF Next, Producer, Client

\* The inductive invariant holds before any run exists.
LEMMA InductiveInit ==
  ASSUME Init
  PROVE  Inductive
<1>1. TypeOK
  BY AiRunAssumption DEF Init, TypeOK, AiRunAssumption, Statuses, Places, Ended, Replies
<1>2. /\ AnswerIffCompleted /\ BeliefIsRecorded /\ PlaceFitsStatus
      /\ EndedMeansDecided /\ CancelReplyHonoured /\ VerdictBeforeClose
  BY DEF Init, AnswerIffCompleted, BeliefIsRecorded, PlaceFitsStatus,
     EndedMeansDecided, CancelReplyHonoured, VerdictBeforeClose
<1>3. \A r \in Runs : log[r] = <<>>
  BY DEF Init
<1>4. FinishedMeansStored /\ ErrorMeansNotStored /\ TerminalChunkIsLast
  BY <1>3 DEF FinishedMeansStored, ErrorMeansNotStored, TerminalChunkIsLast
<1> QED  BY <1>1, <1>2, <1>4 DEF Inductive

\* Every step keeps the inductive invariant.
LEMMA InductiveStep ==
  ASSUME Inductive, [Next]_vars
  PROVE  Inductive'
<1>1. AnswerIffCompleted'
  BY LedgerStep, LedgerKeeps DEF Inductive
<1> QED
  BY <1>1, TypeStep, BeliefStep, PlaceStep, LogStep, VerdictStep, EndedStep,
     CancelStep DEF Inductive

\* The inductive invariant holds in every reachable state.
THEOREM InductiveInvariant == Spec => []Inductive
<1> QED  BY InductiveInit, InductiveStep, PTL DEF Spec

\* Every variable keeps its type.
THEOREM TypeCorrect == Spec => []TypeOK
<1>1. Inductive => TypeOK
  BY DEF Inductive
<1> QED  BY <1>1, InductiveInvariant, PTL

\* RUN_FINISHED is logged only for a stored answer, RUN_ERROR without a
\* failed call only where none is stored, and either ends the log
\* (createPublicStream, completeRun).
THEOREM VerdictsAreTrue == Spec => []VerdictMatchesTables
<1>1. Inductive => VerdictMatchesTables
  BY DEF Inductive, VerdictMatchesTables
<1> QED  BY <1>1, InductiveInvariant, PTL

\* A producer that ends on its own leaves a decided run (the hooks of
\* createLifecycleMiddleware and createPublicStream).
THEOREM ProducersDecide == Spec => []EndedMeansDecided
<1>1. Inductive => EndedMeansDecided
  BY DEF Inductive
<1> QED  BY <1>1, InductiveInvariant, PTL

\* cancelRun's "cancelled", "already_cancelled" and "completed" stay true.
THEOREM RepliesAreHonoured == Spec => []CancelReplyHonoured
<1>1. Inductive => CancelReplyHonoured
  BY DEF Inductive
<1> QED  BY <1>1, InductiveInvariant, PTL

\* The stream of a completed run is closed after its RUN_FINISHED is logged.
THEOREM ClosedStreamsHaveVerdicts == Spec => []ClosedHasVerdict
<1>1. Inductive => ClosedHasVerdict
  BY DEF Inductive, PlaceFitsStatus, VerdictBeforeClose, ClosedHasVerdict
<1> QED  BY <1>1, InductiveInvariant, PTL

\* beginRun, completeRun, failRun, cancelRun and recovery together implement
\* the ledger: one decision per run, an answer exactly with completion.
THEOREM RunsImplementTheLedger == Spec => ImplementsLedger
<1>1. Init => Ledger!Init
  BY DEF Init, Ledger!Init
<1>2. Inductive /\ [Next]_vars => [Ledger!Next]_<<status, assistant>>
  BY LedgerStep DEF Inductive
<1> QED
  BY <1>1, <1>2, InductiveInvariant, PTL
     DEF Spec, ImplementsLedger, Ledger!Spec, Ledger!ledger

-----------------------------------------------------------------------------
(* AiReplay.                                                               *)

\* Events expire only when the hour is over, and a late replay's run is
\* sealed; an empty page of such a replay means that it has read it all.
ReplayInv ==
  /\ ReplayTypeOK
  /\ \A r \in Runs : expired[r] > 0 => hour[r]
  /\ \A p \in Replays :
       replay[p].late =>
         /\ replay[p].at # "idle" /\ Sealed(replay[p].run)
         /\ replay[p].at \in {"drained", "ended"} =>
              replay[p].cursor = Len(log[replay[p].run]) \/ hour[replay[p].run]
  /\ EndedReplayIsDecided

\* The event log is only ever appended to, by a producer that still runs.
LEMMA LogGrows ==
  ASSUME TypeOK, [Next]_vars, NEW q \in Runs
  PROVE  /\ Len(log[q]) \in Nat /\ Len(log'[q]) \in Nat
         /\ Len(log'[q]) >= Len(log[q])
         /\ log'[q] = log[q] \/ pc[q] \in {"streaming", "draining"}
<1> USE DEF TypeOK
<1>1. ASSUME NEW r \in Runs, ForwardChunk(r)
      PROVE  \/ log'[q] = log[q]
             \/ log'[q] = Append(log[q], "chunk") /\ pc[q] = "streaming"
  BY <1>1 DEF ForwardChunk, Visible
<1>2. ASSUME NEW r \in Runs, EmitTerminal(r)
      PROVE  \/ log'[q] = log[q]
             \/ log'[q] = log[q] \o TerminalChunk(terminal[q]) /\ pc[q] = "draining"
  BY <1>2 DEF EmitTerminal
<1>3. ASSUME NEW r \in Runs,
             \/ BeginRun(r) \/ StartStream(r) \/ FailRunAndClose(r)
             \/ PollCancellation(r) \/ ApplyPoll(r) \/ RenewLease(r)
             \/ CheckLostLease(r) \/ AbortLostLease(r) \/ OverallTimeout(r)
             \/ ConsumerReturns(r) \/ FinishSource(r) \/ FailSource(r)
             \/ AbortSource(r) \/ CompleteRun(r) \/ FailRun(r)
             \/ CloseStream(r) \/ Crash(r) \/ CancelRun(r)
             \/ ReportCancel(r)
      PROVE  log' = log
  BY <1>3 DEF tables, BeginRun, StartStream, FailRunAndClose, PollCancellation,
     ApplyPoll, RenewLease, CheckLostLease, AbortLostLease,
     OverallTimeout, ConsumerReturns, FinishSource, FailSource,
     AbortSource, CompleteRun, FailRun, CloseStream, Crash, CancelRun,
     ReportCancel
<1>4. ASSUME Worker \/ UNCHANGED vars PROVE log' = log
  BY <1>4 DEF Worker, Tick, RecoverStaleReservedRuns, vars
<1>5. \/ log'[q] = log[q]
      \/ log'[q] = Append(log[q], "chunk") /\ pc[q] = "streaming"
      \/ log'[q] = log[q] \o TerminalChunk(terminal[q]) /\ pc[q] = "draining"
  BY <1>1, <1>2, <1>3, <1>4, Zenon DEF Next, Producer, Client
<1>6. TerminalChunk(terminal[q]) \in Seq(SourceChunks)
  <2>1. TerminalChunk(terminal[q]) \in {<<>>, <<"finished">>, <<"error">>}
    BY Zenon DEF TerminalChunk
  <2>2. /\ <<>> \in Seq(SourceChunks) /\ <<"finished">> \in Seq(SourceChunks)
        /\ <<"error">> \in Seq(SourceChunks)
    BY DEF SourceChunks
  <2> QED  BY <2>1, <2>2
<1>7. log[q] \in Seq(SourceChunks) /\ "chunk" \in SourceChunks
  BY DEF SourceChunks
<1>8. CASE log'[q] = Append(log[q], "chunk") /\ pc[q] = "streaming"
  BY <1>7, <1>8, AppendProperties
<1>9. CASE log'[q] = log[q] \o TerminalChunk(terminal[q]) /\ pc[q] = "draining"
  <2>1. /\ Len(log[q]) \in Nat /\ Len(TerminalChunk(terminal[q])) \in Nat
        /\ Len(log'[q]) = Len(log[q]) + Len(TerminalChunk(terminal[q]))
    BY <1>6, <1>7, <1>9, ConcatProperties, LenProperties
  <2> QED  BY <1>9, <2>1
<1> QED  BY <1>5, <1>7, <1>8, <1>9

\* stream_closed_at is never cleared.
LEMMA ClosedStays ==
  ASSUME TypeOK, [Next]_vars, NEW q \in Runs, closed[q]
  PROVE  closed'[q]
<1> USE DEF TypeOK
<1>1. ASSUME NEW r \in Runs, FailRunAndClose(r) \/ CloseStream(r) \/ CancelRun(r)
      PROVE  closed'[q]
  BY <1>1 DEF FailRunAndClose, CloseStream, CancelRun
<1>2. ASSUME NEW r \in Runs,
             \/ BeginRun(r) \/ StartStream(r) \/ PollCancellation(r)
             \/ ApplyPoll(r) \/ RenewLease(r) \/ CheckLostLease(r)
             \/ AbortLostLease(r) \/ OverallTimeout(r) \/ ForwardChunk(r)
             \/ ConsumerReturns(r) \/ FinishSource(r) \/ FailSource(r)
             \/ AbortSource(r) \/ CompleteRun(r) \/ FailRun(r)
             \/ EmitTerminal(r) \/ Crash(r) \/ ReportCancel(r)
      PROVE  closed' = closed
  BY <1>2 DEF tables, row, BeginRun, StartStream, PollCancellation, ApplyPoll, RenewLease,
     CheckLostLease, AbortLostLease, OverallTimeout, ForwardChunk,
     ConsumerReturns, FinishSource, FailSource, AbortSource,
     CompleteRun, FailRun, EmitTerminal, Crash, ReportCancel
<1>3. ASSUME Worker \/ UNCHANGED vars PROVE closed'[q]
  BY <1>3, ZenonT(40) DEF Worker, Tick, RecoverStaleReservedRuns, vars
<1> QED  BY <1>1, <1>2, <1>3 DEF Next, Producer, Client

\* A sealed run stays sealed and its log as it is.
LEMMA SealedStays ==
  ASSUME TypeOK, [Next]_vars, NEW q \in Runs, Sealed(q)
  PROVE  Sealed(q)' /\ log'[q] = log[q]
BY ClosedStays, PlaceForward, LogGrows DEF Sealed, Ended

\* A page holds the events from the first live one after the cursor to the
\* last one of the log, and its end is one of them.
LEMMA PageBounds ==
  ASSUME TypeOK, NEW r \in Runs, NEW cursor \in Nat, expired[r] \in Nat
  PROVE  /\ Page(r, cursor) = {} => cursor >= Len(log[r]) \/ expired[r] > 0
         /\ Page(r, cursor) # {} => PageEnd(Page(r, cursor)) \in 0..Len(log[r])
<1> DEFINE page == Page(r, cursor)
           n == Len(log[r])
<1>1. n \in Nat /\ DOMAIN log[r] = 1..n
  BY DEF TypeOK
<1>2. page = {i \in 1..n : i > cursor /\ i > expired[r]}
  BY <1>1 DEF Page
<1> HIDE DEF page, n
<1>3. CASE page = {}
  <2>1. n \notin page
    BY <1>3
  <2> QED  BY <1>1, <1>2, <1>3, <2>1 DEF page, n
<1>4. CASE page # {}
  <2>1. n \in page /\ \A i \in page : i <= n
    BY <1>1, <1>2, <1>4
  <2>2. Max(page) = n
    BY <1>1, <1>2, <2>1 DEF Max
  <2>3. PICK first \in page : \A i \in page : first <= i
    <3> DEFINE k == (IF cursor > expired[r] THEN cursor ELSE expired[r]) + 1
    <3>1. k \in page /\ \A i \in page : k <= i
      BY <1>1, <1>2, <1>4
    <3> QED  BY <3>1
  <2>4. Min(page) = first
    BY <1>1, <1>2, <2>3 DEF Min
  <2>5. first \in 1..n /\ PageSize \in Nat \ {0}
    BY <1>2, <2>3, AiReplayAssumption DEF AiReplayAssumption
  <2>6. PICK least \in {n, first + PageSize - 1} :
          \A i \in {n, first + PageSize - 1} : least <= i
    BY <1>1, <2>5
  <2>7. Min({n, first + PageSize - 1}) = least
    BY <1>1, <2>5, <2>6 DEF Min
  <2> QED  BY <1>1, <1>4, <2>2, <2>4, <2>5, <2>6, <2>7 DEF PageEnd, page, n
<1> QED  BY <1>3, <1>4 DEF page, n
\* AiRun's steps keep what the readers rely on.
LEMMA ProducerReplayStep ==
  ASSUME Inductive, ReplayInv, [Next]_vars, UNCHANGED replayVars
  PROVE  ReplayInv'
<1>1. replay' = replay /\ hour' = hour /\ expired' = expired
  BY DEF replayVars
<1>2. TypeOK /\ ReplayTypeOK
  BY DEF Inductive, ReplayInv
<1>3. \A r \in Runs : /\ Len(log[r]) \in Nat /\ Len(log'[r]) \in Nat
                      /\ Len(log'[r]) >= Len(log[r])
  BY <1>2, LogGrows
<1>4. ReplayTypeOK'
  <2>1. \A p \in Replays : replay[p].at # "idle" =>
          replay[p].run \in Runs /\ replay[p].cursor <= Len(log'[replay[p].run])
    <3> TAKE p \in Replays
    <3>1. replay[p].cursor \in Nat
      BY <1>2 DEF ReplayTypeOK
    <3> QED  BY <1>2, <1>3, <3>1 DEF ReplayTypeOK
  <2>2. \A r \in Runs : expired[r] <= Len(log'[r])
    <3> TAKE r \in Runs
    <3>1. expired[r] \in Nat /\ expired[r] <= Len(log[r])
      BY <1>2 DEF ReplayTypeOK
    <3> QED  BY <1>3, <3>1
  <2> QED  BY <1>1, <1>2, <2>1, <2>2 DEF ReplayTypeOK
<1>5. \A r \in Runs : Sealed(r) => Sealed(r)' /\ log'[r] = log[r]
  BY <1>2, SealedStays
<1>6. \A p \in Replays :
        replay[p].late =>
          /\ replay[p].at # "idle" /\ Sealed(replay[p].run)'
          /\ replay[p].at \in {"drained", "ended"} =>
               replay[p].cursor = Len(log'[replay[p].run]) \/ hour[replay[p].run]
  BY <1>1, <1>2, <1>5 DEF ReplayInv, ReplayTypeOK, Sealed
<1>7. EndedReplayIsDecided'
  <2>1. \A r \in Runs : status[r] \in Decided => status'[r] = status[r]
    BY <1>2, LedgerStep, LedgerKeeps DEF Inductive
  <2>2. faults' = 0 => faults = 0
    BY <1>2, FaultsGrow
  <2> QED
    BY <1>1, <1>2, <2>1, <2>2 DEF ReplayInv, ReplayTypeOK, EndedReplayIsDecided
<1>8. (\A r \in Runs : expired[r] > 0 => hour[r])'
  BY <1>1 DEF ReplayInv
<1>9. (\A p \in Replays :
        replay[p].late =>
          /\ replay[p].at # "idle" /\ Sealed(replay[p].run)
          /\ replay[p].at \in {"drained", "ended"} =>
               replay[p].cursor = Len(log[replay[p].run]) \/ hour[replay[p].run])'
  BY <1>1, <1>6, Zenon
<1> QED  BY <1>4, <1>7, <1>8, <1>9 DEF ReplayInv

\* The invariant of one replay, which the readers' steps are checked against.
ReplayGood(e) ==
  /\ e \in [at : {"idle", "reading", "drained", "ended", "left"},
            run : Runs \cup {NoRun}, cursor : Nat, late : BOOLEAN]
  /\ e.at # "idle" => e.run \in Runs /\ e.cursor <= Len(log[e.run])
  /\ e.late =>
       /\ e.at # "idle" /\ Sealed(e.run)
       /\ e.at \in {"drained", "ended"} =>
            e.cursor = Len(log[e.run]) \/ hour[e.run]
  /\ e.at = "ended" /\ faults = 0 => status[e.run] \in Decided

\* A reader's step changes one replay, into one that is good.
LEMMA OneReplay ==
  ASSUME ReplayInv, UNCHANGED <<vars, hour, expired>>,
         NEW p \in Replays, NEW e, ReplayGood(e),
         replay' = [replay EXCEPT ![p] = e]
  PROVE  ReplayInv'
<1>1. \A q \in Replays : ReplayGood(replay[q])
  BY DEF ReplayInv, ReplayTypeOK, ReplayGood, EndedReplayIsDecided
<1>2. \A q \in Replays : ReplayGood(replay'[q])
  BY <1>1 DEF ReplayInv, ReplayTypeOK
<1>3. \A q \in Replays : ReplayGood(replay[q])'
  BY <1>2 DEF ReplayGood, vars, Sealed
<1>4. replay' \in [Replays ->
        [at : {"idle", "reading", "drained", "ended", "left"},
         run : Runs \cup {NoRun}, cursor : Nat, late : BOOLEAN]]
  BY DEF ReplayInv, ReplayTypeOK, ReplayGood
<1>5. log' = log /\ hour' = hour /\ expired' = expired
  BY DEF vars
<1> QED
  BY <1>3, <1>4, <1>5
     DEF ReplayInv, ReplayTypeOK, ReplayGood, EndedReplayIsDecided

\* The readers' steps.
LEMMA ReaderStep ==
  ASSUME Inductive, ReplayInv, Replaying
  PROVE  ReplayInv'
<1>1. ASSUME NEW p \in Replays, NEW r \in Runs, NEW seen \in 0..Len(log[r]),
             StartReplay(p, r, seen)
      PROVE  ReplayInv'
  <2> DEFINE e == [at |-> "reading", run |-> r, cursor |-> seen, late |-> Sealed(r)]
  <2>1. ReplayGood(e)
    <3>1. Sealed(r) \in BOOLEAN
      BY DEF Inductive, TypeOK, Sealed
    <3>2. Len(log[r]) \in Nat
      BY DEF Inductive, TypeOK
    <3> QED  BY <3>1, <3>2 DEF ReplayGood
  <2> QED  BY <1>1, <2>1, OneReplay DEF StartReplay
<1>2. ASSUME NEW p \in Replays, ReadPage(p) PROVE ReplayInv'
  <2> DEFINE r == replay[p].run
             page == Page(r, replay[p].cursor)
  <2>1. /\ replay[p].at = "reading" /\ r \in Runs
        /\ replay[p].cursor \in Nat /\ replay[p].cursor <= Len(log[r])
        /\ expired[r] \in Nat /\ Len(log[r]) \in Nat
        /\ ReplayGood(replay[p])
    BY <1>2 DEF ReadPage, ReplayInv, ReplayTypeOK, Inductive, TypeOK,
       ReplayGood, EndedReplayIsDecided
  <2>2. /\ page = {} => replay[p].cursor >= Len(log[r]) \/ expired[r] > 0
        /\ page # {} => PageEnd(page) \in 0..Len(log[r])
    BY <2>1, PageBounds DEF Inductive
  <2>3. CASE page = {} /\ replay' = [replay EXCEPT ![p].at = "drained"]
    <3> DEFINE e == [replay[p] EXCEPT !.at = "drained"]
    <3>1. replay[p].cursor = Len(log[r]) \/ hour[r]
      BY <2>1, <2>2, <2>3 DEF ReplayInv
    <3>2. ReplayGood(e)
      BY <2>1, <3>1 DEF ReplayGood
    <3>3. replay' = [replay EXCEPT ![p] = e]
      BY <2>3
    <3> QED  BY <1>2, <3>2, <3>3, OneReplay DEF ReadPage
  <2>4. CASE page # {} /\ replay' = [replay EXCEPT ![p].cursor = PageEnd(page)]
    <3> DEFINE e == [replay[p] EXCEPT !.cursor = PageEnd(page)]
    <3>1. PageEnd(page) \in Nat /\ PageEnd(page) <= Len(log[r])
      BY <2>1, <2>2, <2>4
    <3>2. ReplayGood(e)
      BY <2>1, <3>1 DEF ReplayGood
    <3>3. replay' = [replay EXCEPT ![p] = e]
      BY <2>4
    <3> QED  BY <1>2, <3>2, <3>3, OneReplay DEF ReadPage
  <2> QED  BY <1>2, <2>3, <2>4 DEF ReadPage
<1>3. ASSUME NEW p \in Replays, CheckClosed(p) PROVE ReplayInv'
  <2> DEFINE r == replay[p].run
             e == [replay[p] EXCEPT !.at = IF EndsReplay(r) THEN "ended" ELSE "reading"]
  <2>1. replay[p].at = "drained" /\ r \in Runs /\ ReplayGood(replay[p])
    BY <1>3 DEF CheckClosed, ReplayInv, ReplayTypeOK, ReplayGood,
       EndedReplayIsDecided
  <2>2. closed[r] /\ faults = 0 => status[r] \in Decided
    BY <2>1 DEF Inductive, PlaceFitsStatus, EndedMeansDecided, Decided
  <2>3. ReplayGood(e)
    BY <2>1, <2>2 DEF ReplayGood, EndsReplay
  <2> QED  BY <1>3, <2>3, OneReplay DEF CheckClosed
<1>4. ASSUME NEW p \in Replays, LeaveReplay(p) PROVE ReplayInv'
  <2>1. replay[p].at # "idle" /\ ReplayGood(replay[p])
    BY <1>4 DEF LeaveReplay, ReplayInv, ReplayTypeOK, ReplayGood,
       EndedReplayIsDecided
  <2>2. ReplayGood([replay[p] EXCEPT !.at = "left"])
    BY <2>1 DEF ReplayGood
  <2> QED  BY <1>4, <2>2, OneReplay DEF LeaveReplay
<1>5. ASSUME NEW r \in Runs, PassHour(r) PROVE ReplayInv'
  <2>1. \A q \in Runs : hour[q] => hour'[q]
    BY <1>5 DEF PassHour, ReplayInv, ReplayTypeOK
  <2>2. /\ hour' \in [Runs -> BOOLEAN]
        /\ UNCHANGED <<status, closed, log, pc, faults, replay, expired>>
    BY <1>5 DEF PassHour, ReplayInv, ReplayTypeOK, vars
  <2> QED
    BY <2>1, <2>2 DEF ReplayInv, ReplayTypeOK, EndedReplayIsDecided, Sealed
<1>6. ASSUME NEW r \in Runs, ExpireEvent(r) PROVE ReplayInv'
  <2>1. /\ expired' \in [Runs -> Nat]
        /\ \A q \in Runs : expired'[q] <= Len(log[q])
        /\ \A q \in Runs : expired'[q] > 0 => hour[q]
    BY <1>6 DEF ExpireEvent, ReplayInv, ReplayTypeOK, Inductive, TypeOK
  <2>2. UNCHANGED <<status, closed, log, pc, faults, replay, hour>>
    BY <1>6 DEF ExpireEvent, vars
  <2> QED
    BY <2>1, <2>2 DEF ReplayInv, ReplayTypeOK, EndedReplayIsDecided, Sealed
<1> QED  BY <1>1, <1>2, <1>3, <1>4, <1>5, <1>6 DEF Replaying

\* The readers' invariant and AiRun's hold together in every reachable state.
THEOREM ReplayInvariant == ReplaySpec => [](Inductive /\ ReplayInv)
<1>1. ReplayInit => Inductive /\ ReplayInv
  <2> SUFFICES ASSUME ReplayInit PROVE Inductive /\ ReplayInv
    OBVIOUS
  <2>1. Inductive
    BY InductiveInit DEF ReplayInit
  <2>2. ReplayTypeOK
    BY <2>1 DEF ReplayInit, ReplayTypeOK, Unused, Inductive, TypeOK
  <2> QED
    BY <2>1, <2>2 DEF ReplayInit, ReplayInv, Unused, EndedReplayIsDecided
<1>2. Inductive /\ ReplayInv /\ [ReplayNext]_allVars => Inductive' /\ ReplayInv'
  <2> SUFFICES ASSUME Inductive, ReplayInv, [ReplayNext]_allVars
               PROVE  Inductive' /\ ReplayInv'
    OBVIOUS
  <2>1. CASE [Next]_vars /\ UNCHANGED replayVars
    BY <2>1, InductiveStep, ProducerReplayStep
  <2>2. CASE Replaying
    <3>1. UNCHANGED vars
      BY <2>2 DEF Replaying, StartReplay, ReadPage, CheckClosed, LeaveReplay,
         PassHour, ExpireEvent
    <3> QED  BY <2>2, <3>1, InductiveStep, ReaderStep
  <2> QED
    BY <2>1, <2>2 DEF ReplayNext, allVars, replayVars
<1> QED  BY <1>1, <1>2, PTL DEF ReplaySpec

\* The end of a replay means that the run is decided, unless a call failed
\* (PostgresStreamDurability.read against every writer of the row).
THEOREM EndedReplaysAreDecided == ReplaySpec => []EndedReplayIsDecided
<1>1. Inductive /\ ReplayInv => EndedReplayIsDecided
  BY DEF ReplayInv
<1> QED  BY <1>1, ReplayInvariant, PTL

\* A replay admitted after its run was sealed delivers the whole log, unless
\* the hour after which events expire is over.
THEOREM LateReplaysAreComplete == ReplaySpec => []LateReplayIsComplete
<1>1. Inductive /\ ReplayInv => LateReplayIsComplete
  BY DEF ReplayInv, LateReplayIsComplete
<1> QED  BY <1>1, ReplayInvariant, PTL

\* The end of a replay can be relied on.
THEOREM EndedReplaysAreRight == ReplaySpec => []EndedReplayIsRight
<1>1. LateReplayIsComplete /\ EndedReplayIsDecided => EndedReplayIsRight
  BY DEF EndedReplayIsRight
<1> QED  BY <1>1, EndedReplaysAreDecided, LateReplaysAreComplete, PTL

\* Every variable of a replay keeps its type, and no cursor passes the log.
THEOREM ReplayTypeCorrect == ReplaySpec => []ReplayTypeOK
<1>1. ReplayInv => ReplayTypeOK
  BY DEF ReplayInv
<1> QED  BY <1>1, ReplayInvariant, PTL
=============================================================================
