------------------------------- MODULE Outbox -------------------------------
(***************************************************************************)
(* The transactional outbox: rows written by the delete operations of the  *)
(* API, claimed and processed by OutboxProcessor in one or more worker     *)
(* processes.                                                              *)
(*                                                                         *)
(* Every SQL statement and every call to the object store is one step.  A  *)
(* claim holds a row by (locked_by, locked_until); nothing stops a worker  *)
(* that has lost its claim from finishing the event it is working on, so   *)
(* two workers can process one event at the same time.  Times are relative *)
(* to now: due is next_attempt_at - now and lease is locked_until - now,   *)
(* both counted down by Tick, lease to 0 and due to a negative floor that  *)
(* keeps the order of the events.                                          *)
(*                                                                         *)
(* An event's effect is Steps phases in order (its objects, the archive    *)
(* prefix, then the database row, as far as its topic has them), each of   *)
(* which may be repeated.                                                  *)
(***************************************************************************)
EXTENDS Integers, Sequences, FiniteSets

CONSTANTS
  Events,        \* outbox rows
  Poison,        \* events whose effect never succeeds
  Workers,       \* outbox worker processes
  Nobody,        \* locked_by is null
  Ghost,         \* locked_by is the id of a process that is gone
  BatchSize,     \* claim's LIMIT
  ClaimLease,    \* the five-minute claim, in ticks
  EnqueueDelay,  \* the producers' 15 minutes, in ticks
  MaxDelay,      \* the 3600 s limit of the backoff, in ticks
  ReportAt,      \* the attempt that is reported
  Steps,         \* phases of an event's effect
  MaxAttempts,   \* bound: attempts are counted up to here
  MaxOverdue,    \* bound: the times of older events tell their order only
  MaxFaults      \* bound: failed calls and crashes

ASSUME OutboxAssumption ==
  /\ Poison \subseteq Events
  /\ Nobody \notin Workers /\ Ghost \notin Workers /\ Nobody # Ghost
  /\ BatchSize \in Nat \ {0} /\ ClaimLease \in Nat \ {0}
  /\ EnqueueDelay \in Nat /\ MaxDelay \in Nat \ {0}
  /\ EnqueueDelay <= MaxDelay
  /\ Steps \in Nat \ {0}
  /\ ReportAt \in Nat \ {0} /\ MaxAttempts \in Nat /\ ReportAt < MaxAttempts
  /\ MaxOverdue \in Nat /\ MaxFaults \in Nat

VARIABLES
  stored,      \* the events whose row has been inserted
  published,   \* the events whose published_at is set
  attempts,    \* attempt_count
  due,         \* next_attempt_at - now
  lockedBy,    \* locked_by
  lease,       \* locked_until - now, 0 when null or past
  purged,      \* the phases of each event's effect done so far
  reports,     \* how often an event was reported
  place,       \* where each worker is
  batch,       \* what is left of each worker's claimed events
  progress,    \* phases the worker has done for the first of them
  faults       \* failed calls and crashes so far

rows == <<stored, published, attempts, due, lockedBy, lease>>
workers == <<place, batch, progress>>
vars == <<stored, published, attempts, due, lockedBy, lease,
          purged, reports, place, batch, progress, faults>>

Claims == [event : Events, attempt : 0..MaxAttempts]

TypeOK ==
  /\ stored \subseteq Events
  /\ published \subseteq stored
  /\ attempts \in [Events -> 0..MaxAttempts]
  /\ due \in [Events -> Int] /\ \A e \in Events : due[e] <= MaxDelay
  /\ lockedBy \in [Events -> Workers \cup {Nobody, Ghost}]
  /\ lease \in [Events -> 0..ClaimLease]
  /\ purged \in [Events -> SUBSET (1..Steps)]
  /\ reports \in [Events -> Nat]
  /\ place \in [Workers -> {"idle", "processing", "publishing", "failing"}]
  /\ batch \in [Workers -> Seq(Claims)]
  /\ progress \in [Workers -> 0..Steps]
  /\ faults \in 0..MaxFaults

Init ==
  /\ stored = {}
  /\ published = {}
  /\ attempts = [e \in Events |-> 0]
  /\ due = [e \in Events |-> 0]
  /\ lockedBy = [e \in Events |-> Nobody]
  /\ lease = [e \in Events |-> 0]
  /\ purged = [e \in Events |-> {}]
  /\ reports = [e \in Events |-> 0]
  /\ place = [w \in Workers |-> "idle"]
  /\ batch = [w \in Workers |-> <<>>]
  /\ progress = [w \in Workers |-> 0]
  /\ faults = 0

-----------------------------------------------------------------------------
Fault == faults < MaxFaults /\ faults' = faults + 1

\* The event a worker is working on, and the attempt count it read.
Current(w) == Head(batch[w]).event
Attempt(w) == Head(batch[w]).attempt

\* Mutant: the updates lose their lockedBy = workerId condition.
HeldByAnyone(w, e) == w \in Workers /\ e \in stored \ published

\* WHERE locked_by = workerId and published_at is null.
Held(w, e) == lockedBy[e] = w /\ e \notin published

\* min(2^attemptCount, 3600)
Backoff(n) == IF 2^n < MaxDelay THEN 2^n ELSE MaxDelay

\* Mutant: a claim must be released by its worker before another takes it.
AvailableUnclaimed(e) == lockedBy[e] = Nobody

\* locked_until is null or past.
Available(e) == lease[e] = 0

\* claim's WHERE, without the rows another transaction has locked.
Ready(skipped) ==
  {e \in (stored \ published) \ skipped : due[e] <= 0 /\ Available(e)}

\* claim's ORDER BY next_attempt_at LIMIT.
IsBatch(b, ready) ==
  /\ \A i, j \in DOMAIN b : i < j => b[i] # b[j] /\ due[b[i]] <= due[b[j]]
  /\ \A e \in ready : \/ \E i \in DOMAIN b : b[i] = e
                      \/ /\ Len(b) = BatchSize
                         /\ \A i \in DOMAIN b : due[b[i]] <= due[e]

Batches(ready) ==
  {b \in UNION {[1..n -> ready] : n \in 1..BatchSize} : IsBatch(b, ready)}

\* The loop's next iteration, and the end of the for loop.
NextEvent(w) ==
  /\ batch' = [batch EXCEPT ![w] = Tail(@)]
  /\ progress' = [progress EXCEPT ![w] = 0]
  /\ place' = [place EXCEPT ![w] =
                 IF Len(batch[w]) = 1 THEN "idle" ELSE "processing"]

\* process() rejects or the process dies: the claims stay until they expire.
DropBatch(w) ==
  /\ batch' = [batch EXCEPT ![w] = <<>>]
  /\ progress' = [progress EXCEPT ![w] = 0]
  /\ place' = [place EXCEPT ![w] = "idle"]

-----------------------------------------------------------------------------
\* A delete operation stores the event in its own transaction, due when the
\* last upload URL has expired: sooner, or at once, for an older asset.
Enqueue(e) ==
  /\ e \notin stored
  /\ stored' = stored \cup {e}
  /\ \E delay \in 0..EnqueueDelay : due' = [due EXCEPT ![e] = delay]
  /\ UNCHANGED <<published, attempts, lockedBy, lease, purged, reports,
                 workers, faults>>

\* claim: one transaction locks a batch of ready rows.  When its
\* acknowledgement is lost, they stay claimed and nobody processes them.
Claim(w, skipped) ==
  /\ place[w] = "idle"
  /\ \E b \in Batches(Ready(skipped)) :
       LET claimed == {b[i] : i \in DOMAIN b}
       IN /\ lockedBy' = [e \in Events |->
                            IF e \in claimed THEN w ELSE lockedBy[e]]
          /\ lease' = [e \in Events |->
                         IF e \in claimed THEN ClaimLease ELSE lease[e]]
          /\ \/ /\ batch' = [batch EXCEPT ![w] =
                     [i \in DOMAIN b |->
                        [event |-> b[i], attempt |-> attempts[b[i]]]]]
                /\ place' = [place EXCEPT ![w] = "processing"]
                /\ UNCHANGED faults
             \/ UNCHANGED <<batch, place>> /\ Fault
  /\ UNCHANGED <<stored, published, attempts, due, purged, reports, progress>>

\* Mutant: a failed call is not noticed.
EffectUnchecked(w) ==
  /\ place[w] = "processing"
  /\ place' = [place EXCEPT ![w] = "publishing"]
  /\ UNCHANGED <<rows, purged, reports, batch, progress, faults>>

\* processEvent: the next phase of the event's effect succeeds.
Effect(w) ==
  /\ place[w] = "processing" /\ Current(w) \notin Poison
  /\ purged' = [purged EXCEPT ![Current(w)] = @ \cup {progress[w] + 1}]
  /\ progress' = [progress EXCEPT ![w] = @ + 1]
  /\ place' = [place EXCEPT ![w] =
                 IF progress[w] + 1 = Steps THEN "publishing" ELSE @]
  /\ UNCHANGED <<rows, reports, batch, faults>>

\* The next phase fails.
EffectFails(w) ==
  /\ place[w] = "processing"
  /\ \/ Current(w) \in Poison /\ UNCHANGED faults
     \/ Fault
  /\ place' = [place EXCEPT ![w] = "failing"]
  /\ UNCHANGED <<rows, purged, reports, batch, progress>>

\* The update that sets published_at and releases the claim.
SetPublished(w) ==
  /\ Held(w, Current(w))
  /\ published' = published \cup {Current(w)}
  /\ lockedBy' = [lockedBy EXCEPT ![Current(w)] = Nobody]
  /\ lease' = [lease EXCEPT ![Current(w)] = 0]

\* A failed update, or one whose acknowledgement is lost, is a failure of the
\* event like any other.
Publish(w) ==
  /\ place[w] = "publishing"
  /\ \/ SetPublished(w) /\ NextEvent(w) /\ UNCHANGED faults
     \/ /\ ~Held(w, Current(w)) /\ NextEvent(w)
        /\ UNCHANGED <<published, lockedBy, lease, faults>>
     \/ /\ Fault
        /\ SetPublished(w) \/ UNCHANGED <<published, lockedBy, lease>>
        /\ place' = [place EXCEPT ![w] = "failing"]
        /\ UNCHANGED <<batch, progress>>
  /\ UNCHANGED <<stored, attempts, due, purged, reports>>

\* The update of the catch block: one more attempt, a later next_attempt_at,
\* and the claim released.
SetFailed(w, count) ==
  LET e == Current(w)
  IN /\ Held(w, e)
     /\ attempts' = [attempts EXCEPT ![e] = count]
     /\ due' = [due EXCEPT ![e] = Backoff(count)]
     /\ lockedBy' = [lockedBy EXCEPT ![e] = Nobody]
     /\ lease' = [lease EXCEPT ![e] = 0]

\* The catch block.  Its update may itself throw, applied or not, which ends
\* process() and leaves the rest of the batch claimed and unreported.
RecordFailure(w) ==
  LET e == Current(w)
      count == IF Attempt(w) < MaxAttempts THEN Attempt(w) + 1 ELSE MaxAttempts
  IN /\ place[w] = "failing"
     /\ \/ /\ SetFailed(w, count) /\ NextEvent(w)
           /\ reports' = [reports EXCEPT ![e] =
                            IF count = ReportAt THEN @ + 1 ELSE @]
           /\ UNCHANGED faults
        \/ /\ ~Held(w, e) /\ NextEvent(w)
           /\ UNCHANGED <<attempts, due, lockedBy, lease, reports,
                          faults>>
        \/ /\ Fault
           /\ SetFailed(w, count) \/ UNCHANGED <<attempts, due, lockedBy, lease>>
           /\ DropBatch(w)
           /\ UNCHANGED reports
     /\ UNCHANGED <<stored, published, purged>>

\* The process dies and is started again with a new worker id.
Crash(w) ==
  /\ place[w] # "idle" /\ Fault
  /\ DropBatch(w)
  /\ lockedBy' = [e \in Events |-> IF lockedBy[e] = w THEN Ghost ELSE lockedBy[e]]
  /\ UNCHANGED <<stored, published, attempts, due, lease, purged, reports>>

\* Time passes for every unpublished event.
Tick ==
  LET Older(e) == {f \in stored \ published : due[f] < due[e]}
      waiting == {e \in stored \ published :
                    due[e] > Cardinality(Older(e)) - MaxOverdue}
      leased == {e \in Events : lease[e] > 0}
  IN /\ waiting \cup leased # {}
     /\ due' = [e \in Events |-> IF e \in waiting THEN due[e] - 1 ELSE due[e]]
     /\ lease' = [e \in Events |-> IF e \in leased THEN lease[e] - 1 ELSE 0]
     /\ UNCHANGED <<stored, published, attempts, lockedBy, purged, reports,
                    workers, faults>>

Worker(w) ==
  \/ \E skipped \in SUBSET Events : Claim(w, skipped)
  \/ Effect(w) \/ EffectFails(w) \/ Publish(w) \/ RecordFailure(w) \/ Crash(w)

Next ==
  \/ Tick
  \/ \E e \in Events : Enqueue(e)
  \/ \E w \in Workers : Worker(w)

Spec == Init /\ [][Next]_vars

\* The loop of runOutboxWorker never stops, awaited calls settle, and a claim
\* does not always find rows locked by other transactions: those are short.
Fairness ==
  /\ WF_vars(Tick)
  /\ \A w \in Workers :
       /\ SF_vars(Claim(w, {}))
       /\ WF_vars(Effect(w) \/ EffectFails(w))
       /\ WF_vars(Publish(w)) /\ WF_vars(RecordFailure(w))

FairSpec == Spec /\ Fairness

-----------------------------------------------------------------------------
(* Properties.                                                             *)

\* At least once: a published event's whole effect has been made, also when
\* several workers processed it, crashed or lost their claims on the way.
PublishedIsPurged == \A e \in published : purged[e] = 1..Steps

\* attempt_count counts failures: a worker that lost its claim never sets it
\* back, and nothing changes it after publication.
AttemptsCountUp ==
  [][\A e \in Events :
       /\ attempts'[e] \in {attempts[e], attempts[e] + 1}
       /\ e \in published => e \in published' /\ attempts'[e] = attempts[e]]_vars

\* A persistently failing event is reported once, not by every worker and not
\* on every later attempt.
ReportedOnce == \A e \in Events : reports[e] <= 1

\* What these need to be inductive.  A worker has done the phases before the
\* one it is at, and all of them when it publishes.
PhasesDone ==
  \A w \in Workers :
    /\ place[w] = "idle" <=> batch[w] = <<>>
    /\ place[w] = "idle" => progress[w] = 0
    /\ place[w] = "processing" =>
         progress[w] < Steps /\ 1..progress[w] \subseteq purged[Current(w)]
    /\ place[w] = "publishing" => purged[Current(w)] = 1..Steps

\* As long as a worker holds a claim, the attempt count it read is current.
ClaimIsFresh ==
  \A w \in Workers : \A i \in DOMAIN batch[w] :
    /\ batch[w][i].event \in stored
    /\ Held(w, batch[w][i].event) =>
         batch[w][i].attempt = attempts[batch[w][i].event]

\* A reported event has reached the attempt that is reported.
ReportsCounted ==
  \A e \in Events : reports[e] = 0 \/ (reports[e] = 1 /\ attempts[e] >= ReportAt)

\* The inductive invariant behind the theorems of OutboxProofs.
Inductive ==
  TypeOK /\ PhasesDone /\ PublishedIsPurged /\ ClaimIsFresh /\ ReportsCounted

\* Another worker has taken over the event that a worker is working on.
Overtaken ==
  \E w \in Workers : place[w] # "idle" /\ ~Held(w, Current(w))

\* Every event whose effect can succeed is published in the end, whatever
\* fails on the way: crashed claims expire and failing events make way.  Only
\* effects that outlast their claims again and again can go on for ever.
HealthyPublished ==
  <>[]~Overtaken => \A e \in Events \ Poison : e \in stored ~> e \in published
=============================================================================
