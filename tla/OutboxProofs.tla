---------------------------- MODULE OutboxProofs ----------------------------
(***************************************************************************)
(* Theorems about Outbox, for every set of events and workers, every batch *)
(* size, lease, delay and number of phases, attempts and faults.           *)
(*                                                                         *)
(* The lemmas about claimed batches (ClaimedEvent, BatchMoves,             *)
(* ClaimedBatch) carry the facts about sequences; the others follow the    *)
(* parts of Inductive, one step per action.                                *)
(***************************************************************************)
EXTENDS Outbox, SequenceTheorems, TLAPS

\* What a worker that is not idle has in its hands.
LEMMA ClaimedEvent ==
  ASSUME TypeOK, PhasesDone, NEW w \in Workers, place[w] # "idle"
  PROVE  /\ batch[w] \in Seq(Claims) /\ batch[w] # <<>>
         /\ 1 \in DOMAIN batch[w] /\ Head(batch[w]) = batch[w][1]
         /\ Current(w) \in Events
         /\ Attempt(w) \in 0..MaxAttempts
<1>1. batch[w] \in Seq(Claims) /\ batch[w] # <<>>
  BY DEF TypeOK, PhasesDone
<1>2. Head(batch[w]) \in Claims
  BY <1>1, HeadTailProperties
<1>3. 1 \in DOMAIN batch[w] /\ Head(batch[w]) = batch[w][1]
  BY <1>1
<1> QED  BY <1>1, <1>2, <1>3 DEF Claims, Current, Attempt

\* Ending the work on an event leaves the rest of the batch, or nothing, and
\* does not touch the other workers.
LEMMA BatchMoves ==
  ASSUME TypeOK, PhasesDone, NEW w \in Workers, place[w] # "idle",
         NextEvent(w) \/ DropBatch(w)
  PROVE  /\ batch' \in [Workers -> Seq(Claims)]
         /\ place' \in [Workers -> {"idle", "processing", "publishing", "failing"}]
         /\ progress' \in [Workers -> 0..Steps]
         /\ \A v \in Workers \ {w} : /\ batch'[v] = batch[v]
                                     /\ place'[v] = place[v]
                                     /\ progress'[v] = progress[v]
         /\ place'[w] \in {"idle", "processing"} /\ progress'[w] = 0
         /\ place'[w] = "idle" <=> batch'[w] = <<>>
         /\ \A i \in DOMAIN batch'[w] :
              i + 1 \in DOMAIN batch[w] /\ batch'[w][i] = batch[w][i + 1]
<1> USE DEF TypeOK
<1>1. batch[w] \in Seq(Claims) /\ batch[w] # <<>>
  BY ClaimedEvent
<1>2. /\ Tail(batch[w]) \in Seq(Claims)
      /\ Len(Tail(batch[w])) = Len(batch[w]) - 1
      /\ \A i \in 1..Len(Tail(batch[w])) : Tail(batch[w])[i] = batch[w][i + 1]
  BY <1>1, HeadTailProperties
<1>3. Len(batch[w]) = 1 <=> Tail(batch[w]) = <<>>
  <2>1. Tail(batch[w]) = <<>> <=> Len(Tail(batch[w])) = 0
    BY <1>2, EmptySeq
  <2>2. Len(batch[w]) \in Nat
    BY <1>1, LenProperties
  <2> QED  BY <1>2, <2>1, <2>2
<1>4. <<>> \in Seq(Claims) /\ 0 \in 0..Steps
  BY OutboxAssumption DEF OutboxAssumption
<1>5. CASE NextEvent(w)
  <2>1. batch'[w] = Tail(batch[w])
    BY <1>5 DEF NextEvent
  <2>2. \A i \in DOMAIN batch'[w] :
          i + 1 \in DOMAIN batch[w] /\ batch'[w][i] = batch[w][i + 1]
    BY <1>1, <1>2, <2>1
  <2> QED  BY <1>2, <1>3, <1>4, <1>5, <2>1, <2>2 DEF NextEvent
<1>6. CASE DropBatch(w)
  BY <1>4, <1>6 DEF DropBatch
<1> QED  BY <1>5, <1>6

\* A claimed batch is a sequence of claims, each with the current count.
LEMMA ClaimedBatch ==
  ASSUME TypeOK, NEW skipped, NEW b \in Batches(Ready(skipped)),
         NEW c, c = [i \in DOMAIN b |->
                       [event |-> b[i], attempt |-> attempts[b[i]]]]
  PROVE  /\ c \in Seq(Claims) /\ c # <<>> /\ DOMAIN c = DOMAIN b
         /\ \A i \in DOMAIN c : /\ c[i].event = b[i] /\ b[i] \in Events
                                /\ c[i].attempt = attempts[b[i]]
<1>1. PICK n \in 1..BatchSize : b \in [1..n -> Ready(skipped)]
  BY DEF Batches
<1>2. n \in Nat /\ n > 0
  BY OutboxAssumption DEF OutboxAssumption
<1>3. \A i \in 1..n : b[i] \in Events
  BY <1>1 DEF Ready, TypeOK
<1>4. c \in [1..n -> Claims]
  BY <1>1, <1>3 DEF TypeOK, Claims
<1>5. c \in Seq(Claims)
  BY <1>2, <1>4
<1>6. c # <<>>
  BY <1>2, <1>4
<1> QED  BY <1>1, <1>3, <1>4, <1>5, <1>6


\* Every step keeps every variable within its type.
LEMMA TypeStep ==
  ASSUME TypeOK, PhasesDone, ClaimIsFresh, [Next]_vars
  PROVE  TypeOK'
<1> USE DEF TypeOK, rows, workers
<1>0. Fault => faults' \in 0..MaxFaults
  BY OutboxAssumption DEF Fault, OutboxAssumption
<1>a. 0 \in 0..ClaimLease /\ ClaimLease \in 0..ClaimLease
      /\ MaxDelay \in Int /\ MaxAttempts \in Nat /\ EnqueueDelay <= MaxDelay
      /\ EnqueueDelay \in Nat /\ Steps \in Nat
  BY OutboxAssumption DEF OutboxAssumption
<1>1. ASSUME NEW e \in Events, Enqueue(e) PROVE TypeOK'
  BY <1>a, <1>1 DEF Enqueue
<1>2. ASSUME NEW w \in Workers, NEW skipped \in SUBSET Events, Claim(w, skipped)
      PROVE  TypeOK'
  <2>1. PICK b \in Batches(Ready(skipped)) : Claim(w, skipped)!2!(b)
    BY <1>2 DEF Claim
  <2> DEFINE c == [i \in DOMAIN b |-> [event |-> b[i], attempt |-> attempts[b[i]]]]
  <2>2. c \in Seq(Claims)
    BY ClaimedBatch
  <2>3. batch' \in [Workers -> Seq(Claims)]
    BY <2>1, <2>2
  <2>4. place' \in [Workers -> {"idle", "processing", "publishing", "failing"}]
    BY <2>1
  <2>5. lockedBy' \in [Events -> Workers \cup {Nobody, Ghost}]
    BY <2>1
  <2>6. lease' \in [Events -> 0..ClaimLease]
    BY <1>a, <2>1
  <2>7. faults' \in 0..MaxFaults
    BY <1>0, <2>1
  <2> QED  BY <1>2, <2>3, <2>4, <2>5, <2>6, <2>7 DEF Claim
<1>3. ASSUME NEW w \in Workers, Effect(w) PROVE TypeOK'
  <2>1. progress[w] < Steps /\ Current(w) \in Events
    BY <1>3, ClaimedEvent DEF Effect, PhasesDone
  <2>2. progress[w] + 1 \in 1..Steps /\ progress[w] + 1 \in 0..Steps
    BY <1>a, <2>1
  <2> QED  BY <1>3, <2>1, <2>2 DEF Effect
<1>4. ASSUME NEW w \in Workers, EffectFails(w) PROVE TypeOK'
  BY <1>0, <1>4 DEF EffectFails
<1>5. ASSUME NEW w \in Workers, Publish(w) PROVE TypeOK'
  <2>1. Current(w) \in Events /\ place[w] # "idle" /\ Current(w) \in stored
    <3>1. 1 \in DOMAIN batch[w] /\ Head(batch[w]) = batch[w][1] /\ Current(w) \in Events
      BY <1>5, ClaimedEvent DEF Publish
    <3>2. Current(w) \in stored
      BY <3>1 DEF ClaimIsFresh, Current
    <3> QED  BY <1>5, <3>1, <3>2 DEF Publish
  <2>2. /\ batch' \in [Workers -> Seq(Claims)]
        /\ place' \in [Workers -> {"idle", "processing", "publishing", "failing"}]
        /\ progress' \in [Workers -> 0..Steps]
    <3>1. CASE NextEvent(w)
      BY <2>1, <3>1, BatchMoves
    <3>2. CASE ~NextEvent(w)
      BY <1>5, <3>2 DEF Publish
    <3> QED  BY <3>1, <3>2
  <2>3. published' \subseteq stored'
    BY <1>5, <2>1 DEF Publish, SetPublished, Held
  <2>4. /\ lockedBy' \in [Events -> Workers \cup {Nobody, Ghost}]
        /\ lease' \in [Events -> 0..ClaimLease]
    BY <1>a, <1>5, ZenonT(40) DEF Publish, SetPublished
  <2>5. faults' \in 0..MaxFaults
    BY <1>0, <1>5 DEF Publish
  <2> QED  BY <1>5, <2>2, <2>3, <2>4, <2>5 DEF Publish
<1>6. ASSUME NEW w \in Workers, RecordFailure(w) PROVE TypeOK'
  <2> DEFINE count == IF Attempt(w) < MaxAttempts THEN Attempt(w) + 1 ELSE MaxAttempts
  <2>1. Current(w) \in Events /\ place[w] # "idle" /\ Attempt(w) \in 0..MaxAttempts
    BY <1>6, ClaimedEvent DEF RecordFailure
  <2>2. count \in 0..MaxAttempts /\ count \in Nat
    BY <1>a, <2>1
  <2>3. Backoff(count) \in Int /\ Backoff(count) <= MaxDelay
    <3>1. 2^count \in Int
      BY <2>2
    <3> QED  BY <1>a, <3>1 DEF Backoff
  <2>4. NextEvent(w) \/ DropBatch(w)
    BY <1>6 DEF RecordFailure
  <2>5. \/ SetFailed(w, count)
        \/ UNCHANGED <<attempts, due, lockedBy, lease>>
    BY <1>6 DEF RecordFailure
  <2>6. /\ attempts' \in [Events -> 0..MaxAttempts]
        /\ due' \in [Events -> Int] /\ \A e \in Events : due'[e] <= MaxDelay
        /\ lockedBy' \in [Events -> Workers \cup {Nobody, Ghost}]
        /\ lease' \in [Events -> 0..ClaimLease]
    <3>1. CASE SetFailed(w, count)
      BY <1>a, <2>1, <2>2, <2>3, <3>1 DEF SetFailed
    <3> QED  BY <2>5, <3>1
  <2>7. reports' \in [Events -> Nat] /\ faults' \in 0..MaxFaults
    <3>1. \/ reports' = reports
          \/ reports' = [reports EXCEPT ![Current(w)] = @ + 1]
      <4>1. \/ reports' = reports
            \/ reports' = [reports EXCEPT ![Current(w)] =
                              IF count = ReportAt THEN @ + 1 ELSE @]
        BY <1>6 DEF RecordFailure
      <4>2. reports = [reports EXCEPT ![Current(w)] = @]
        OBVIOUS
      <4> QED  BY <4>1, <4>2
    <3>2. faults' \in 0..MaxFaults
      BY <1>0, <1>6 DEF RecordFailure
    <3>3. reports' \in [Events -> Nat]
      <4>1. reports \in [Events -> Nat] /\ reports[Current(w)] + 1 \in Nat
        BY <2>1
      <4>2. CASE reports' = reports
        BY <4>1, <4>2
      <4>3. CASE reports' = [reports EXCEPT ![Current(w)] = @ + 1]
        BY <2>1, <4>1, <4>3
      <4> QED  BY <3>1, <4>2, <4>3
    <3> QED  BY <3>2, <3>3
  <2>8. /\ batch' \in [Workers -> Seq(Claims)]
        /\ place' \in [Workers -> {"idle", "processing", "publishing", "failing"}]
        /\ progress' \in [Workers -> 0..Steps]
    BY <2>1, <2>4, BatchMoves
  <2>9. UNCHANGED <<stored, published, purged>>
    BY <1>6 DEF RecordFailure
  <2> QED  BY <2>6, <2>7, <2>8, <2>9
<1>7. ASSUME NEW w \in Workers, Crash(w) PROVE TypeOK'
  <2>1. place[w] # "idle" /\ DropBatch(w)
    BY <1>7 DEF Crash
  <2> QED  BY <1>0, <1>7, <2>1, BatchMoves DEF Crash
<1>8. CASE Tick
  BY <1>a, <1>8 DEF Tick
<1>9. CASE UNCHANGED vars
  BY <1>9 DEF vars
<1> QED
  BY <1>1, <1>2, <1>3, <1>4, <1>5, <1>6, <1>7, <1>8, <1>9 DEF Next, Worker

\* No step makes a worker skip a phase or forgets one that was done.
LEMMA PhasesStep ==
  ASSUME TypeOK, PhasesDone, [Next]_vars
  PROVE  PhasesDone'
<1> USE DEF rows, workers
<1>0. Steps \in Nat \ {0}
  BY OutboxAssumption DEF OutboxAssumption
<1> DEFINE Good(w) ==
      /\ place[w] = "idle" <=> batch[w] = <<>>
      /\ place[w] = "idle" => progress[w] = 0
      /\ place[w] = "processing" =>
           progress[w] < Steps /\ 1..progress[w] \subseteq purged[Current(w)]
      /\ place[w] = "publishing" => purged[Current(w)] = 1..Steps
<1>g. \A w \in Workers : Good(w)
  BY DEF PhasesDone
<1>s. SUFFICES ASSUME NEW v \in Workers PROVE Good(v)'
  BY DEF PhasesDone
<1>k. ASSUME batch'[v] = batch[v], place'[v] = place[v],
             progress'[v] = progress[v], purged' = purged
      PROVE  Good(v)'
  BY <1>g, <1>k DEF Current
<1>1. ASSUME NEW e \in Events, Enqueue(e) PROVE Good(v)'
  BY <1>k, <1>1 DEF Enqueue
<1>2. ASSUME NEW w \in Workers, NEW skipped \in SUBSET Events, Claim(w, skipped)
      PROVE  Good(v)'
  <2>1. PICK b \in Batches(Ready(skipped)) : Claim(w, skipped)!2!(b)
    BY <1>2 DEF Claim
  <2> DEFINE c == [i \in DOMAIN b |-> [event |-> b[i], attempt |-> attempts[b[i]]]]
  <2>2. c # <<>>
    BY ClaimedBatch
  <2>3. CASE UNCHANGED <<batch, place>> \/ v # w
    BY <1>k, <1>2, <2>1, <2>3 DEF Claim, TypeOK
  <2>4. CASE ~UNCHANGED <<batch, place>> /\ v = w
    <3>1. batch'[v] = c /\ place'[v] = "processing" /\ progress'[v] = progress[v]
      BY <1>2, <2>1, <2>4 DEF Claim, TypeOK
    <3>2. progress[v] = 0
      BY <1>g, <1>2, <2>4 DEF Claim
    <3> QED  BY <1>0, <2>2, <3>1, <3>2
  <2> QED  BY <2>3, <2>4
<1>3. ASSUME NEW w \in Workers, Effect(w) PROVE Good(v)'
  <2>1. progress[w] < Steps /\ 1..progress[w] \subseteq purged[Current(w)]
        /\ Current(w) \in Events /\ progress[w] \in 0..Steps
        /\ purged[Current(w)] \subseteq 1..Steps
    BY <1>g, <1>3, ClaimedEvent DEF Effect, TypeOK
  <2>2. purged'[Current(w)] = purged[Current(w)] \cup {progress[w] + 1}
    BY <1>3, <2>1 DEF Effect, TypeOK
  <2>3. 1..(progress[w] + 1) \subseteq purged'[Current(w)]
    BY <1>0, <2>1, <2>2
  <2>4. CASE v = w
    <3>1. /\ batch'[v] = batch[v] /\ batch[v] # <<>> /\ progress'[v] = progress[v] + 1
          /\ place'[v] = IF progress[v] + 1 = Steps THEN "publishing" ELSE "processing"
      BY <1>g, <1>3, <2>4 DEF Effect, TypeOK
    <3>2. Current(v)' = Current(v)
      BY <3>1 DEF Current
    <3>3. progress[v] + 1 = Steps => purged'[Current(v)] = 1..Steps
      <4>1. Steps \in 1..Steps
        BY <1>0
      <4>2. ASSUME progress[v] + 1 = Steps
            PROVE  /\ 1..Steps \subseteq purged'[Current(v)]
                   /\ purged'[Current(v)] = purged[Current(v)] \cup {Steps}
        BY <2>2, <2>3, <2>4, <4>2
      <4> QED  BY <2>1, <2>4, <4>1, <4>2, Zenon
    <3>4. progress[v] + 1 # Steps => progress'[v] < Steps
      BY <1>0, <2>1, <2>4, <3>1
    <3> QED  BY <2>3, <2>4, <3>1, <3>2, <3>3, <3>4
  <2>5. CASE v # w
    <3>1. /\ batch'[v] = batch[v] /\ progress'[v] = progress[v]
          /\ place'[v] = place[v]
      BY <1>3, <2>5 DEF Effect, TypeOK
    <3>2. Current(v)' = Current(v)
      BY <3>1 DEF Current
    <3>3. place[v] # "idle" => purged'[Current(v)] =
            IF Current(v) = Current(w) THEN purged[Current(v)] \cup {progress[w] + 1}
            ELSE purged[Current(v)]
      BY <1>3, <2>1, <2>2, ClaimedEvent DEF Effect, TypeOK
    <3>4. progress[w] + 1 \in 1..Steps
      BY <1>0, <2>1
    <3>5. place[v] = "processing" =>
            1..progress[v] \subseteq purged'[Current(v)] /\ progress[v] < Steps
      BY <1>g, <3>3
    <3>6. place[v] = "publishing" => purged'[Current(v)] = 1..Steps
      BY <1>g, <3>3, <3>4
    <3> QED  BY <1>g, <3>1, <3>2, <3>5, <3>6
  <2> QED  BY <2>4, <2>5
<1>4. ASSUME NEW w \in Workers, EffectFails(w) PROVE Good(v)'
  <2>1. v # w => Good(v)'
    BY <1>k, <1>4 DEF EffectFails, TypeOK
  <2>2. v = w => batch'[v] # <<>> /\ place'[v] = "failing"
    BY <1>g, <1>4 DEF EffectFails, TypeOK
  <2> QED  BY <2>1, <2>2
<1>5. ASSUME NEW w \in Workers, place[w] # "idle", NextEvent(w) \/ DropBatch(w),
             purged' = purged
      PROVE  Good(v)'
  <2>1. CASE v # w
    BY <1>k, <1>5, <2>1, BatchMoves
  <2>2. CASE v = w
    <3>1. /\ place'[v] \in {"idle", "processing"} /\ progress'[v] = 0
          /\ place'[v] = "idle" <=> batch'[v] = <<>>
      BY <1>5, <2>2, BatchMoves
    <3>2. 1..0 \subseteq purged'[Current(v)']
      OBVIOUS
    <3> QED  BY <1>0, <3>1, <3>2
  <2> QED  BY <2>1, <2>2
<1>6. ASSUME NEW w \in Workers, Publish(w) PROVE Good(v)'
  <2>1. CASE NextEvent(w)
    BY <1>5, <1>6, <2>1 DEF Publish
  <2>2. CASE ~NextEvent(w)
    <3>1. /\ place' = [place EXCEPT ![w] = "failing"]
          /\ UNCHANGED <<batch, progress, purged>>
      BY <1>6, <2>2 DEF Publish
    <3>2. v # w => Good(v)'
      BY <1>k, <3>1 DEF TypeOK
    <3>3. v = w => batch'[v] # <<>> /\ place'[v] = "failing"
      BY <1>g, <1>6, <3>1 DEF Publish, TypeOK
    <3> QED  BY <3>2, <3>3
  <2> QED  BY <2>1, <2>2
<1>7. ASSUME NEW w \in Workers, RecordFailure(w) PROVE Good(v)'
  <2>1. place[w] # "idle" /\ (NextEvent(w) \/ DropBatch(w)) /\ purged' = purged
    BY <1>7 DEF RecordFailure
  <2> QED  BY <1>5, <2>1
<1>8. ASSUME NEW w \in Workers, Crash(w) PROVE Good(v)'
  BY <1>5, <1>8 DEF Crash
<1>9. CASE Tick
  BY <1>k, <1>9 DEF Tick
<1>10. CASE UNCHANGED vars
  BY <1>k, <1>10 DEF vars
<1> QED
  BY <1>1, <1>2, <1>3, <1>4, <1>6, <1>7, <1>8, <1>9, <1>10 DEF Next, Worker

\* The phases of an event are never undone.
LEMMA PurgedGrows ==
  ASSUME TypeOK, PhasesDone, [Next]_vars, NEW e \in Events
  PROVE  purged[e] \subseteq purged'[e]
<1> USE DEF rows, workers
<1>1. ASSUME NEW w \in Workers, Effect(w) PROVE purged[e] \subseteq purged'[e]
  BY <1>1 DEF Effect, TypeOK
<1>2. CASE purged' = purged
  BY <1>2
<1> QED
  BY <1>1, <1>2 DEF Next, Worker, vars, Enqueue, Claim, EffectFails, Publish,
     RecordFailure, Crash, Tick

\* Only a worker that has done every phase publishes.
LEMMA PurgedStep ==
  ASSUME TypeOK, TypeOK', PhasesDone, PublishedIsPurged, [Next]_vars
  PROVE  PublishedIsPurged'
<1> USE DEF rows, workers
<1>1. SUFFICES ASSUME NEW e \in Events, e \in published'
               PROVE  purged'[e] = 1..Steps
  BY DEF PublishedIsPurged, TypeOK
<1>2. purged[e] \subseteq purged'[e] /\ purged'[e] \subseteq 1..Steps
  BY PurgedGrows DEF TypeOK
<1>3. ASSUME e \in published PROVE purged'[e] = 1..Steps
  BY <1>2, <1>3 DEF PublishedIsPurged
<1>4. ASSUME NEW w \in Workers, Publish(w) PROVE purged'[e] = 1..Steps
  <2>1. published' \in {published, published \cup {Current(w)}}
    BY <1>4 DEF Publish, SetPublished
  <2>2. purged[Current(w)] = 1..Steps
    BY <1>4 DEF Publish, PhasesDone
  <2> QED  BY <1>1, <1>2, <1>3, <2>1, <2>2
<1>5. CASE published' = published
  BY <1>1, <1>3, <1>5
<1> QED
  BY <1>4, <1>5 DEF Next, Worker, vars, Enqueue, Claim, Effect, EffectFails,
     RecordFailure, Crash, Tick

\* Who changes an attempt count holds the event, adds one and lets it go.
LEMMA AttemptsStep ==
  ASSUME TypeOK, PhasesDone, ClaimIsFresh, [Next]_vars, attempts' # attempts
  PROVE  \E w \in Workers : LET e == Current(w) IN
           /\ RecordFailure(w) /\ e \in Events /\ Held(w, e)
           /\ lockedBy' = [lockedBy EXCEPT ![e] = Nobody]
           /\ attempts[e] < MaxAttempts
           /\ attempts' = [attempts EXCEPT ![e] = @ + 1]
<1> USE DEF rows, workers
<1>1. PICK w \in Workers : RecordFailure(w)
  BY DEF Next, Worker, vars, Enqueue, Claim, Effect, EffectFails, Publish, Crash, Tick
<1> DEFINE count == IF Attempt(w) < MaxAttempts THEN Attempt(w) + 1 ELSE MaxAttempts
<1>2. SetFailed(w, count)
  BY <1>1 DEF RecordFailure
<1>3. /\ Current(w) \in Events /\ Attempt(w) \in 0..MaxAttempts
      /\ 1 \in DOMAIN batch[w] /\ Head(batch[w]) = batch[w][1]
  BY <1>1, ClaimedEvent DEF RecordFailure
<1>4. Held(w, Current(w))
  BY <1>2 DEF SetFailed
<1>5. Attempt(w) = attempts[Current(w)]
  BY <1>3, <1>4 DEF ClaimIsFresh, Attempt, Current
<1>6. attempts' = [attempts EXCEPT ![Current(w)] = count]
      /\ lockedBy' = [lockedBy EXCEPT ![Current(w)] = Nobody]
  BY <1>2 DEF SetFailed
<1>7. Attempt(w) < MaxAttempts
  <2>1. SUFFICES ASSUME ~(Attempt(w) < MaxAttempts) PROVE FALSE
    OBVIOUS
  <2>2. Attempt(w) = MaxAttempts
    BY <1>3, <2>1, OutboxAssumption DEF OutboxAssumption
  <2>3. attempts' = attempts
    BY <1>3, <1>5, <1>6, <2>1, <2>2 DEF TypeOK
  <2> QED  BY <2>3
<1> QED  BY <1>1, <1>3, <1>4, <1>5, <1>6, <1>7

\* A claim taken over by another worker is not held any more; a claim that is
\* held has the count it was read with.
LEMMA FreshStep ==
  ASSUME TypeOK, PhasesDone, ClaimIsFresh, [Next]_vars
  PROVE  ClaimIsFresh'
<1> USE DEF rows, workers
<1> DEFINE Fresh(w) ==
      \A i \in DOMAIN batch[w] :
        /\ batch[w][i].event \in stored
        /\ Held(w, batch[w][i].event) =>
             batch[w][i].attempt = attempts[batch[w][i].event]
           Kept(w) == \A i \in DOMAIN batch'[w] :
                        \E j \in DOMAIN batch[w] : batch'[w][i] = batch[w][j]
<1>n. Nobody \notin Workers /\ Ghost \notin Workers
  BY OutboxAssumption DEF OutboxAssumption
<1>s. SUFFICES ASSUME NEW v \in Workers PROVE Fresh(v)'
  BY DEF ClaimIsFresh
<1>k. ASSUME Kept(v), stored \subseteq stored', published \subseteq published',
             \A e \in Events : lockedBy'[e] = v =>
               lockedBy[e] = v /\ attempts'[e] = attempts[e]
      PROVE  Fresh(v)'
  <2>1. SUFFICES ASSUME NEW i \in DOMAIN batch'[v]
                 PROVE  /\ batch'[v][i].event \in stored'
                        /\ lockedBy'[batch'[v][i].event] = v
                             /\ batch'[v][i].event \notin published' =>
                           batch'[v][i].attempt = attempts'[batch'[v][i].event]
    BY DEF Held
  <2>2. PICK j \in DOMAIN batch[v] : batch'[v][i] = batch[v][j]
    BY <1>k
  <2>3. batch[v][j].event \in stored /\ batch[v][j].event \in Events
    BY DEF ClaimIsFresh, TypeOK
  <2> QED  BY <1>k, <2>2, <2>3 DEF ClaimIsFresh, Held
<1>m. ASSUME NEW w \in Workers, place[w] # "idle", NextEvent(w) \/ DropBatch(w)
      PROVE  Kept(v)
  BY <1>m, BatchMoves
<1>u. ASSUME UNCHANGED <<batch, attempts, lockedBy>>,
             stored \subseteq stored', published \subseteq published'
      PROVE  Fresh(v)'
  BY <1>k, <1>u
<1>1. ASSUME NEW e \in Events, Enqueue(e) PROVE Fresh(v)'
  BY <1>u, <1>1 DEF Enqueue
<1>2. ASSUME NEW w \in Workers, NEW skipped \in SUBSET Events, Claim(w, skipped)
      PROVE  Fresh(v)'
  <2>1. PICK b \in Batches(Ready(skipped)) : Claim(w, skipped)!2!(b)
    BY <1>2 DEF Claim
  <2> DEFINE c == [i \in DOMAIN b |-> [event |-> b[i], attempt |-> attempts[b[i]]]]
  <2>2. UNCHANGED <<stored, published, attempts>>
    BY <1>2 DEF Claim
  <2>3. CASE v # w
    <3>1. batch'[v] = batch[v]
      BY <2>1, <2>3 DEF TypeOK
    <3>2. \A e \in Events : lockedBy'[e] = v => lockedBy[e] = v
      BY <2>1, <2>3
    <3> QED  BY <1>k, <2>2, <3>1, <3>2
  <2>4. CASE v = w /\ batch'[v] = c
    <3>1. /\ DOMAIN c = DOMAIN b
          /\ \A i \in DOMAIN c : c[i].event = b[i] /\ c[i].attempt = attempts[b[i]]
      BY ClaimedBatch
    <3>2. \A i \in DOMAIN b : b[i] \in stored
      BY DEF Batches, Ready
    <3> QED  BY <2>2, <2>4, <3>1, <3>2
  <2>5. CASE v = w /\ batch' = batch
    <3>1. batch[v] = <<>>
      BY <1>2, <2>5 DEF Claim, PhasesDone
    <3> QED  BY <2>5, <3>1
  <2> QED  BY <2>1, <2>3, <2>4, <2>5 DEF TypeOK
<1>3. ASSUME NEW w \in Workers, Effect(w) \/ EffectFails(w) PROVE Fresh(v)'
  BY <1>u, <1>3 DEF Effect, EffectFails
<1>4. ASSUME NEW w \in Workers, Publish(w) PROVE Fresh(v)'
  <2>1. place[w] # "idle" /\ UNCHANGED <<stored, attempts>>
    BY <1>4 DEF Publish
  <2>2. published \subseteq published'
    BY <1>4 DEF Publish, SetPublished
  <2>3. \A e \in Events : lockedBy'[e] = v => lockedBy[e] = v
    BY <1>n, <1>4 DEF Publish, SetPublished, TypeOK
  <2>4. NextEvent(w) \/ batch' = batch
    BY <1>4 DEF Publish
  <2>5. Kept(v)
    BY <1>m, <2>1, <2>4
  <2> QED  BY <1>k, <2>1, <2>2, <2>3, <2>5
<1>5. ASSUME NEW w \in Workers, RecordFailure(w) PROVE Fresh(v)'
  <2>1. /\ place[w] # "idle" /\ (NextEvent(w) \/ DropBatch(w))
        /\ UNCHANGED <<stored, published>>
    BY <1>5 DEF RecordFailure
  <2>2. \A e \in Events : lockedBy'[e] = v =>
          lockedBy[e] = v /\ attempts'[e] = attempts[e]
    <3>1. ASSUME NEW count, SetFailed(w, count), NEW e \in Events, lockedBy'[e] = v
          PROVE  lockedBy[e] = v /\ attempts'[e] = attempts[e]
      BY <1>n, <3>1 DEF SetFailed, TypeOK
    <3>2. CASE UNCHANGED <<attempts, lockedBy>>
      BY <3>2
    <3>3. UNCHANGED <<attempts, lockedBy>> \/ \E count : SetFailed(w, count)
      BY <1>5 DEF RecordFailure
    <3> QED  BY <3>1, <3>2, <3>3
  <2>3. Kept(v)
    BY <1>m, <2>1
  <2> QED  BY <1>k, <2>1, <2>2, <2>3
<1>6. ASSUME NEW w \in Workers, Crash(w) PROVE Fresh(v)'
  <2>1. Kept(v)
    BY <1>6, <1>m DEF Crash
  <2>2. \A e \in Events : lockedBy'[e] = v => lockedBy[e] = v
    BY <1>n, <1>6 DEF Crash
  <2> QED  BY <1>k, <1>6, <2>1, <2>2 DEF Crash
<1>7. CASE Tick
  BY <1>u, <1>7 DEF Tick
<1>8. CASE UNCHANGED vars
  BY <1>u, <1>8 DEF vars
<1> QED
  BY <1>1, <1>2, <1>3, <1>4, <1>5, <1>6, <1>7, <1>8 DEF Next, Worker

\* A report belongs to the step that counts the attempt to be reported.
LEMMA ReportsStep ==
  ASSUME TypeOK, PhasesDone, ClaimIsFresh, ReportsCounted, [Next]_vars
  PROVE  ReportsCounted'
<1> USE DEF rows, workers
<1>1. ReportAt \in Nat /\ MaxAttempts \in Nat /\ ReportAt < MaxAttempts
  BY OutboxAssumption DEF OutboxAssumption
<1>2. CASE UNCHANGED <<attempts, reports>>
  BY <1>2 DEF ReportsCounted
<1>3. ASSUME NEW w \in Workers, RecordFailure(w) PROVE ReportsCounted'
  <2> DEFINE e == Current(w)
             count == IF Attempt(w) < MaxAttempts THEN Attempt(w) + 1 ELSE MaxAttempts
  <2>1. /\ e \in Events /\ Attempt(w) \in 0..MaxAttempts
        /\ 1 \in DOMAIN batch[w] /\ Head(batch[w]) = batch[w][1]
    BY <1>3, ClaimedEvent DEF RecordFailure
  <2>2. Held(w, e) => Attempt(w) = attempts[e]
    BY <2>1 DEF ClaimIsFresh, Attempt, Current
  <2>3. CASE SetFailed(w, count)
    <3>1. Attempt(w) = attempts[e] /\ attempts' = [attempts EXCEPT ![e] = count]
      BY <2>2, <2>3 DEF SetFailed
    <3>2. \/ reports' = reports
          \/ count = ReportAt /\ reports' = [reports EXCEPT ![e] = @ + 1]
      BY <1>3, <2>1 DEF RecordFailure, TypeOK
    <3>3. attempts[e] \in 0..MaxAttempts /\ count >= attempts[e]
          /\ (count = ReportAt => attempts[e] < ReportAt)
      BY <1>1, <2>1, <3>1
    <3>4. SUFFICES ASSUME NEW f \in Events
                   PROVE  reports'[f] = 0 \/ (reports'[f] = 1 /\ attempts'[f] >= ReportAt)
      BY DEF ReportsCounted
    <3>5. CASE f # e
      BY <2>1, <3>1, <3>2, <3>5 DEF ReportsCounted, TypeOK
    <3>6. CASE f = e /\ reports' = reports
      BY <1>1, <2>1, <3>1, <3>3, <3>6 DEF ReportsCounted, TypeOK
    <3>7. CASE f = e /\ count = ReportAt /\ reports' = [reports EXCEPT ![e] = @ + 1]
      <4>1. reports[e] = 0
        BY <1>1, <2>1, <3>3, <3>7 DEF ReportsCounted, TypeOK
      <4>2. reports'[e] = reports[e] + 1
        BY <2>1, <3>7 DEF TypeOK
      <4>3. attempts'[e] = count
        BY <2>1, <3>1 DEF TypeOK
      <4> HIDE DEF count
      <4> QED  BY <1>1, <3>7, <4>1, <4>2, <4>3
    <3> QED  BY <3>2, <3>5, <3>6, <3>7
  <2>4. CASE ~SetFailed(w, count)
    BY <1>2, <1>3, <2>4 DEF RecordFailure
  <2> QED  BY <2>3, <2>4
<1> QED
  BY <1>2, <1>3 DEF Next, Worker, vars, Enqueue, Claim, Effect, EffectFails,
     Publish, Crash, Tick

\* The empty outbox satisfies the inductive invariant.
LEMMA InductiveInit == Init => Inductive
<1> SUFFICES ASSUME Init PROVE Inductive
  OBVIOUS
<1> USE DEF Init
<1>1. TypeOK
  BY OutboxAssumption DEF TypeOK, OutboxAssumption
<1>2. PhasesDone /\ PublishedIsPurged /\ ReportsCounted
  BY DEF PhasesDone, PublishedIsPurged, ReportsCounted
<1>3. ClaimIsFresh
  BY DEF ClaimIsFresh
<1> QED  BY <1>1, <1>2, <1>3 DEF Inductive

\* Every step of the API, a worker or the clock preserves it.
LEMMA InductiveStep == Inductive /\ [Next]_vars => Inductive'
<1> SUFFICES ASSUME Inductive, [Next]_vars PROVE Inductive'
  OBVIOUS
<1> QED
  BY TypeStep, PhasesStep, PurgedStep, FreshStep, ReportsStep DEF Inductive

\* Every reachable state of the outbox satisfies the inductive invariant.
THEOREM InductiveInvariant == Spec => []Inductive
  BY InductiveInit, InductiveStep, PTL DEF Spec

\* Type correctness of the rows and of the workers' memory.
THEOREM TypeCorrect == Spec => []TypeOK
<1>1. Inductive => TypeOK
  BY DEF Inductive
<1> QED  BY <1>1, InductiveInvariant, PTL

\* published_at is set only after the whole effect, whichever worker sets it
\* and however many worked on the event.
THEOREM PublishedEventsArePurged == Spec => []PublishedIsPurged
<1>1. Inductive => PublishedIsPurged
  BY DEF Inductive
<1> QED  BY <1>1, InductiveInvariant, PTL

\* However the claims go, a failing event is reported at most once.
THEOREM EventsAreReportedOnce == Spec => []ReportedOnce
<1>1. Inductive => ReportedOnce
  BY DEF Inductive, ReportsCounted, ReportedOnce
<1> QED  BY <1>1, InductiveInvariant, PTL

\* attempt_count never goes back, skips a value or changes after publication.
THEOREM CountsGoUp == Spec => AttemptsCountUp
<1> DEFINE Step ==
      \A e \in Events :
        /\ attempts'[e] \in {attempts[e], attempts[e] + 1}
        /\ e \in published => e \in published' /\ attempts'[e] = attempts[e]
<1>1. ASSUME Inductive, [Next]_vars PROVE Step
  <2>1. published \subseteq published'
    BY <1>1 DEF Next, Worker, vars, rows, workers, Enqueue, Claim, Effect,
       EffectFails, Publish, SetPublished, RecordFailure, Crash, Tick
  <2>2. CASE attempts' = attempts
    BY <2>1, <2>2
  <2>3. CASE attempts' # attempts
    <3>1. PICK w \in Workers :
            /\ Current(w) \in Events /\ Held(w, Current(w))
            /\ attempts' = [attempts EXCEPT ![Current(w)] = @ + 1]
      BY <1>1, <2>3, AttemptsStep DEF Inductive
    <3> QED  BY <1>1, <2>1, <3>1 DEF Inductive, TypeOK, Held
  <2> QED  BY <2>2, <2>3
<1>2. Inductive /\ [Next]_vars => [Step]_vars
  BY <1>1
<1> QED  BY <1>2, InductiveInvariant, PTL DEF Spec, AttemptsCountUp
=============================================================================
