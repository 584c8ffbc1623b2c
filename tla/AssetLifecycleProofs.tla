------------------------ MODULE AssetLifecycleProofs ------------------------
(***************************************************************************)
(* Theorems about AssetLifecycle, for every set of assets and consumers,   *)
(* every number of deliveries and of failed calls, and every delay of the  *)
(* purges that is no shorter than the life of an upload URL.               *)
(*                                                                         *)
(* The raw object is a matter of time: a purge that deletes finds every    *)
(* upload URL expired (PurgesAreLate), so what it has deleted stays        *)
(* deleted (RawIsAnsweredFor).  The normalised object is a matter of who   *)
(* answers for it: as long as nothing went wrong with the asset, a run, a  *)
(* result nobody has settled, a ready row or the asset's own purge does    *)
(* (NormalizedIsOwed), and what the consumer settles is known to have a    *)
(* row or none (ResultsFit).                                               *)
(***************************************************************************)
EXTENDS AssetLifecycle, TLAPS

Decided == {"ready", "rejected", "gone"}

\* A result is in the queue or with a consumer.
Sent(m) == m \in queue \/ \E c \in Consumers : result[c] = m

\* A purge has waited until no URL of its assets can be used.
PurgesAreLate ==
  /\ \A a \in Assets :
       purge[a] # "none" => row[a] = "gone" /\ age[a] + wait[a] >= PurgeDelay
  /\ \A p \in Scopes, a \in Assets :
       purge[p] # "none" /\ row[a] # "none" => age[a] + wait[p] >= PurgeDelay
  /\ \A p \in Purges : purge[p] \in {"deleting", "done"} => wait[p] = 0

\* A raw object that a purge has gone past does not exist.
RawIsAnsweredFor ==
  /\ \A a \in Assets :
       /\ purge[a] = "deleting" => Raw(a) \in todo[a] \/ Raw(a) \notin objects
       /\ purge[a] = "done" => Raw(a) \notin objects
       /\ row[a] = "gone" /\ purge[a] = "none" =>
            Raw(a) \notin objects /\ age[a] = PurgeDelay
  /\ \A p \in Scopes, a \in Assets :
       purge[p] = "deleting" /\ Stored(a) =>
         Raw(a) \in todo[p] \/ Raw(a) \notin objects
  /\ \A a \in Assets : purge[a] = "deleting" => todo[a] \subseteq {Raw(a), Normalized(a)}

\* A result comes from a run that is past its put, and reports what the row and
\* the trouble of its asset agree with.
ResultsFit ==
  /\ \A a \in uploaded : row[a] # "none"
  /\ \A a \in Assets, d \in Deliveries : run[<<a, d>>] # "idle" => row[a] # "none"
  /\ \A m \in Results :
       Sent(m) => /\ run[<<m.asset, m.delivery>>] \in {"rejecting", "ended"}
                  /\ m.status = "rejected" => "rejected" \in trouble[m.asset]
  /\ \A a \in Assets : row[a] = "rejected" => "rejected" \in trouble[a]
  /\ \A c \in Consumers :
       /\ place[c] \in {"checking", "removing", "ack"} => row[result[c].asset] \in Decided
       /\ place[c] = "removing" =>
            result[c].status = "ready" /\ row[result[c].asset] = "gone"

\* Somebody has seen the normalised object of an asset stored, and reported it.
Reported(a) ==
  \/ row[a] = "ready"
  \/ \E d \in Deliveries : run[<<a, d>>] = "put"
  \/ \E m \in Results : Sent(m) /\ m.asset = a /\ m.status = "ready"

ScopeIsDue == \E p \in Scopes : purge[p] # "none" /\ wait[p] = 0

\* What was reported is stored, until a deletion takes it away.
ReportedIsStored ==
  \A a \in Assets :
    Reported(a) => Normalized(a) \in objects \/ row[a] = "gone" \/ ScopeIsDue

\* Who answers for a normalised object: a run that has not reported, a result
\* nobody has settled, a row no purge has passed, the asset's own purge.
OwedByRun(a) == \E d \in Deliveries : run[<<a, d>>] \in {"put", "rejecting"}
OwedByResult(a) ==
  \E m \in queue : /\ m.asset = a /\ m.status = "ready"
                   /\ \A c \in Consumers : place[c] = "ack" => result[c] # m
OwedByRow(a) ==
  row[a] = "ready" /\ \A p \in Scopes : purge[p] = "deleting" => Normalized(a) \in todo[p]
OwedByPurge(a) ==
  purge[a] = "waiting" \/ (purge[a] = "deleting" /\ Normalized(a) \in todo[a])

NormalizedIsOwed ==
  \A a \in Assets :
    Normalized(a) \in objects /\ trouble[a] = {} =>
      OwedByRun(a) \/ OwedByResult(a) \/ OwedByRow(a) \/ OwedByPurge(a)

Inv ==
  /\ TypeOK /\ PurgesAreLate /\ RawIsAnsweredFor
  /\ ResultsFit /\ ReportedIsStored /\ NormalizedIsOwed

-----------------------------------------------------------------------------
LEMMA ObjectFacts ==
  ASSUME NEW a \in Assets
  PROVE  /\ Raw(a) \in Objects /\ Normalized(a) \in Objects
         /\ Raw(a) # Normalized(a)
         /\ \A b \in Assets :
              /\ Raw(a) # Normalized(b) /\ Normalized(a) # Raw(b)
              /\ Raw(a) = Raw(b) => a = b
              /\ Normalized(a) = Normalized(b) => a = b
  BY DEF Raw, Normalized, Objects

LEMMA ResultFacts ==
  /\ \A m \in Results : /\ m.asset \in Assets /\ m.delivery \in Deliveries
                        /\ m.status \in {"ready", "rejected"}
  /\ \A a \in Assets, d \in Deliveries, s \in {"ready", "rejected"} :
       [asset |-> a, delivery |-> d, status |-> s] \in Results
  /\ NoResult \notin Results
  BY ScopesAssumption DEF Results

\* A consumer that works has a result, of an asset.
LEMMA Working ==
  ASSUME TypeOK, NEW c \in Consumers, place[c] # "idle"
  PROVE  /\ result[c] \in Results /\ result[c].asset \in Assets
         /\ result[c].status \in {"ready", "rejected"} /\ Sent(result[c])
<1>1. result[c] \in Results
  BY DEF TypeOK
<1> QED  BY <1>1, ResultFacts DEF Sent

\* A purge begins with both objects of its asset, or, for a scope, with the raw
\* object of every stored row and the normalised one of every ready row.
LEMMA SnapshotFacts ==
  ASSUME NEW p \in Purges
  PROVE  /\ Snapshot(p) \subseteq Objects
         /\ p \in Assets => Snapshot(p) = {Raw(p), Normalized(p)}
         /\ p \in Scopes => \A a \in Assets :
              /\ Stored(a) => Raw(a) \in Snapshot(p)
              /\ row[a] = "ready" => Normalized(a) \in Snapshot(p)
<1>1. CASE p \in Assets
  <2>1. Snapshot(p) = {Raw(p), Normalized(p)}
    BY <1>1, ScopesAssumption DEF Snapshot, Scopes
  <2> QED  BY <1>1, <2>1, ObjectFacts, ScopesAssumption
<1>2. CASE p \notin Assets /\ p = "conversation"
  <2>1. Snapshot(p) = {Raw(a) : a \in {b \in Assets : Stored(b)}} \cup
                      {Normalized(a) : a \in {b \in Assets : row[b] = "ready"}}
    BY <1>2 DEF Snapshot
  <2>2. Snapshot(p) \subseteq Objects
    BY <2>1, ObjectFacts
  <2>3. \A a \in Assets : Stored(a) => Raw(a) \in Snapshot(p)
    BY <2>1
  <2>4. \A a \in Assets : row[a] = "ready" => Normalized(a) \in Snapshot(p)
    BY <2>1
  <2> QED  BY <1>2, <2>2, <2>3, <2>4
<1>3. CASE p \notin Assets /\ p # "conversation"
  <2>1. Snapshot(p) = Objects
    BY <1>3 DEF Snapshot
  <2> QED  BY <1>3, <2>1, ObjectFacts
<1> QED  BY <1>1, <1>2, <1>3

LEMMA StepFacts ==
  ASSUME TypeOK, NEW c \in Consumers, place[c] # "idle",
         NEW to \in {"idle", "received", "checking", "removing", "ack"}, Step(c, to)
  PROVE  /\ place' \in [Consumers -> {"idle", "received", "checking", "removing", "ack"}]
         /\ result' \in [Consumers -> Results \cup {NoResult}]
         /\ \A k \in Consumers : place'[k] = "idle" <=> result'[k] = NoResult
         /\ place'[c] = to /\ result'[c] \in {result[c], NoResult}
         /\ to # "idle" => result'[c] = result[c]
         /\ \A k \in Consumers \ {c} : place'[k] = place[k] /\ result'[k] = result[k]
  BY DEF Step, TypeOK

\* Every step keeps every variable within its type.
LEMMA TypeStep ==
  ASSUME TypeOK, [Next]_vars
  PROVE  TypeOK'
<1> USE DEF TypeOK, processor, consumer, outbox
<1>0. Fault => faults' \in 0..MaxFaults
  BY AssetAssumption DEF Fault, AssetAssumption
<1>p. PurgeDelay \in Nat /\ \A a \in Assets : a \in Purges /\ AssetDelay(a) \in 0..PurgeDelay
  BY AssetAssumption DEF AssetAssumption, Purges, AssetDelay
<1>1. ASSUME NEW a \in Assets, Create(a) \/ Upload(a) PROVE TypeOK'
  BY <1>1, ObjectFacts DEF Create, Upload
<1>2. ASSUME NEW a \in Assets, DeleteAsset(a) PROVE TypeOK'
  BY <1>2, <1>p DEF DeleteAsset, Enqueue
<1>3. ASSUME NEW a \in Assets, NEW d \in Deliveries, Deliver(a, d) \/ GetRawObject(a, d)
      PROVE  TypeOK'
  BY <1>3, ZenonT(40) DEF Deliver, GetRawObject, Go
<1>4. ASSUME NEW a \in Assets, NEW d \in Deliveries, PutNormalizedObject(a, d)
      PROVE  TypeOK'
  BY <1>4, ObjectFacts DEF PutNormalizedObject, Go
<1>5. ASSUME NEW a \in Assets, NEW d \in Deliveries, SendReady(a, d) \/ SendRejected(a, d)
      PROVE  TypeOK'
  <2>1. queue' \subseteq Results
    <3>1. \E t \in {"ready", "rejected"} :
            queue' = queue \cup {[asset |-> a, delivery |-> d, status |-> t]}
      BY <1>5 DEF SendReady, SendRejected, Send
    <3>2. PICK t \in {"ready", "rejected"} :
            queue' = queue \cup {[asset |-> a, delivery |-> d, status |-> t]}
      BY <3>1
    <3>3. [asset |-> a, delivery |-> d, status |-> t] \in Results
      BY ResultFacts
    <3> QED  BY <3>2, <3>3
  <2>2. run' = [run EXCEPT ![<<a, d>>] = "ended"]
    BY <1>5 DEF SendReady, SendRejected, Go
  <2>3. trouble' \in [Assets -> SUBSET {"rejected", "died", "raced"}]
    BY <1>5 DEF SendReady, SendRejected, Note
  <2> QED  BY <1>5, <2>1, <2>2, <2>3 DEF SendReady, SendRejected
<1>6. ASSUME NEW a \in Assets, NEW d \in Deliveries, ProcessorCatches(a, d)
      PROVE  TypeOK'
  <2>1. objects' \subseteq Objects /\ queue' \subseteq Results
    BY <1>6, ResultFacts, ObjectFacts, ZenonT(40) DEF ProcessorCatches, Send
  <2>2. run' = [run EXCEPT ![<<a, d>>] = "rejecting"] /\ faults' \in 0..MaxFaults
    BY <1>6, <1>0 DEF ProcessorCatches, Go
  <2> QED  BY <1>6, <2>1, <2>2 DEF ProcessorCatches
<1>7. ASSUME NEW a \in Assets, NEW d \in Deliveries, ProcessorDies(a, d)
      PROVE  TypeOK'
  BY <1>7, <1>0 DEF ProcessorDies, Go, Note
<1>8. ASSUME NEW c \in Consumers, Receive(c) PROVE TypeOK'
  BY <1>8, ResultFacts DEF Receive
<1>9. ASSUME NEW c \in Consumers, Consumer(c) \/ ConsumerFails(c) PROVE TypeOK'
  <2> DEFINE a == result[c].asset
  <2>0. place[c] # "idle" /\ a \in Assets /\ result[c].status \in {"ready", "rejected"}
    <3>1. place[c] # "idle"
      BY <1>9 DEF Consumer, Update, CheckExisting, RemoveOrphan, Acknowledge, ConsumerFails
    <3> QED  BY <3>1, Working
  <2>1. /\ place' \in [Consumers -> {"idle", "received", "checking", "removing", "ack"}]
        /\ result' \in [Consumers -> Results \cup {NoResult}]
        /\ \A k \in Consumers : place'[k] = "idle" <=> result'[k] = NoResult
    <3>1. \E to \in {"idle", "received", "checking", "removing", "ack"} : Step(c, to)
      BY <1>9 DEF Consumer, Update, CheckExisting, RemoveOrphan, Acknowledge, ConsumerFails
    <3> QED  BY <3>1, <2>0, StepFacts
  <2>2. trouble' \in [Assets -> SUBSET {"rejected", "died", "raced"}]
    <3>1. UNCHANGED trouble \/ Note(a, "raced")
      BY <1>9 DEF Consumer, Update, CheckExisting, RemoveOrphan, Acknowledge, ConsumerFails,
         NoteRace
    <3> QED  BY <3>1, <2>0 DEF Note
  <2>3. row' \in [Assets -> {"none", "pending_upload", "ready", "rejected", "gone"}]
    BY <1>9, <2>0 DEF Consumer, Update, CheckExisting, RemoveOrphan, Acknowledge,
       ConsumerFails
  <2>4. objects' \subseteq Objects /\ queue' \subseteq Results /\ faults' \in 0..MaxFaults
    BY <1>9, <1>0 DEF Consumer, Update, CheckExisting, RemoveOrphan, Acknowledge,
       ConsumerFails
  <2>5. UNCHANGED <<age, uploaded, run, purge, todo, wait>>
    BY <1>9 DEF Consumer, Update, CheckExisting, RemoveOrphan, Acknowledge, ConsumerFails
  <2> QED  BY <2>1, <2>2, <2>3, <2>4, <2>5
<1>10. ASSUME NEW p \in Purges, BeginPurge(p) PROVE TypeOK'
  BY <1>10, SnapshotFacts DEF BeginPurge
<1>11. ASSUME NEW p \in Purges, EndPurge(p) \/ PurgeFails(p) PROVE TypeOK'
  BY <1>11, <1>0 DEF EndPurge, PurgeFails
<1>12. ASSUME NEW p \in Purges, NEW o \in Objects, DeleteObject(p, o) PROVE TypeOK'
  BY <1>12 DEF DeleteObject
<1>13. ASSUME NEW p \in Scopes, DeleteScope(p) PROVE TypeOK'
  BY <1>13, <1>p DEF DeleteScope, Enqueue, Purges
<1>14. CASE Tick
  BY <1>14, <1>p DEF Tick
<1>15. CASE UNCHANGED vars
  BY <1>15 DEF vars
<1> QED
  BY <1>1, <1>2, <1>3, <1>4, <1>5, <1>6, <1>7, <1>8, <1>9, <1>10, <1>11, <1>12, <1>13,
     <1>14, <1>15 DEF Next, Processor, Purger

-----------------------------------------------------------------------------
\* What the steps of a run and of a consumer leave alone.
LEMMA ProcessorFrame ==
  ASSUME NEW a \in Assets, NEW d \in Deliveries,
         \/ Deliver(a, d) \/ Processor(a, d)
         \/ ProcessorCatches(a, d) \/ ProcessorDies(a, d)
  PROVE  UNCHANGED <<row, age, uploaded, place, result, purge, todo, wait>>
  BY DEF Deliver, Processor, GetRawObject, PutNormalizedObject, SendReady, SendRejected,
     ProcessorCatches, ProcessorDies, consumer, outbox

LEMMA ConsumerFrame ==
  ASSUME NEW c \in Consumers, Receive(c) \/ Consumer(c) \/ ConsumerFails(c)
  PROVE  UNCHANGED <<age, uploaded, run, purge, todo, wait>>
  BY DEF Receive, Consumer, Update, CheckExisting, RemoveOrphan, Acknowledge, ConsumerFails,
     processor, outbox

\* The only step of a consumer that changes a row decides a pending one.
LEMMA ConsumerRow ==
  ASSUME TypeOK, NEW c \in Consumers, Receive(c) \/ Consumer(c) \/ ConsumerFails(c)
  PROVE  \/ UNCHANGED row
         \/ /\ Update(c) /\ place[c] = "received" /\ result[c].asset \in Assets
            /\ row[result[c].asset] = "pending_upload"
            /\ result[c].status \in {"ready", "rejected"}
            /\ row' = [row EXCEPT ![result[c].asset] = result[c].status]
<1>1. CASE Update(c) /\ row[result[c].asset] = "pending_upload"
  BY <1>1, Working DEF Update
<1>2. CASE ~(Update(c) /\ row[result[c].asset] = "pending_upload")
  BY <1>2 DEF Receive, Consumer, Update, CheckExisting, RemoveOrphan, Acknowledge,
     ConsumerFails
<1> QED  BY <1>1, <1>2

\* A consumer sends nothing: it passes on or acknowledges what was sent.
LEMMA ConsumerSends ==
  ASSUME TypeOK, NEW c \in Consumers, Receive(c) \/ Consumer(c) \/ ConsumerFails(c)
  PROVE  queue' \subseteq queue /\ \A m \in Results : Sent(m)' => Sent(m)
<1>1. queue' \subseteq queue
  BY DEF Receive, Consumer, Update, CheckExisting, RemoveOrphan, Acknowledge, ConsumerFails
<1>2. \A k \in Consumers :
        result'[k] \in queue \/ result'[k] = NoResult \/ result'[k] = result[k]
  BY DEF Receive, Consumer, Update, CheckExisting, RemoveOrphan, Acknowledge, ConsumerFails,
     Step, TypeOK
<1>3. ASSUME NEW m \in Results, Sent(m)' PROVE Sent(m)
  BY <1>1, <1>2, <1>3, ResultFacts DEF Sent
<1> QED  BY <1>1, <1>3

LEMMA PurgeKinds ==
  /\ \A a \in Assets : a \in Purges /\ a \notin Scopes
  /\ \A p \in Scopes : p \in Purges /\ p \notin Assets
  /\ \A p \in Purges : p \in Assets \/ p \in Scopes
  BY ScopesAssumption DEF Purges

LEMMA Delays == UrlLife \in Nat /\ PurgeDelay \in Nat /\ UrlLife <= PurgeDelay
  BY AssetAssumption DEF AssetAssumption

\* No step makes a purge due before the URLs of its assets are past.
LEMMA LateStep ==
  ASSUME TypeOK, PurgesAreLate, [Next]_vars
  PROVE  PurgesAreLate'
<1> USE Delays, PurgeKinds DEF TypeOK, PurgesAreLate
<1>1. CASE UNCHANGED <<row, age, purge, wait>>
  BY <1>1
<1>2. ASSUME NEW a \in Assets, Create(a) PROVE PurgesAreLate'
  BY <1>2 DEF Create, outbox
<1>3. ASSUME NEW a \in Assets, DeleteAsset(a) PROVE PurgesAreLate'
  <2>1. /\ row' = [row EXCEPT ![a] = "gone"] /\ age' = age
        /\ purge' = [purge EXCEPT ![a] = "waiting"]
        /\ wait' = [wait EXCEPT ![a] = PurgeDelay - age[a]] /\ row[a] # "none"
    BY <1>3 DEF DeleteAsset, Enqueue, AssetDelay, Stored
  <2> QED  BY <2>1
<1>4. ASSUME NEW p \in Scopes, DeleteScope(p) PROVE PurgesAreLate'
  BY <1>4 DEF DeleteScope, Enqueue
<1>5. ASSUME NEW c \in Consumers, Receive(c) \/ Consumer(c) \/ ConsumerFails(c)
      PROVE  PurgesAreLate'
  BY <1>1, <1>5, ConsumerFrame, ConsumerRow
<1>6. ASSUME NEW p \in Purges, BeginPurge(p) \/ PurgeFails(p) PROVE PurgesAreLate'
  BY <1>6 DEF BeginPurge, PurgeFails
<1>7. ASSUME NEW p \in Purges, EndPurge(p) PROVE PurgesAreLate'
  BY <1>7 DEF EndPurge
<1>8. CASE Tick
  BY <1>8 DEF Tick, outbox
<1>9. ASSUME NEW a \in Assets, Upload(a) PROVE PurgesAreLate'
  BY <1>1, <1>9 DEF Upload, outbox
<1>10. ASSUME NEW p \in Purges, NEW o \in Objects, DeleteObject(p, o) PROVE PurgesAreLate'
  BY <1>1, <1>10 DEF DeleteObject
<1>11. CASE UNCHANGED vars
  BY <1>1, <1>11 DEF vars
<1> QED
  BY <1>1, <1>2, <1>3, <1>4, <1>5, <1>6, <1>7, <1>8, <1>9, <1>10, <1>11, ProcessorFrame
     DEF Next, Purger

\* A late purge finds no upload URL that can still be used.
LEMMA NoLateUpload ==
  ASSUME TypeOK, PurgesAreLate, NEW a \in Assets, age[a] < UrlLife
  PROVE  /\ purge[a] \notin {"deleting", "done"}
         /\ \A p \in Scopes : row[a] # "none" => purge[p] \notin {"deleting", "done"}
  BY Delays, PurgeKinds DEF TypeOK, PurgesAreLate

\* No step brings a raw object back that a purge has gone past.
LEMMA RawStep ==
  ASSUME TypeOK, PurgesAreLate, RawIsAnsweredFor, [Next]_vars
  PROVE  RawIsAnsweredFor'
<1> USE Delays, PurgeKinds, ObjectFacts DEF TypeOK, RawIsAnsweredFor, Stored
<1>1. ASSUME UNCHANGED <<row, age, purge, todo>>,
             \A a \in Assets : Raw(a) \in objects' => Raw(a) \in objects
      PROVE  RawIsAnsweredFor'
  BY <1>1
<1>2. ASSUME NEW a \in Assets, Create(a) PROVE RawIsAnsweredFor'
  BY <1>2 DEF Create, outbox
<1>3. ASSUME NEW a \in Assets, Upload(a) PROVE RawIsAnsweredFor'
  BY <1>3, NoLateUpload DEF Upload, outbox
<1>4. ASSUME NEW a \in Assets, DeleteAsset(a) PROVE RawIsAnsweredFor'
  BY <1>4 DEF DeleteAsset, Enqueue
<1>5. ASSUME NEW p \in Scopes, DeleteScope(p) PROVE RawIsAnsweredFor'
  BY <1>5 DEF DeleteScope, Enqueue
<1>6. ASSUME NEW a \in Assets, NEW d \in Deliveries,
             \/ Deliver(a, d) \/ Processor(a, d)
             \/ ProcessorCatches(a, d) \/ ProcessorDies(a, d)
      PROVE  RawIsAnsweredFor'
  <2>1. objects' \in {objects, objects \cup {Normalized(a)}}
    BY <1>6 DEF Deliver, Processor, GetRawObject, PutNormalizedObject, SendReady,
       SendRejected, ProcessorCatches, ProcessorDies
  <2> QED  BY <1>1, <1>6, <2>1, ProcessorFrame
<1>7. ASSUME NEW c \in Consumers, Receive(c) \/ Consumer(c) \/ ConsumerFails(c)
      PROVE  RawIsAnsweredFor'
  <2>1. objects' \subseteq objects
    BY <1>7 DEF Receive, Consumer, Update, CheckExisting, RemoveOrphan, Acknowledge,
       ConsumerFails
  <2>2. UNCHANGED <<age, purge, todo>>
    BY <1>7, ConsumerFrame
  <2>3. \A a \in Assets : (row'[a] = "gone" <=> row[a] = "gone") /\ (Stored(a)' => Stored(a))
    BY <1>7, ConsumerRow
  <2> QED  BY <2>1, <2>2, <2>3
<1>8. ASSUME NEW p \in Purges, BeginPurge(p) PROVE RawIsAnsweredFor'
  BY <1>8, SnapshotFacts DEF BeginPurge
<1>9. ASSUME NEW p \in Purges, NEW o \in Objects, DeleteObject(p, o)
      PROVE  RawIsAnsweredFor'
  <2>1. /\ objects' = objects \ {o} /\ todo' = [todo EXCEPT ![p] = @ \ {o}]
        /\ UNCHANGED <<row, age, purge>>
    BY <1>9 DEF DeleteObject
  <2> QED  BY <2>1
<1>10. ASSUME NEW p \in Purges, EndPurge(p) PROVE RawIsAnsweredFor'
  <2>0. /\ purge[p] = "deleting" /\ todo[p] = {} /\ UNCHANGED <<age, objects, todo>>
        /\ purge' = [purge EXCEPT ![p] = "done"]
    BY <1>10 DEF EndPurge
  <2>1. CASE p \in Assets
    BY <1>10, <2>0, <2>1 DEF EndPurge
  <2>2. CASE p \in Scopes
    <3>1. row' = [a \in Assets |-> IF row[a] = "none" THEN "none" ELSE "gone"]
      BY <1>10, <2>2 DEF EndPurge
    <3>2. \A a \in Assets : row[a] # "none" => age[a] = PurgeDelay
      BY <2>0, <2>2 DEF PurgesAreLate
    <3> QED  BY <2>0, <2>2, <3>1, <3>2
  <2> QED  BY <2>1, <2>2
<1>11. ASSUME NEW p \in Purges, PurgeFails(p) PROVE RawIsAnsweredFor'
  BY <1>11 DEF PurgeFails
<1>12. CASE Tick
  BY <1>12 DEF Tick, outbox
<1>13. CASE UNCHANGED vars
  BY <1>1, <1>13 DEF vars
<1> QED
  BY <1>2, <1>3, <1>4, <1>5, <1>6, <1>7, <1>8, <1>9, <1>10, <1>11, <1>12, <1>13
     DEF Next, Purger

-----------------------------------------------------------------------------
\* What a step of a run does to the run, the queue, the objects and the trouble.
RunStep(a, d, to) ==
  /\ run' = [run EXCEPT ![<<a, d>>] = to]
  /\ run[<<a, d>>] = "idle" => to = "started" /\ a \in uploaded
  /\ run[<<a, d>>] = "rejecting" => to = "ended"
  /\ run[<<a, d>>] # "ended"
  /\ \/ UNCHANGED queue
     \/ /\ run[<<a, d>>] = "put" /\ to \in {"rejecting", "ended"}
        /\ queue' = queue \cup {[asset |-> a, delivery |-> d, status |-> "ready"]}
     \/ /\ "rejected" \in trouble'[a] /\ to = "ended"
        /\ queue' = queue \cup {[asset |-> a, delivery |-> d, status |-> "rejected"]}
  /\ \/ UNCHANGED trouble
     \/ \E t \in {"rejected", "died"} : trouble' = [trouble EXCEPT ![a] = @ \cup {t}]
  /\ run[<<a, d>>] \in {"put", "rejecting"} =>
       \/ to = "rejecting" \/ trouble'[a] # {}
       \/ /\ run[<<a, d>>] = "put"
          /\ queue' = queue \cup {[asset |-> a, delivery |-> d, status |-> "ready"]}
  /\ \/ UNCHANGED objects
     \/ objects' = objects \cup {Normalized(a)} /\ to \in {"put", "rejecting"}
  /\ to = "put" => Normalized(a) \in objects'

RunStates == {"started", "got", "put", "rejecting", "ended"}

LEMMA ProcessorSteps ==
  ASSUME TypeOK, NEW a \in Assets, NEW d \in Deliveries,
         \/ Deliver(a, d) \/ Processor(a, d)
         \/ ProcessorCatches(a, d) \/ ProcessorDies(a, d)
  PROVE  \E to \in RunStates : RunStep(a, d, to)
<1> USE DEF Go, Send, Note, RunStep, RunStates
<1>1. CASE Deliver(a, d)
  BY <1>1 DEF Deliver
<1>2. CASE GetRawObject(a, d)
  <2>1. PICK to \in {"got", "rejecting"} : run' = [run EXCEPT ![<<a, d>>] = to]
    BY <1>2 DEF GetRawObject
  <2> QED  BY <1>2, <2>1 DEF GetRawObject
<1>3. CASE PutNormalizedObject(a, d)
  BY <1>3 DEF PutNormalizedObject
<1>4. CASE SendReady(a, d)
  BY <1>4 DEF SendReady
<1>5. CASE SendRejected(a, d)
  <2>1. "rejected" \in trouble'[a]
    BY <1>5 DEF SendRejected, TypeOK
  <2> QED  BY <1>5, <2>1 DEF SendRejected
<1>6. CASE ProcessorCatches(a, d)
  BY <1>6 DEF ProcessorCatches
<1>7. CASE ProcessorDies(a, d)
  <2>1. "died" \in trouble'[a]
    BY <1>7 DEF ProcessorDies, TypeOK
  <2> QED  BY <1>7, <2>1 DEF ProcessorDies
<1> QED  BY <1>1, <1>2, <1>3, <1>4, <1>5, <1>6, <1>7 DEF Processor

\* A run that has not sent anything has no result.
LEMMA NothingSent ==
  ASSUME ResultsFit, NEW a \in Assets, NEW d \in Deliveries,
         run[<<a, d>>] \notin {"rejecting", "ended"}
  PROVE  \A m \in Results : Sent(m) => m.asset # a \/ m.delivery # d
  BY DEF ResultsFit

\* Trouble is never forgotten.
LEMMA TroubleStays ==
  ASSUME TypeOK, [Next]_vars
  PROVE  \A a \in Assets : trouble[a] \subseteq trouble'[a]
<1> USE DEF TypeOK
<1>1. ASSUME NEW a \in Assets, NEW d \in Deliveries,
             \/ Deliver(a, d) \/ Processor(a, d)
             \/ ProcessorCatches(a, d) \/ ProcessorDies(a, d)
      PROVE  \A b \in Assets : trouble[b] \subseteq trouble'[b]
  <2>1. \/ UNCHANGED trouble
        \/ \E t \in {"rejected", "died"} : trouble' = [trouble EXCEPT ![a] = @ \cup {t}]
    BY <1>1, ProcessorSteps DEF RunStep
  <2> QED  BY <2>1
<1>2. ASSUME NEW c \in Consumers, Receive(c) \/ Consumer(c) \/ ConsumerFails(c)
      PROVE  \A b \in Assets : trouble[b] \subseteq trouble'[b]
  <2>1. UNCHANGED trouble \/ Note(result[c].asset, "raced")
    BY <1>2 DEF Receive, Consumer, Update, CheckExisting, RemoveOrphan, Acknowledge,
       ConsumerFails, NoteRace
  <2> QED  BY <2>1 DEF Note
<1>3. ASSUME NEW a \in Assets, Create(a) \/ Upload(a) \/ DeleteAsset(a)
      PROVE  UNCHANGED trouble
  BY <1>3 DEF Create, Upload, DeleteAsset
<1>4. ASSUME NEW p \in Purges, Purger(p) \/ PurgeFails(p) PROVE UNCHANGED trouble
  BY <1>4 DEF Purger, BeginPurge, EndPurge, DeleteObject, PurgeFails
<1>5. ASSUME NEW p \in Scopes, DeleteScope(p) PROVE UNCHANGED trouble
  BY <1>5 DEF DeleteScope
<1> QED  BY <1>1, <1>2, <1>3, <1>4, <1>5 DEF Next, Tick, vars

\* No step lets a result, a row and the trouble of an asset disagree.
LEMMA FitStep ==
  ASSUME TypeOK, ResultsFit, [Next]_vars
  PROVE  ResultsFit'
<1> USE DEF TypeOK
<1>0. \A a \in Assets : trouble[a] \subseteq trouble'[a]
  BY TroubleStays
<1>1. ASSUME UNCHANGED <<run, queue, place, result>>,
             \A a \in uploaded' : row'[a] # "none",
             \A a \in Assets : /\ row[a] # "none" => row'[a] # "none"
                               /\ row'[a] = "rejected" => row[a] = "rejected"
                               /\ row[a] \in Decided => row'[a] \in Decided
                               /\ row[a] = "gone" => row'[a] = "gone"
      PROVE  ResultsFit'
  <2>1. \A m \in Results : Sent(m)' => Sent(m)
    BY <1>1 DEF Sent
  <2>2. \A c \in Consumers : place[c] # "idle" => result[c].asset \in Assets
    BY Working
  <2> QED  BY <1>0, <1>1, <2>1, <2>2, ResultFacts DEF ResultsFit
<1>2. ASSUME NEW a \in Assets, Create(a) \/ Upload(a) \/ DeleteAsset(a)
      PROVE  ResultsFit'
  BY <1>1, <1>2 DEF Create, Upload, DeleteAsset, Stored, processor, consumer, Decided, ResultsFit
<1>3. ASSUME NEW p \in Purges, Purger(p) \/ PurgeFails(p)
      PROVE  ResultsFit'
  <2>1. UNCHANGED <<run, queue, place, result, uploaded>>
    BY <1>3 DEF Purger, BeginPurge, EndPurge, DeleteObject, PurgeFails, processor, consumer
  <2>2. \/ UNCHANGED row
        \/ row' = [a \in Assets |-> IF row[a] = "none" THEN "none" ELSE "gone"]
    BY <1>3 DEF Purger, BeginPurge, EndPurge, DeleteObject, PurgeFails
  <2> QED  BY <1>1, <2>1, <2>2 DEF ResultsFit, Decided
<1>4. CASE UNCHANGED vars \/ Tick \/ \E p \in Scopes : DeleteScope(p)
  BY <1>1, <1>4 DEF vars, Tick, DeleteScope, processor, consumer, ResultsFit
<1>5. ASSUME NEW a \in Assets, NEW d \in Deliveries,
             \/ Deliver(a, d) \/ Processor(a, d)
             \/ ProcessorCatches(a, d) \/ ProcessorDies(a, d)
      PROVE  ResultsFit'
  <2>1. UNCHANGED <<row, uploaded, place, result>>
    BY <1>5, ProcessorFrame
  <2>2. PICK to \in RunStates : RunStep(a, d, to)
    BY <1>5, ProcessorSteps
  <2>3. row[a] # "none"
    BY <2>2 DEF ResultsFit, RunStep
  <2>4. \A b \in Assets, e \in Deliveries : run'[<<b, e>>] # "idle" => row'[b] # "none"
    <3> SUFFICES ASSUME NEW b \in Assets, NEW e \in Deliveries, run'[<<b, e>>] # "idle"
                 PROVE  row[b] # "none"
      BY <2>1
    <3> QED  BY <2>2, <2>3 DEF ResultsFit, RunStep
  <2>5. ASSUME NEW m \in Results, Sent(m)'
        PROVE  /\ run'[<<m.asset, m.delivery>>] \in {"rejecting", "ended"}
               /\ m.status = "rejected" => "rejected" \in trouble'[m.asset]
    <3>0. m.asset \in Assets /\ m.delivery \in Deliveries
      BY ResultFacts
    <3>1. CASE Sent(m)
      <4>1. /\ run[<<m.asset, m.delivery>>] \in {"rejecting", "ended"}
            /\ m.status = "rejected" => "rejected" \in trouble[m.asset]
        BY <3>1 DEF ResultsFit
      <4> QED  BY <1>0, <2>2, <3>0, <4>1 DEF RunStep, RunStates
    <3>2. CASE ~Sent(m)
      <4>1. m \in queue' /\ m \notin queue
        BY <2>1, <2>5, <3>2 DEF Sent
      <4>2. m.asset = a /\ m.delivery = d /\ to \in {"rejecting", "ended"}
            /\ (m.status = "rejected" => "rejected" \in trouble'[a])
        BY <2>2, <4>1 DEF RunStep
      <4> QED  BY <2>2, <4>2 DEF RunStep
    <3> QED  BY <3>1, <3>2
  <2> QED  BY <1>0, <2>1, <2>4, <2>5 DEF ResultsFit
<1>6. ASSUME NEW c \in Consumers, Receive(c) \/ Consumer(c) \/ ConsumerFails(c)
      PROVE  ResultsFit'
  <2>1. UNCHANGED <<uploaded, run>>
    BY <1>6, ConsumerFrame
  <2>2. \A m \in Results : Sent(m)' => Sent(m)
    BY <1>6, ConsumerSends
  <2>3. \A a \in Assets : /\ row[a] # "none" => row'[a] # "none"
                          /\ row[a] \in Decided => row'[a] = row[a]
                          /\ row'[a] = "rejected" => "rejected" \in trouble[a]
    <3>1. CASE UNCHANGED row
      BY <3>1 DEF ResultsFit
    <3>2. CASE ~UNCHANGED row
      <4>1. /\ place[c] = "received" /\ result[c].asset \in Assets
            /\ row[result[c].asset] = "pending_upload"
            /\ result[c].status \in {"ready", "rejected"}
            /\ row' = [row EXCEPT ![result[c].asset] = result[c].status]
        BY <1>6, <3>2, ConsumerRow
      <4>2. result[c] \in Results /\ Sent(result[c])
        BY <4>1, Working
      <4>3. result[c].status = "rejected" => "rejected" \in trouble[result[c].asset]
        BY <4>2 DEF ResultsFit
      <4> QED  BY <4>1, <4>3 DEF ResultsFit, Decided
    <3> QED  BY <3>1, <3>2
  <2>4. ASSUME NEW k \in Consumers
        PROVE  /\ place'[k] \in {"checking", "removing", "ack"} =>
                    row'[result'[k].asset] \in Decided
               /\ place'[k] = "removing" =>
                    result'[k].status = "ready" /\ row'[result'[k].asset] = "gone"
    <3> DEFINE a == result[k].asset
    <3>1. CASE k # c \/ ~Consumer(c)
      <4>1. place'[k] \in {"checking", "removing", "ack"} =>
              place'[k] = place[k] /\ result'[k] = result[k]
        BY <1>6, <3>1 DEF Consumer, Update, CheckExisting, RemoveOrphan, Acknowledge,
           Receive, ConsumerFails, Step
      <4>2. place[k] # "idle" => a \in Assets
        BY Working
      <4> QED  BY <2>3, <4>1, <4>2 DEF ResultsFit
    <3>2. CASE k = c /\ Consumer(c)
      <4>1. place[c] # "idle"
        BY <3>2 DEF Consumer, Update, CheckExisting, RemoveOrphan, Acknowledge
      <4>2. result[c] \in Results /\ a \in Assets /\ Sent(result[c])
        BY <3>2, <4>1, Working
      <4>3. row[a] # "none"
        <5>1. run[<<a, result[c].delivery>>] \in {"rejecting", "ended"}
          BY <3>2, <4>2 DEF ResultsFit
        <5> QED  BY <3>2, <4>2, <5>1, ResultFacts DEF ResultsFit
      <4>4. CASE Update(c)
        <5>1. place'[c] \in {"ack", "checking"} /\ result'[c] = result[c]
          BY <4>4 DEF Update, Step
        <5>2. row'[a] \in Decided
          BY <3>2, <4>2, <4>3, <4>4, ResultFacts DEF Update, Decided
        <5> QED  BY <3>2, <5>1, <5>2
      <4>5. CASE CheckExisting(c)
        <5>1. /\ place'[c] \in {"ack", "removing"} /\ result'[c] = result[c] /\ row' = row
              /\ row[a] \in Decided
              /\ place'[c] = "removing" => ~Stored(a) /\ result[c].status = "ready"
          BY <3>2, <4>5 DEF CheckExisting, Step, ResultsFit
        <5> QED  BY <3>2, <4>2, <4>3, <5>1 DEF Stored
      <4>6. CASE RemoveOrphan(c)
        <5>1. place'[c] = "ack" /\ result'[c] = result[c] /\ row' = row
              /\ row[a] \in Decided
          BY <3>2, <4>6 DEF RemoveOrphan, Step, ResultsFit
        <5> QED  BY <3>2, <5>1
      <4>7. CASE Acknowledge(c)
        BY <3>2, <4>7 DEF Acknowledge, Step
      <4> QED  BY <3>2, <4>4, <4>5, <4>6, <4>7 DEF Consumer
    <3> QED  BY <1>6, <3>1, <3>2
  <2>5. \A a \in uploaded' : row'[a] # "none"
    BY <2>1, <2>3 DEF ResultsFit
  <2>6. \A a \in Assets, d \in Deliveries : run'[<<a, d>>] # "idle" => row'[a] # "none"
    BY <2>1, <2>3 DEF ResultsFit
  <2>7. \A m \in Results :
          Sent(m)' => /\ run'[<<m.asset, m.delivery>>] \in {"rejecting", "ended"}
                      /\ m.status = "rejected" => "rejected" \in trouble'[m.asset]
    BY <1>0, <2>1, <2>2, ResultFacts DEF ResultsFit
  <2> QED  BY <1>0, <2>3, <2>4, <2>5, <2>6, <2>7 DEF ResultsFit
<1> QED  BY <1>2, <1>3, <1>4, <1>5, <1>6 DEF Next

-----------------------------------------------------------------------------
\* A deleted row stays deleted, and a scope that is due stays due.
LEMMA GoneStays ==
  ASSUME TypeOK, [Next]_vars
  PROVE  /\ \A a \in Assets : row[a] = "gone" => row'[a] = "gone"
         /\ ScopeIsDue => ScopeIsDue'
<1> USE PurgeKinds DEF TypeOK, ScopeIsDue
<1>1. CASE UNCHANGED <<row, purge, wait>>
  BY <1>1
<1>2. ASSUME NEW a \in Assets, Create(a) \/ DeleteAsset(a)
      PROVE  /\ \A b \in Assets : row[b] = "gone" => row'[b] = "gone"
             /\ ScopeIsDue => ScopeIsDue'
  BY <1>2 DEF Create, DeleteAsset, Enqueue, Stored, outbox
<1>3. ASSUME NEW p \in Purges, Purger(p) \/ PurgeFails(p)
      PROVE  /\ \A b \in Assets : row[b] = "gone" => row'[b] = "gone"
             /\ ScopeIsDue => ScopeIsDue'
  <2>1. /\ wait' = wait
        /\ purge' = purge \/ \E q \in {"deleting", "done", "waiting"} :
                                purge' = [purge EXCEPT ![p] = q]
        /\ \/ UNCHANGED row
           \/ row' = [a \in Assets |-> IF row[a] = "none" THEN "none" ELSE "gone"]
    BY <1>3 DEF Purger, BeginPurge, EndPurge, DeleteObject, PurgeFails
  <2> QED  BY <2>1
<1>4. ASSUME NEW p \in Scopes, DeleteScope(p)
      PROVE  /\ \A b \in Assets : row[b] = "gone" => row'[b] = "gone"
             /\ ScopeIsDue => ScopeIsDue'
  BY <1>4 DEF DeleteScope, Enqueue
<1>5. CASE Tick
  BY <1>5 DEF Tick, outbox
<1>6. ASSUME NEW c \in Consumers, Receive(c) \/ Consumer(c) \/ ConsumerFails(c)
      PROVE  /\ \A b \in Assets : row[b] = "gone" => row'[b] = "gone"
             /\ ScopeIsDue => ScopeIsDue'
  BY <1>6, ConsumerFrame, ConsumerRow
<1>7. ASSUME NEW a \in Assets, Upload(a) PROVE UNCHANGED <<row, purge, wait>>
  BY <1>7 DEF Upload, outbox
<1> QED
  BY <1>1, <1>2, <1>3, <1>4, <1>5, <1>6, <1>7, ProcessorFrame DEF Next, vars

\* Only a deletion removes a normalised object.
LEMMA NormalizedStays ==
  ASSUME TypeOK, PurgesAreLate, RawIsAnsweredFor, ResultsFit, [Next]_vars,
         NEW a \in Assets, Normalized(a) \in objects
  PROVE  Normalized(a) \in objects' \/ row[a] = "gone" \/ ScopeIsDue
<1>1. CASE objects \subseteq objects'
  BY <1>1
<1>2. ASSUME NEW p \in Purges, NEW o \in Objects, DeleteObject(p, o)
      PROVE  Normalized(a) \in objects' \/ row[a] = "gone" \/ ScopeIsDue
  <2>1. purge[p] = "deleting" /\ o \in todo[p] /\ objects' = objects \ {o}
    BY <1>2 DEF DeleteObject
  <2>2. CASE p \in Scopes
    BY <2>1, <2>2 DEF PurgesAreLate, ScopeIsDue
  <2>3. CASE p \in Assets
    BY <2>1, <2>3, ObjectFacts DEF PurgesAreLate, RawIsAnsweredFor
  <2> QED  BY <2>2, <2>3, PurgeKinds
<1>3. ASSUME NEW c \in Consumers, RemoveOrphan(c)
      PROVE  Normalized(a) \in objects' \/ row[a] = "gone" \/ ScopeIsDue
  <2>1. result[c].asset \in Assets /\ row[result[c].asset] = "gone"
        /\ objects' = objects \ {Normalized(result[c].asset)}
    BY <1>3, Working DEF RemoveOrphan, ResultsFit
  <2> QED  BY <2>1, ObjectFacts
<1> QED
  BY <1>1, <1>2, <1>3 DEF Next, Processor, Purger, Consumer, Tick, vars, Create, Upload, DeleteAsset,
     Deliver, GetRawObject, PutNormalizedObject, SendReady, SendRejected, ProcessorCatches,
     ProcessorDies, Receive, Update, CheckExisting, Acknowledge, ConsumerFails, DeleteScope,
     BeginPurge, EndPurge, PurgeFails

\* Whoever reports the object now either did so before or has just stored it.
LEMMA WhoReports ==
  ASSUME TypeOK, ResultsFit, [Next]_vars, NEW a \in Assets, Reported(a)'
  PROVE  Reported(a) \/ Normalized(a) \in objects'
<1> USE DEF TypeOK
<1>1. ASSUME row'[a] = "ready" => row[a] = "ready",
             UNCHANGED <<run, queue, result>>
      PROVE  Reported(a)
  BY <1>1 DEF Reported, Sent
<1>2. ASSUME NEW b \in Assets, Create(b) \/ Upload(b) \/ DeleteAsset(b)
      PROVE  Reported(a)
  BY <1>1, <1>2 DEF Create, Upload, DeleteAsset, Stored, processor, consumer
<1>3. ASSUME NEW p \in Purges, Purger(p) \/ PurgeFails(p)
      PROVE  Reported(a)
  BY <1>1, <1>3 DEF Purger, BeginPurge, EndPurge, DeleteObject, PurgeFails, processor, consumer
<1>4. CASE UNCHANGED vars \/ Tick \/ \E p \in Scopes : DeleteScope(p)
  BY <1>1, <1>4 DEF vars, Tick, DeleteScope, processor, consumer
<1>5. ASSUME NEW b \in Assets, NEW d \in Deliveries,
             \/ Deliver(b, d) \/ Processor(b, d)
             \/ ProcessorCatches(b, d) \/ ProcessorDies(b, d)
      PROVE  Reported(a) \/ Normalized(a) \in objects'
  <2>1. UNCHANGED <<row, result>>
    BY <1>5, ProcessorFrame
  <2>2. PICK to \in RunStates : RunStep(b, d, to)
    BY <1>5, ProcessorSteps
  <2>3. CASE row'[a] = "ready"
    BY <2>1, <2>3 DEF Reported
  <2>4. ASSUME NEW e \in Deliveries, run'[<<a, e>>] = "put"
        PROVE  Reported(a) \/ Normalized(a) \in objects'
    BY <2>2, <2>4 DEF Reported, RunStep
  <2>5. ASSUME NEW m \in Results, Sent(m)', m.asset = a, m.status = "ready"
        PROVE  Reported(a)
    <3>1. CASE Sent(m)
      BY <2>5, <3>1 DEF Reported
    <3>2. CASE ~Sent(m)
      <4>1. m \in queue' /\ m \notin queue
        BY <2>1, <2>5, <3>2 DEF Sent
      <4>2. m.asset = b /\ run[<<b, d>>] = "put"
        BY <2>2, <2>5, <4>1 DEF RunStep
      <4> QED  BY <2>5, <4>2 DEF Reported
    <3> QED  BY <3>1, <3>2
  <2> QED  BY <2>3, <2>4, <2>5 DEF Reported
<1>6. ASSUME NEW c \in Consumers, Receive(c) \/ Consumer(c) \/ ConsumerFails(c)
      PROVE  Reported(a)
  <2>1. UNCHANGED run
    BY <1>6, ConsumerFrame
  <2>2. \A m \in Results : Sent(m)' => Sent(m)
    BY <1>6, ConsumerSends
  <2>3. row'[a] = "ready" => Reported(a)
    <3>1. CASE UNCHANGED row
      BY <3>1 DEF Reported
    <3>2. CASE ~UNCHANGED row
      <4>1. /\ place[c] = "received"
            /\ row' = [row EXCEPT ![result[c].asset] = result[c].status]
        BY <1>6, <3>2, ConsumerRow
      <4>2. result[c] \in Results /\ Sent(result[c]) /\ result[c].asset \in Assets
        BY <4>1, Working
      <4> QED  BY <4>1, <4>2 DEF Reported
    <3> QED  BY <3>1, <3>2
  <2> QED  BY <2>1, <2>2, <2>3 DEF Reported
<1> QED  BY <1>2, <1>3, <1>4, <1>5, <1>6 DEF Next

LEMMA ReportedStep ==
  ASSUME TypeOK, PurgesAreLate, RawIsAnsweredFor, ResultsFit, ReportedIsStored, [Next]_vars
  PROVE  ReportedIsStored'
<1> SUFFICES ASSUME NEW a \in Assets, Reported(a)'
             PROVE  Normalized(a) \in objects' \/ row'[a] = "gone" \/ ScopeIsDue'
  BY DEF ReportedIsStored, Normalized
<1>1. Normalized(a) \in objects' \/ Reported(a)
  BY WhoReports
<1>2. CASE Reported(a)
  <2>1. Normalized(a) \in objects \/ row[a] = "gone" \/ ScopeIsDue
    BY <1>2 DEF ReportedIsStored
  <2> QED  BY <2>1, GoneStays, NormalizedStays
<1> QED  BY <1>1, <1>2

-----------------------------------------------------------------------------
Owed(a) == OwedByRun(a) \/ OwedByResult(a) \/ OwedByRow(a) \/ OwedByPurge(a)

\* A step of a run hands its object over to the queue, or notes the trouble.
LEMMA OwedAfterProcessor ==
  ASSUME TypeOK, ResultsFit, NormalizedIsOwed,
         NEW b \in Assets, NEW d \in Deliveries,
         \/ Deliver(b, d) \/ Processor(b, d)
         \/ ProcessorCatches(b, d) \/ ProcessorDies(b, d),
         NEW a \in Assets, Normalized(a) \in objects', trouble'[a] = {}, trouble[a] = {}
  PROVE  Owed(a)'
<1> USE DEF TypeOK, RunStep
<1>1. UNCHANGED <<row, place, result, purge, todo>>
  BY ProcessorFrame
<1>2. PICK to \in RunStates : RunStep(b, d, to)
  BY ProcessorSteps
<1>3. CASE Normalized(a) \notin objects
  <2>1. a = b /\ to \in {"put", "rejecting"}
    BY <1>2, <1>3, ObjectFacts
  <2> QED  BY <1>2, <2>1 DEF Owed, OwedByRun
<1>4. CASE OwedByRow(a) \/ OwedByPurge(a)
  BY <1>1, <1>4 DEF Owed, OwedByRow, OwedByPurge, Normalized
<1>5. CASE OwedByResult(a)
  BY <1>1, <1>2, <1>5 DEF Owed, OwedByResult
<1>6. ASSUME NEW e \in Deliveries, run[<<a, e>>] \in {"put", "rejecting"} PROVE Owed(a)'
  <2>1. CASE a # b \/ e # d
    BY <1>2, <1>6, <2>1 DEF Owed, OwedByRun
  <2>2. CASE a = b /\ e = d /\ to = "rejecting"
    BY <1>2, <1>6, <2>2 DEF Owed, OwedByRun
  <2>3. CASE a = b /\ e = d /\ to # "rejecting"
    <3> DEFINE m == [asset |-> a, delivery |-> d, status |-> "ready"]
    <3>1. m \in queue' /\ run[<<a, d>>] = "put"
      BY <1>2, <1>6, <2>3
    <3>2. m \in Results /\ m.asset = a /\ m.delivery = d /\ m.status = "ready"
      BY ResultFacts
    <3>3. \A k \in Consumers : result[k] # m
      BY <3>1, <3>2, NothingSent DEF Sent
    <3> HIDE DEF m
    <3> QED  BY <1>1, <3>1, <3>2, <3>3 DEF Owed, OwedByResult
  <2> QED  BY <2>1, <2>2, <2>3
<1> QED  BY <1>3, <1>4, <1>5, <1>6 DEF NormalizedIsOwed, OwedByRun

\* A consumer that acknowledges a ready result leaves a row that has the object,
\* no object, or trouble.
LEMMA OwedAfterConsumer ==
  ASSUME TypeOK, ResultsFit, NormalizedIsOwed,
         NEW c \in Consumers, Receive(c) \/ Consumer(c) \/ ConsumerFails(c),
         NEW a \in Assets, Normalized(a) \in objects', trouble'[a] = {}, trouble[a] = {}
  PROVE  Owed(a)'
<1> USE DEF TypeOK
<1>0. UNCHANGED <<run, purge, todo>> /\ objects' \subseteq objects
  BY ConsumerFrame DEF Receive, Consumer, Update, CheckExisting, RemoveOrphan, Acknowledge,
     ConsumerFails
<1>1. CASE OwedByRun(a) \/ OwedByPurge(a)
  BY <1>0, <1>1 DEF Owed, OwedByRun, OwedByPurge, Normalized
<1>2. CASE OwedByRow(a)
  BY <1>0, <1>2, ConsumerRow DEF Owed, OwedByRow, Normalized
<1>3. ASSUME NEW m \in queue, m.asset = a, m.status = "ready",
             \A k \in Consumers : place[k] = "ack" => result[k] # m
      PROVE  Owed(a)'
  <2>0. m \in Results
    OBVIOUS
  <2>1. CASE ~(place'[c] = "ack" /\ result'[c] = m)
    <3>1. m \in queue' \/ ConsumerFails(c)
      BY <1>3 DEF Receive, Consumer, Update, CheckExisting, RemoveOrphan, Acknowledge,
         ConsumerFails
    <3>2. m \in queue'
      BY <3>1 DEF ConsumerFails
    <3>3. \A k \in Consumers : k # c => place'[k] = place[k] /\ result'[k] = result[k]
      BY DEF Receive, Consumer, Update, CheckExisting, RemoveOrphan, Acknowledge,
         ConsumerFails, Step
    <3>4. \A k \in Consumers : place'[k] = "ack" => result'[k] # m
      BY <1>3, <2>1, <3>3
    <3> QED  BY <1>3, <3>2, <3>4 DEF Owed, OwedByResult
  <2>2. CASE place'[c] = "ack" /\ result'[c] = m
    <3>1. result[c] = m
      BY <2>0, <2>2, ResultFacts DEF Receive, Consumer, Update, CheckExisting, RemoveOrphan,
         Acknowledge, ConsumerFails, Step
    <3>2. Update(c) \/ CheckExisting(c) \/ RemoveOrphan(c)
      BY <2>2 DEF Receive, Consumer, Acknowledge, ConsumerFails, Step
    <3>3. CASE RemoveOrphan(c)
      BY <1>3, <3>1, <3>3 DEF RemoveOrphan
    <3>4. CASE Update(c) \/ CheckExisting(c)
      <4>1. row'[a] = "ready"
        <5>1. CASE Update(c)
          BY <1>3, <2>2, <3>1, <5>1 DEF Update, Step
        <5>2. CASE CheckExisting(c)
          <6>1. Stored(a) /\ row[a] \in Decided /\ row' = row
            BY <1>3, <2>2, <3>1, <5>2 DEF CheckExisting, Step, ResultsFit
          <6>2. row[a] # "rejected"
            BY DEF ResultsFit
          <6> QED  BY <6>1, <6>2 DEF Stored, Decided
        <5> QED  BY <3>4, <5>1, <5>2
      <4>2. NoteRace(a)
        BY <1>3, <2>2, <3>1, <3>4 DEF Update, CheckExisting, Step
      <4>3. ~PastDeleting(a)
        BY <4>2, ZenonT(40) DEF NoteRace, Note
      <4> QED  BY <1>0, <4>1, <4>3 DEF Owed, OwedByRow, PastDeleting, Normalized
    <3> QED  BY <3>2, <3>3, <3>4
  <2> QED  BY <2>1, <2>2
<1> QED  BY <1>0, <1>1, <1>2, <1>3 DEF NormalizedIsOwed, OwedByResult

\* A purge or a deletion takes over what a row answered for, until it is done.
LEMMA OwedAfterPurge ==
  ASSUME TypeOK, PurgesAreLate, NormalizedIsOwed,
         NEW p \in Purges,
         \/ p \in Assets /\ DeleteAsset(p)
         \/ p \in Scopes /\ DeleteScope(p)
         \/ Purger(p) \/ PurgeFails(p),
         NEW a \in Assets, Normalized(a) \in objects', trouble[a] = {}
  PROVE  Owed(a)'
<1> USE PurgeKinds DEF TypeOK
<1>0. UNCHANGED <<run, queue, place, result>> /\ objects' \subseteq objects
  BY DEF DeleteAsset, DeleteScope, Purger, BeginPurge, EndPurge, DeleteObject, PurgeFails,
     processor, consumer
<1>1. CASE OwedByRun(a) \/ OwedByResult(a)
  BY <1>0, <1>1 DEF Owed, OwedByRun, OwedByResult
<1>2. CASE DeleteAsset(p) \/ DeleteScope(p)
  <2>1. CASE OwedByPurge(a)
    BY <1>2, <2>1 DEF Owed, OwedByPurge, DeleteAsset, DeleteScope, Enqueue, Normalized
  <2>2. CASE OwedByRow(a)
    BY <1>2, <2>2 DEF Owed, OwedByPurge, OwedByRow, DeleteAsset, DeleteScope, Enqueue,
       Normalized
  <2> QED  BY <1>0, <1>1, <2>1, <2>2 DEF NormalizedIsOwed
<1>3. CASE BeginPurge(p)
  BY <1>0, <1>1, <1>3, SnapshotFacts, ZenonT(40)
     DEF NormalizedIsOwed, Owed, OwedByPurge, OwedByRow, BeginPurge, Normalized
<1>4. ASSUME NEW o \in Objects, DeleteObject(p, o) PROVE Owed(a)'
  <2>1. /\ objects' = objects \ {o} /\ todo' = [todo EXCEPT ![p] = @ \ {o}]
        /\ UNCHANGED <<row, purge>>
    BY <1>4 DEF DeleteObject
  <2>2. Normalized(a)' # o /\ Normalized(a)' = Normalized(a)
    BY <2>1 DEF Normalized
  <2> QED  BY <1>0, <1>1, <2>1, <2>2 DEF NormalizedIsOwed, Owed, OwedByPurge, OwedByRow
<1>5. CASE EndPurge(p)
  <2>1. todo[p] = {} /\ purge[p] = "deleting" /\ todo' = todo
        /\ purge' = [purge EXCEPT ![p] = "done"]
    BY <1>5 DEF EndPurge
  <2>2. CASE OwedByPurge(a)
    BY <2>1, <2>2 DEF Owed, OwedByPurge, Normalized
  <2>3. CASE OwedByRow(a)
    <3>1. p \in Assets
      BY <2>1, <2>3 DEF OwedByRow
    <3>2. row' = row
      BY <1>5, <3>1 DEF EndPurge
    <3> QED  BY <2>1, <2>3, <3>1, <3>2 DEF Owed, OwedByRow, Normalized
  <2> QED  BY <1>0, <1>1, <2>2, <2>3 DEF NormalizedIsOwed
<1>6. CASE PurgeFails(p)
  BY <1>0, <1>1, <1>6 DEF NormalizedIsOwed, Owed, OwedByPurge, OwedByRow, PurgeFails, Normalized
<1> QED  BY <1>2, <1>3, <1>4, <1>5, <1>6 DEF Purger

LEMMA OwedStep ==
  ASSUME TypeOK, PurgesAreLate, ResultsFit, NormalizedIsOwed, [Next]_vars
  PROVE  NormalizedIsOwed'
<1> SUFFICES ASSUME NEW a \in Assets, Normalized(a) \in objects', trouble'[a] = {}
             PROVE  Owed(a)'
  BY DEF NormalizedIsOwed, Owed, Normalized
<1>0. trouble[a] = {}
  BY TroubleStays
<1>1. ASSUME row[a] = "ready" => row'[a] = "ready",
             UNCHANGED <<run, queue, place, result, purge, todo>>, Normalized(a) \in objects
      PROVE  Owed(a)'
  BY <1>0, <1>1 DEF NormalizedIsOwed, Owed, OwedByRun, OwedByResult, OwedByRow, OwedByPurge,
     Normalized
<1>2. ASSUME NEW b \in Assets, Create(b) PROVE Owed(a)'
  BY <1>1, <1>2 DEF Create, processor, consumer, outbox, TypeOK
<1>3. ASSUME NEW b \in Assets, Upload(b) PROVE Owed(a)'
  <2>1. objects' = objects \cup {Raw(b)}
    BY <1>3 DEF Upload
  <2>2. Normalized(a) \in objects
    BY <2>1, ObjectFacts
  <2> QED  BY <1>1, <1>3, <2>2 DEF Upload, consumer, outbox
<1>4. CASE Tick \/ UNCHANGED vars
  BY <1>1, <1>4 DEF Tick, vars, processor, consumer
<1> QED
  BY <1>0, <1>2, <1>3, <1>4, OwedAfterProcessor, OwedAfterConsumer, OwedAfterPurge, PurgeKinds
     DEF Next

-----------------------------------------------------------------------------
LEMMA InvInit == Init => Inv
<1> SUFFICES ASSUME Init PROVE Inv
  OBVIOUS
<1> USE Delays, PurgeKinds DEF Init
<1>1. TypeOK
  BY AssetAssumption DEF TypeOK, AssetAssumption
<1>2. PurgesAreLate /\ RawIsAnsweredFor
  BY <1>1 DEF PurgesAreLate, RawIsAnsweredFor, Stored
<1>3. \A m \in Results : ~Sent(m)
  BY ResultFacts DEF Sent
<1>4. ResultsFit /\ ReportedIsStored
  BY <1>3 DEF ResultsFit, ReportedIsStored, Reported
<1>5. NormalizedIsOwed
  BY DEF NormalizedIsOwed
<1> QED  BY <1>1, <1>2, <1>4, <1>5 DEF Inv

LEMMA InvStep == Inv /\ [Next]_vars => Inv'
<1> SUFFICES ASSUME Inv, [Next]_vars PROVE Inv'
  OBVIOUS
<1> QED  BY TypeStep, LateStep, RawStep, FitStep, ReportedStep, OwedStep DEF Inv

\* Every reachable state satisfies the inductive invariant.
THEOREM InductiveInvariant == Spec => []Inv
  BY InvInit, InvStep, PTL DEF Spec

\* Type correctness of the rows, the objects, the runs, the consumers and the
\* purges.
THEOREM TypeCorrect == Spec => []TypeOK
<1>1. Inv => TypeOK
  BY DEF Inv
<1> QED  BY <1>1, InductiveInvariant, PTL

\* No raw object outlives its asset, no normalised one does but for the three
\* windows, and a ready image is stored until a purge may delete it.
THEOREM ObjectsAreAccountedFor == Spec => []ObjectsMatchRows
<1>1. ASSUME Inv PROVE ObjectsMatchRows
  <2> USE <1>1 DEF Inv
  <2>1. NoOrphanRaw
    BY DEF NoOrphanRaw, Disposed, RawIsAnsweredFor
  <2>2. ASSUME NEW a \in Assets, Disposed(a), Quiet(a), trouble[a] = {},
               Normalized(a) \in objects
        PROVE  FALSE
    <3>1. Owed(a)
      BY <2>2 DEF NormalizedIsOwed, Owed
    <3>2. ~OwedByRun(a) /\ ~OwedByRow(a) /\ ~OwedByPurge(a)
      BY <2>2 DEF Quiet, Disposed, OwedByRun, OwedByRow, OwedByPurge
    <3>3. ~OwedByResult(a)
      BY <2>2 DEF Quiet, OwedByResult
    <3> QED  BY <3>1, <3>2, <3>3 DEF Owed
  <2>3. ReadyIsStored
    BY DEF ReadyIsStored, ReportedIsStored, Reported, ScopeIsDue
  <2> QED  BY <2>1, <2>2, <2>3 DEF ObjectsMatchRows, NoOrphanNormalized
<1> QED  BY <1>1, InductiveInvariant, PTL

\* A decided asset stays decided, however many results are sent, received,
\* repeated or late.
THEOREM DecisionsAreFinal == Spec => DecidedOnce
<1> DEFINE Final ==
      \A a \in Assets :
        row[a] \in {"ready", "rejected"} => row'[a] \in {row[a], "gone"}
<1>1. ASSUME TypeOK, [Next]_vars PROVE Final
  <2> USE <1>1 DEF TypeOK
  <2>1. CASE UNCHANGED row
    BY <2>1
  <2>2. ASSUME NEW a \in Assets, Create(a) \/ DeleteAsset(a) PROVE Final
    BY <2>2 DEF Create, DeleteAsset
  <2>3. ASSUME NEW c \in Consumers, Receive(c) \/ Consumer(c) \/ ConsumerFails(c) PROVE Final
    BY <2>3, ConsumerRow
  <2>4. ASSUME NEW p \in Purges, EndPurge(p) PROVE Final
    BY <2>4 DEF EndPurge
  <2>5. ASSUME NEW a \in Assets, Upload(a) PROVE UNCHANGED row
    BY <2>5 DEF Upload
  <2>6. ASSUME NEW p \in Purges,
               BeginPurge(p) \/ (\E o \in Objects : DeleteObject(p, o)) \/ PurgeFails(p)
        PROVE  UNCHANGED row
    BY <2>6 DEF BeginPurge, DeleteObject, PurgeFails
  <2>7. CASE Tick \/ (\E p \in Scopes : DeleteScope(p)) \/ UNCHANGED vars
    BY <2>1, <2>7 DEF Tick, DeleteScope, vars
  <2> QED  BY <1>1, <2>1, <2>2, <2>3, <2>4, <2>5, <2>6, <2>7, ProcessorFrame DEF Next, Purger
<1>2. TypeOK /\ [Next]_vars => [Final]_vars
  BY <1>1
<1> QED  BY <1>2, TypeCorrect, PTL DEF Spec, DecidedOnce
=============================================================================
