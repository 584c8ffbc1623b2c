--------------------------- MODULE AssetLifecycle ---------------------------
(***************************************************************************)
(* An image from its signed upload URL to the last of its objects: the     *)
(* asset rows, the raw and the normalised object of each, the image        *)
(* processor, the queue of its results, the consumer of that queue, and    *)
(* the three purges of the outbox (asset, conversation, account).          *)
(*                                                                         *)
(* Every SQL statement, object store call and queue call is one step.  The *)
(* event of an upload is delivered at least once, a result is received any *)
(* number of times until it is acknowledged, by any consumer, and a purge  *)
(* is repeated after a failure.  How the outbox schedules a purge is       *)
(* module Outbox; here it runs once its time has come.                     *)
(*                                                                         *)
(* All assets belong to one conversation of one account, and their results *)
(* name the keys of their owner.                                           *)
(***************************************************************************)
EXTENDS Integers, FiniteSets

CONSTANTS
  Assets,
  Consumers,      \* worker processes
  NoResult,       \* a consumer has no message
  UrlLife,        \* the ten minutes of an upload URL and of an upload begun
                  \* before they end, in ticks
  PurgeDelay,     \* the 15 minutes every purge waits, in ticks
  MaxDeliveries,  \* bound: deliveries of one upload's event
  MaxFaults       \* bound: failed calls

ASSUME AssetAssumption ==
  /\ UrlLife \in Nat /\ PurgeDelay \in Nat /\ UrlLife <= PurgeDelay
  /\ MaxDeliveries \in Nat /\ MaxFaults \in Nat

Scopes == {"conversation", "account"}
Purges == Assets \cup Scopes
Deliveries == 1..MaxDeliveries
Objects == {"raw", "normalized"} \X Assets
Results == [asset : Assets, delivery : Deliveries, status : {"ready", "rejected"}]

ASSUME ScopesAssumption == Assets \cap Scopes = {} /\ NoResult \notin Results

VARIABLES
  row,       \* assets.status; none before, gone after the row
  age,       \* now - created_at, counted to PurgeDelay
  objects,   \* the objects that exist
  uploaded,  \* the uploads whose event is to be delivered
  run,       \* where each delivery of an upload's event is
  queue,     \* the results sent and not acknowledged
  place,     \* where each consumer is
  result,    \* the result it works on
  purge,     \* where each purge is
  todo,      \* the objects it has still to delete
  wait,      \* the time until it is due
  trouble,   \* what went wrong with an asset: rejected, died, raced
  faults

processor == <<uploaded, run>>
consumer == <<place, result>>
outbox == <<purge, todo, wait>>
vars == <<row, age, objects, uploaded, run, queue, place, result,
          purge, todo, wait, trouble, faults>>

TypeOK ==
  /\ row \in [Assets -> {"none", "pending_upload", "ready", "rejected", "gone"}]
  /\ age \in [Assets -> 0..PurgeDelay]
  /\ objects \subseteq Objects
  /\ uploaded \subseteq Assets
  /\ run \in [Assets \X Deliveries ->
                {"idle", "started", "got", "put", "rejecting", "ended"}]
  /\ queue \subseteq Results
  /\ place \in [Consumers -> {"idle", "received", "checking", "removing", "ack"}]
  /\ result \in [Consumers -> Results \cup {NoResult}]
  /\ \A c \in Consumers : place[c] = "idle" <=> result[c] = NoResult
  /\ purge \in [Purges -> {"none", "waiting", "deleting", "done"}]
  /\ todo \in [Purges -> SUBSET Objects]
  /\ wait \in [Purges -> 0..PurgeDelay]
  /\ trouble \in [Assets -> SUBSET {"rejected", "died", "raced"}]
  /\ faults \in 0..MaxFaults

Init ==
  /\ row = [a \in Assets |-> "none"]
  /\ age = [a \in Assets |-> 0]
  /\ objects = {}
  /\ uploaded = {}
  /\ run = [d \in Assets \X Deliveries |-> "idle"]
  /\ queue = {}
  /\ place = [c \in Consumers |-> "idle"]
  /\ result = [c \in Consumers |-> NoResult]
  /\ purge = [p \in Purges |-> "none"]
  /\ todo = [p \in Purges |-> {}]
  /\ wait = [p \in Purges |-> 0]
  /\ trouble = [a \in Assets |-> {}]
  /\ faults = 0

-----------------------------------------------------------------------------
Fault == faults < MaxFaults /\ faults' = faults + 1

Raw(a) == <<"raw", a>>
Normalized(a) == <<"normalized", a>>

Stored(a) == row[a] \in {"pending_upload", "ready", "rejected"}

Note(a, what) == trouble' = [trouble EXCEPT ![a] = @ \cup {what}]

\* createUpload: the URL is signed, then the row is inserted under locks on
\* the live account and conversation.
Create(a) ==
  /\ row[a] = "none"
  /\ \A p \in Scopes : purge[p] = "none"
  /\ row' = [row EXCEPT ![a] = "pending_upload"]
  /\ UNCHANGED <<age, objects, processor, queue, consumer, outbox, trouble,
                 faults>>

\* The client's PUT, which the store refuses when the object exists or the
\* URL is past; nothing stops it when the row is gone.
Upload(a) ==
  /\ row[a] # "none"
  /\ age[a] < UrlLife
  /\ Raw(a) \notin objects
  /\ objects' = objects \cup {Raw(a)}
  /\ uploaded' = uploaded \cup {a}
  /\ UNCHANGED <<row, age, run, queue, consumer, outbox, trouble, faults>>

-----------------------------------------------------------------------------
\* The image processor, one run for each delivery d of an upload's event.
Go(a, d, to) == run' = [run EXCEPT ![<<a, d>>] = to]

Send(a, d, status) ==
  queue' = queue \cup {[asset |-> a, delivery |-> d, status |-> status]}

Deliver(a, d) ==
  /\ a \in uploaded /\ run[<<a, d>>] = "idle"
  /\ Go(a, d, "started")
  /\ UNCHANGED <<row, age, objects, uploaded, queue, consumer, outbox, trouble,
                 faults>>

\* getRawObject and normalize, which throws when it refuses the image.
GetRawObject(a, d) ==
  /\ run[<<a, d>>] = "started"
  /\ \E to \in IF Raw(a) \in objects THEN {"got", "rejecting"}
                                    ELSE {"rejecting"} : Go(a, d, to)
  /\ UNCHANGED <<row, age, objects, uploaded, queue, consumer, outbox, trouble,
                 faults>>

PutNormalizedObject(a, d) ==
  /\ run[<<a, d>>] = "got"
  /\ objects' = objects \cup {Normalized(a)}
  /\ Go(a, d, "put")
  /\ UNCHANGED <<row, age, uploaded, queue, consumer, outbox, trouble, faults>>

SendReady(a, d) ==
  /\ run[<<a, d>>] = "put"
  /\ Send(a, d, "ready")
  /\ Go(a, d, "ended")
  /\ UNCHANGED <<row, age, objects, uploaded, consumer, outbox, trouble, faults>>

\* A call of the try block fails, done or not: the catch block follows.
ProcessorCatches(a, d) ==
  /\ Fault
  /\ \/ /\ run[<<a, d>>] = "started"
        /\ UNCHANGED <<objects, queue>>
     \/ /\ run[<<a, d>>] = "got"
        /\ objects' \in {objects, objects \cup {Normalized(a)}}
        /\ UNCHANGED queue
     \/ /\ run[<<a, d>>] = "put"
        /\ Send(a, d, "ready") \/ UNCHANGED queue
        /\ UNCHANGED objects
  /\ Go(a, d, "rejecting")
  /\ UNCHANGED <<row, age, uploaded, consumer, outbox, trouble>>

\* The catch block reports a rejection, whatever has been done before.
SendRejected(a, d) ==
  /\ run[<<a, d>>] = "rejecting"
  /\ Send(a, d, "rejected")
  /\ Note(a, "rejected")
  /\ Go(a, d, "ended")
  /\ UNCHANGED <<row, age, objects, uploaded, consumer, outbox, faults>>

\* The run ends without a report, and its retries do too.
ProcessorDies(a, d) ==
  /\ run[<<a, d>>] \notin {"idle", "ended"}
  /\ Fault
  /\ Note(a, "died")
  /\ Go(a, d, "ended")
  /\ UNCHANGED <<row, age, objects, uploaded, queue, consumer, outbox>>

-----------------------------------------------------------------------------
\* The consumer of the results.
Step(c, to) ==
  /\ place' = [place EXCEPT ![c] = to]
  /\ result' = [result EXCEPT ![c] = IF to = "idle" THEN NoResult ELSE @]

\* A scope's purge has read the rows or listed the objects and will not
\* delete a's normalised object any more, but has not deleted the rows yet.
PastDeleting(a) ==
  \E p \in Scopes : purge[p] = "deleting" /\ Normalized(a) \notin todo[p]

\* A ready result settled against a row that is about to be deleted.
NoteRace(a) ==
  IF PastDeleting(a) THEN Note(a, "raced") ELSE UNCHANGED trouble

Receive(c) ==
  /\ place[c] = "idle"
  /\ \E m \in queue : result' = [result EXCEPT ![c] = m]
  /\ place' = [place EXCEPT ![c] = "received"]
  /\ UNCHANGED <<row, age, objects, processor, queue, outbox, trouble, faults>>

\* Mutant: the update has no condition on the status.
UpdateAnyStatus(c) ==
  LET a == result[c].asset IN
  /\ place[c] = "received"
  /\ IF Stored(a)
     THEN /\ row' = [row EXCEPT ![a] = result[c].status]
          /\ Step(c, "ack")
          /\ NoteRace(a)
     ELSE /\ Step(c, "checking")
          /\ UNCHANGED <<row, trouble>>
  /\ UNCHANGED <<age, objects, processor, queue, outbox, faults>>

\* Mutant: a result that updates no row is an error.
UpdateOrThrow(c) ==
  LET a == result[c].asset IN
  /\ place[c] = "received"
  /\ IF row[a] = "pending_upload"
     THEN /\ row' = [row EXCEPT ![a] = result[c].status]
          /\ Step(c, "ack")
          /\ NoteRace(a)
     ELSE /\ Step(c, "idle")
          /\ UNCHANGED <<row, trouble>>
  /\ UNCHANGED <<age, objects, processor, queue, outbox, faults>>

\* UPDATE assets ... WHERE status = 'pending_upload'.
Update(c) ==
  LET a == result[c].asset IN
  /\ place[c] = "received"
  /\ IF row[a] = "pending_upload"
     THEN /\ row' = [row EXCEPT ![a] = result[c].status]
          /\ Step(c, "ack")
          /\ NoteRace(a)
     ELSE /\ Step(c, "checking")
          /\ UNCHANGED <<row, trouble>>
  /\ UNCHANGED <<age, objects, processor, queue, outbox, faults>>

\* Mutant: a result that updated nothing has its object deleted.
CheckNothing(c) ==
  /\ place[c] = "checking"
  /\ Step(c, IF result[c].status = "ready" THEN "removing" ELSE "ack")
  /\ UNCHANGED <<row, age, objects, processor, queue, outbox, trouble, faults>>

\* No row was updated: is there one at all?
CheckExisting(c) ==
  LET a == result[c].asset IN
  /\ place[c] = "checking"
  /\ Step(c, IF ~Stored(a) /\ result[c].status = "ready" THEN "removing"
                                                         ELSE "ack")
  /\ IF Stored(a) THEN NoteRace(a) ELSE UNCHANGED trouble
  /\ UNCHANGED <<row, age, objects, processor, queue, outbox, faults>>

\* Mutant: the object of a result without a row is left alone.
RemoveNothing(c) ==
  /\ place[c] = "removing"
  /\ Step(c, "ack")
  /\ UNCHANGED <<row, age, objects, processor, queue, outbox, trouble, faults>>

RemoveOrphan(c) ==
  /\ place[c] = "removing"
  /\ objects' = objects \ {Normalized(result[c].asset)}
  /\ Step(c, "ack")
  /\ UNCHANGED <<row, age, processor, queue, outbox, trouble, faults>>

Acknowledge(c) ==
  /\ place[c] = "ack"
  /\ queue' = queue \ {result[c]}
  /\ Step(c, "idle")
  /\ UNCHANGED <<row, age, objects, processor, outbox, trouble, faults>>

\* Mutant: the catch block acknowledges.
ConsumerFailsAcknowledging(c) ==
  /\ place[c] # "idle"
  /\ Fault
  /\ queue' = queue \ {result[c]}
  /\ Step(c, "idle")
  /\ UNCHANGED <<row, age, objects, processor, outbox, trouble>>

\* A call fails: the message stays in the queue.
ConsumerFails(c) ==
  /\ place[c] # "idle"
  /\ Fault
  /\ Step(c, "idle")
  /\ UNCHANGED <<row, age, objects, processor, queue, outbox, trouble>>

-----------------------------------------------------------------------------
\* Mutant: an asset's purge is due at once.
AssetDelayNone(a) == 0

\* greatest(now(), created_at + 15 minutes)
AssetDelay(a) == PurgeDelay - age[a]

Enqueue(p, delay) ==
  /\ purge' = [purge EXCEPT ![p] = "waiting"]
  /\ wait' = [wait EXCEPT ![p] = delay]
  /\ UNCHANGED todo

\* AssetsRepository.delete: the row goes, the purge is enqueued.
DeleteAsset(a) ==
  /\ Stored(a) /\ purge["account"] = "none"
  /\ row' = [row EXCEPT ![a] = "gone"]
  /\ Enqueue(a, AssetDelay(a))
  /\ UNCHANGED <<age, objects, processor, queue, consumer, trouble, faults>>

\* The conversation or the account is marked deleted; its rows stay.
DeleteScope(p) ==
  /\ purge[p] = "none" /\ purge["account"] = "none"
  /\ Enqueue(p, PurgeDelay)
  /\ UNCHANGED <<row, age, objects, processor, queue, consumer, trouble, faults>>

\* Mutant: a conversation's purge forgets the normalised objects.
SnapshotRaw(p) ==
  CASE p \in Assets -> {Raw(p), Normalized(p)}
    [] p = "conversation" -> {Raw(a) : a \in {b \in Assets : Stored(b)}}
    [] OTHER -> Objects

\* What a purge deletes: the keys of the payload, the keys it reads in the
\* rows, everything under the account's prefixes.
Snapshot(p) ==
  CASE p \in Assets -> {Raw(p), Normalized(p)}
    [] p = "conversation" ->
         {Raw(a) : a \in {b \in Assets : Stored(b)}} \cup
         {Normalized(a) : a \in {b \in Assets : row[b] = "ready"}}
    [] OTHER -> Objects

BeginPurge(p) ==
  /\ purge[p] = "waiting" /\ wait[p] = 0
  /\ purge' = [purge EXCEPT ![p] = "deleting"]
  /\ todo' = [todo EXCEPT ![p] = Snapshot(p)]
  /\ UNCHANGED <<row, age, objects, processor, queue, consumer, wait, trouble,
                 faults>>

\* An asset's purge deletes the raw object first, the others in any order.
DeleteObject(p, o) ==
  /\ purge[p] = "deleting" /\ o \in todo[p]
  /\ p \in Assets /\ o # Raw(p) => Raw(p) \notin todo[p]
  /\ objects' = objects \ {o}
  /\ todo' = [todo EXCEPT ![p] = @ \ {o}]
  /\ UNCHANGED <<row, age, processor, queue, consumer, purge, wait, trouble,
                 faults>>

\* The last step: a scope's rows are deleted, with those that reference them.
EndPurge(p) ==
  /\ purge[p] = "deleting" /\ todo[p] = {}
  /\ purge' = [purge EXCEPT ![p] = "done"]
  /\ row' = IF p \in Assets THEN row
            ELSE [a \in Assets |-> IF row[a] = "none" THEN "none" ELSE "gone"]
  /\ UNCHANGED <<age, objects, processor, queue, consumer, todo, wait, trouble,
                 faults>>

\* A call fails: the event is retried from the beginning.
PurgeFails(p) ==
  /\ purge[p] = "deleting"
  /\ Fault
  /\ purge' = [purge EXCEPT ![p] = "waiting"]
  /\ todo' = [todo EXCEPT ![p] = {}]
  /\ UNCHANGED <<row, age, objects, processor, queue, consumer, wait, trouble>>

Tick ==
  /\ age' = [a \in Assets |-> IF row[a] # "none" /\ age[a] < PurgeDelay
                              THEN age[a] + 1 ELSE age[a]]
  /\ wait' = [p \in Purges |-> IF wait[p] > 0 THEN wait[p] - 1 ELSE 0]
  /\ UNCHANGED <<row, objects, processor, queue, consumer, purge, todo, trouble,
                 faults>>

-----------------------------------------------------------------------------
Processor(a, d) ==
  \/ GetRawObject(a, d) \/ PutNormalizedObject(a, d)
  \/ SendReady(a, d) \/ SendRejected(a, d)

Consumer(c) ==
  Update(c) \/ CheckExisting(c) \/ RemoveOrphan(c) \/ Acknowledge(c)

Purger(p) ==
  BeginPurge(p) \/ EndPurge(p) \/ \E o \in Objects : DeleteObject(p, o)

Next ==
  \/ Tick
  \/ \E a \in Assets : Create(a) \/ Upload(a) \/ DeleteAsset(a)
  \/ \E a \in Assets, d \in Deliveries :
       Deliver(a, d) \/ Processor(a, d)
         \/ ProcessorCatches(a, d) \/ ProcessorDies(a, d)
  \/ \E c \in Consumers : Receive(c) \/ Consumer(c) \/ ConsumerFails(c)
  \/ \E p \in Purges : Purger(p) \/ PurgeFails(p)
  \/ \E p \in Scopes : DeleteScope(p)

\* Every upload's event is delivered once at least, every result is received
\* in the end by some consumer, and each process goes on.
Fairness ==
  /\ WF_vars(Tick)
  /\ \A a \in Assets, d \in Deliveries :
       WF_vars(Processor(a, d)) /\ WF_vars(d = 1 /\ Deliver(a, d))
  /\ \A c \in Consumers : WF_vars(Consumer(c)) /\ WF_vars(Receive(c))
  /\ \A p \in Purges : WF_vars(Purger(p))

Spec == Init /\ [][Next]_vars

FairSpec == Spec /\ Fairness

-----------------------------------------------------------------------------
\* The row and every purge that answers for the asset are gone.
Disposed(a) == row[a] = "gone" /\ purge[a] \in {"none", "done"}

\* Nobody works on the asset or has a result of it.
Quiet(a) ==
  /\ \A d \in Deliveries : run[<<a, d>>] \in {"idle", "ended"}
  /\ \A m \in queue : m.asset # a
  /\ \A c \in Consumers : place[c] # "idle" => result[c].asset # a

\* No upload survives its asset: the purge comes after the last moment the
\* signed URL can be used, so a raw object written late is deleted too
\* (expiresIn of createUpload against nextAttemptAt of the three deletions).
NoOrphanRaw == \A a \in Assets : Disposed(a) => Raw(a) \notin objects

\* No normalised image survives its asset, whatever is delivered twice, late
\* or after the deletion, and whichever calls are repeated, with exactly three
\* windows: a run reported a rejection (perhaps after its object was stored),
\* a run died unreported, or a ready result was settled against the row after
\* the purge of its conversation or account had passed the object by.
NoOrphanNormalized ==
  \A a \in Assets :
    Disposed(a) /\ Quiet(a) /\ trouble[a] = {} => Normalized(a) \notin objects

\* A ready asset has its image, as readNormalizedImage and the CDN expect,
\* until the purge of its conversation or account deletes objects: the
\* consumer that cleans up after a deleted asset never hits a live one.
ReadyIsStored ==
  \A a \in Assets :
    row[a] = "ready" =>
      \/ Normalized(a) \in objects
      \/ \E p \in Scopes : purge[p] # "none" /\ wait[p] = 0

\* The objects in the store are those the rows, the queue and the purges
\* still answer for.
ObjectsMatchRows ==
  TypeOK /\ NoOrphanRaw /\ NoOrphanNormalized /\ ReadyIsStored

\* A decided asset stays decided: a duplicate, a late or a contradicting
\* result never flips the status a client has seen.
DecidedOnce ==
  [][\A a \in Assets :
       row[a] \in {"ready", "rejected"} => row'[a] \in {row[a], "gone"}]_vars

\* An uploaded image is decided or its row deleted, unless the processor dies.
UploadDecided ==
  \A a \in Assets :
    a \in uploaded ~> (row[a] # "pending_upload" \/ "died" \in trouble[a])

\* A result is acknowledged in the end, so it is not redelivered for ever.
ResultsSettle == queue # {} ~> queue = {}

\* A deletion ends with no row and no raw object.
DeletionCompletes ==
  \A a \in Assets :
    row[a] = "gone" ~> (Disposed(a) /\ Raw(a) \notin objects)

\* Uploads, results and deletions all come to their end.
AssetsSettle == UploadDecided /\ ResultsSettle /\ DeletionCompletes
=============================================================================
