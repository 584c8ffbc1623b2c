---------------------------- MODULE OutboxWakeup ----------------------------
(***************************************************************************)
(* When the outbox worker sleeps and what wakes it: the loop of            *)
(* runOutboxWorker, the LISTEN connection of OutboxWakeup and the trigger  *)
(* that notifies it, in one worker process.                                *)
(*                                                                         *)
(* What an event does, and how two workers share the rows, is module       *)
(* Outbox.  Here an event has only the time until it is available (the     *)
(* later of next_attempt_at and locked_until) and whether somebody holds   *)
(* it.  The process is single-threaded: every action is what runs between  *)
(* two awaits, and the callbacks of the client (notification, error, end)  *)
(* and of the signal run between them.                                     *)
(*                                                                         *)
(* The socket and this.connection are two things: the server stops         *)
(* delivering when the connection is lost, the process learns of it later, *)
(* if at all, from an error or end event.                                  *)
(***************************************************************************)
EXTENDS Integers, FiniteSets

CONSTANTS
  Events,        \* outbox rows
  EnqueueDelay,  \* the producers' 15 minutes, in ticks
  Backoff,       \* the delay after a failed attempt, in ticks
  ClaimLease,    \* the five-minute claim, in ticks
  Fallback,      \* fallbackCadenceMilliseconds, in ticks
  Degraded,      \* degradedCadenceMilliseconds, in ticks
  MaxFaults      \* bound: failed calls, lost connections, foreign claims

ASSUME WakeupAssumption ==
  /\ EnqueueDelay \in Nat /\ Backoff \in Nat /\ ClaimLease \in Nat
  /\ Fallback \in Nat /\ Degraded \in Nat
  /\ MaxFaults \in Nat

VARIABLES
  status,      \* of each event: absent, free, held (locked by this worker),
               \* foreign (locked by another) or published
  avail,       \* greatest(next_attempt_at, locked_until) - now, 0 when past
  batch,       \* the events this worker has claimed and not finished
  place,       \* where the loop of runOutboxWorker is
  timer,       \* the answer of nextWakeDelay, then what is left of the timer
  listening,   \* the loop's local: listen() succeeded in this iteration
  socket,      \* the client: none, open, listening (LISTEN done), lost
  connection,  \* this.connection is set
  pending,     \* this.pending
  borrowed,    \* clients taken from the pool and not released
  notified,    \* a notification is on its way to the client
  aborted,     \* SIGTERM was received: signal.aborted
  faults

rows == <<status, avail>>
loop == <<batch, place, timer, listening>>
wakeup == <<socket, connection, pending, borrowed>>
vars == <<status, avail, batch, place, timer, listening, socket, connection,
          pending, borrowed, notified, aborted, faults>>

Places == {"listen", "acquiring", "connecting", "process", "processing",
           "asking", "wait", "stuck", "parked", "degraded", "closing",
           "unlistening", "closed"}

TypeOK ==
  /\ status \in [Events -> {"absent", "free", "held", "foreign", "published"}]
  /\ avail \in [Events -> Nat]
  /\ batch \subseteq Events
  /\ place \in Places
  /\ timer \in Nat
  /\ listening \in BOOLEAN
  /\ socket \in {"none", "open", "listening", "lost"}
  /\ connection \in BOOLEAN
  /\ pending \in BOOLEAN
  /\ borrowed \in Int
  /\ notified \in BOOLEAN
  /\ aborted \in BOOLEAN
  /\ faults \in 0..MaxFaults

Init ==
  /\ status = [e \in Events |-> "absent"]
  /\ avail = [e \in Events |-> 0]
  /\ batch = {}
  /\ place = "listen"
  /\ timer = 0
  /\ listening = FALSE
  /\ socket = "none"
  /\ connection = FALSE
  /\ pending = FALSE
  /\ borrowed = 0
  /\ notified = FALSE
  /\ aborted = FALSE
  /\ faults = 0

-----------------------------------------------------------------------------
Fault == faults < MaxFaults /\ faults' = faults + 1

Lesser(a, b) == IF a <= b THEN a ELSE b

\* Rows with published_at null.
Waiting == {e \in Events : status[e] \in {"free", "held", "foreign"}}

\* Rows claim() would take: available now, whoever locked them.
Claimable == {e \in Waiting : avail[e] = 0}

\* Mutant: the trigger fires for inserts only.
NotifyOfInserts(e, s) == IF status[e] = "absent" THEN socket = "listening"
                                                 ELSE notified

\* The trigger notifies when a row is inserted or released unpublished; a
\* notification reaches a connection that has done its LISTEN.
Notify(e, s) == (s = "free" /\ socket = "listening") \/ notified

\* A row is written: its status, its availability and the trigger.
Write(e, s, delay) ==
  /\ status' = [status EXCEPT ![e] = s]
  /\ avail' = [avail EXCEPT ![e] = delay]
  /\ notified' = Notify(e, s)

\* Mutant: a notification nobody waits for is dropped.
WakeWithoutPending ==
  /\ place' = IF place = "parked" THEN "listen" ELSE place
  /\ UNCHANGED pending

\* wake(): end the wait, or remember it for the next one.
Wake ==
  IF place = "parked"
  THEN place' = "listen" /\ UNCHANGED pending
  ELSE pending' = TRUE /\ UNCHANGED place

-----------------------------------------------------------------------------
\* The top of the loop: leave it, or make sure there is a listener.
Listen ==
  /\ place = "listen"
  /\ IF aborted
     THEN place' = "closing" /\ UNCHANGED listening
     ELSE /\ listening' = connection
          /\ place' = IF connection THEN "process" ELSE "acquiring"
  /\ UNCHANGED <<rows, batch, timer, wakeup, notified, aborted, faults>>

\* pool.connect() answers, and the handlers are attached.
Acquire ==
  /\ place = "acquiring"
  /\ borrowed' = borrowed + 1
  /\ socket' = "open"
  /\ place' = "connecting"
  /\ UNCHANGED <<rows, batch, timer, listening, connection, pending,
                 notified, aborted, faults>>

AcquireFails ==
  /\ place = "acquiring"
  /\ Fault
  /\ place' = "process"
  /\ UNCHANGED <<rows, batch, timer, listening, wakeup, notified, aborted>>

\* The server executes LISTEN; from here it delivers notifications.
ServerListens ==
  /\ place = "connecting" /\ socket = "open"
  /\ socket' = "listening"
  /\ UNCHANGED <<rows, loop, connection, pending, borrowed, notified,
                 aborted, faults>>

\* connect() resolves.
Connected ==
  /\ place = "connecting" /\ socket = "listening"
  /\ connection' = TRUE
  /\ listening' = TRUE
  /\ place' = "process"
  /\ UNCHANGED <<rows, batch, timer, socket, pending, borrowed, notified,
                 aborted, faults>>

\* LISTEN is rejected: detach, release, and listen() throws.
ConnectFails ==
  /\ place = "connecting" /\ socket = "lost"
  /\ borrowed' = borrowed - 1
  /\ socket' = "none"
  /\ place' = "process"
  /\ UNCHANGED <<rows, batch, timer, listening, connection, pending,
                 notified, aborted, faults>>

-----------------------------------------------------------------------------
\* claim(): take every row that is available.
Claim ==
  /\ place = "process"
  /\ batch' = Claimable
  /\ place' = IF Claimable = {} THEN "asking" ELSE "processing"
  /\ status' = [e \in Events |-> IF e \in Claimable THEN "held" ELSE status[e]]
  /\ avail' = [e \in Events |-> IF e \in Claimable THEN ClaimLease ELSE avail[e]]
  /\ UNCHANGED <<timer, listening, wakeup, notified, aborted, faults>>

\* The worker's updates ask for its own lock.
WriteHeld(e, s, delay) ==
  IF status[e] = "held" THEN Write(e, s, delay) ELSE UNCHANGED <<rows, notified>>

\* An event's effect succeeds and published_at is set.
Publish(e) ==
  /\ place = "processing" /\ e \in batch
  /\ batch' = batch \ {e}
  /\ WriteHeld(e, "published", 0)
  /\ UNCHANGED <<place, timer, listening, wakeup, aborted, faults>>

\* It fails: the row is released with a later next_attempt_at.
RecordFailure(e) ==
  /\ place = "processing" /\ e \in batch
  /\ Fault
  /\ batch' = batch \ {e}
  /\ WriteHeld(e, "free", Backoff)
  /\ UNCHANGED <<place, timer, listening, wakeup, aborted>>

\* process() returned true: continue.
Processed ==
  /\ place = "processing" /\ batch = {}
  /\ place' = "listen"
  /\ UNCHANGED <<rows, batch, timer, listening, wakeup, notified, aborted,
                 faults>>

\* Mutant: the query looks at rows nobody holds.
DelayOfFree ==
  LET free == {e \in Events : status[e] = "free"}
  IN  CHOOSE d \in 0..Fallback :
        /\ \A e \in free : d <= avail[e]
        /\ d = Fallback \/ \E e \in free : d = avail[e]

\* nextWakeDelay: the time to the first availability, at most the fallback.
NextWakeDelay ==
  CHOOSE d \in 0..Fallback :
    /\ \A e \in Waiting : d <= avail[e]
    /\ d = Fallback \/ \E e \in Waiting : d = avail[e]

AskDelay ==
  /\ place = "asking"
  /\ timer' = IF listening THEN NextWakeDelay
                           ELSE Lesser(NextWakeDelay, Degraded)
  /\ place' = CASE listening -> "wait"
                [] aborted /\ ~listening -> "listen"
                [] OTHER -> "degraded"
  /\ UNCHANGED <<rows, batch, listening, wakeup, notified, aborted, faults>>

\* process() or nextWakeDelay() rejects: report, and the degraded delay.
ProcessorFails ==
  /\ place \in {"process", "processing", "asking"}
  /\ Fault
  /\ batch' = {}
  /\ timer' = Degraded
  /\ place' = IF aborted THEN "listen" ELSE "degraded"
  /\ UNCHANGED <<rows, listening, wakeup, notified, aborted>>

\* Mutant: wait() does not look at the signal first.
WaitIgnoringSignal ==
  /\ place = "wait"
  /\ pending' = FALSE
  /\ place' = CASE pending -> "listen"
                [] connection /\ ~pending -> "parked"
                [] OTHER -> "stuck"
  /\ UNCHANGED <<rows, batch, timer, listening, socket, connection, borrowed,
                 notified, aborted, faults>>

\* Mutant: wait() parks without consuming a pending notification.
WaitIgnoringPending ==
  /\ place = "wait"
  /\ place' = CASE aborted -> "listen"
                [] connection /\ ~aborted -> "parked"
                [] OTHER -> "stuck"
  /\ UNCHANGED <<rows, batch, timer, listening, wakeup, notified, aborted,
                 faults>>

\* wait(): returns at once when the signal is aborted or a notification is
\* pending, else parks.  It would connect again ("stuck", where neither the
\* abort nor close() could reach it) if it found no connection.
Wait ==
  /\ place = "wait"
  /\ pending' = (pending /\ aborted)
  /\ place' = CASE aborted \/ pending -> "listen"
                [] connection /\ ~aborted /\ ~pending -> "parked"
                [] OTHER -> "stuck"
  /\ UNCHANGED <<rows, batch, timer, listening, socket, connection, borrowed,
                 notified, aborted, faults>>

\* Mutant: wait() has no timer of its own.
TimeoutOfDelayOnly ==
  /\ place = "degraded" /\ timer = 0
  /\ place' = "listen"
  /\ UNCHANGED <<rows, batch, timer, listening, wakeup, notified, aborted,
                 faults>>

\* The timer of wait() or of delay() fires.
Timeout ==
  /\ place \in {"parked", "degraded"} /\ timer = 0
  /\ place' = "listen"
  /\ UNCHANGED <<rows, batch, timer, listening, wakeup, notified, aborted,
                 faults>>

-----------------------------------------------------------------------------
\* onNotification.
Notification ==
  /\ notified /\ socket = "listening"
  /\ notified' = FALSE
  /\ Wake
  /\ UNCHANGED <<rows, batch, timer, listening, socket, connection, borrowed,
                 aborted, faults>>

\* The connection to the server breaks; what was on its way is lost.
LoseConnection ==
  /\ socket \in {"open", "listening"}
  /\ Fault
  /\ socket' = "lost"
  /\ notified' = FALSE
  /\ UNCHANGED <<rows, loop, connection, pending, borrowed, aborted>>

\* Mutant: the handler does not ask whose connection it is.
DisconnectAny ==
  /\ socket = "lost"
  /\ connection' = FALSE
  /\ socket' = "none"
  /\ borrowed' = borrowed - 1
  /\ Wake
  /\ UNCHANGED <<rows, batch, timer, listening, notified, aborted, faults>>

\* disconnect(), the error or end event: ignored unless this client is
\* this.connection, else the client is released and the loop woken.
Disconnect ==
  /\ socket = "lost" /\ connection
  /\ connection' = FALSE
  /\ socket' = "none"
  /\ borrowed' = borrowed - 1
  /\ Wake
  /\ UNCHANGED <<rows, batch, timer, listening, notified, aborted, faults>>

\* SIGTERM: the abort listeners of wait() and delay() end them.
Abort ==
  /\ ~aborted
  /\ aborted' = TRUE
  /\ place' = IF place \in {"parked", "degraded"} THEN "listen" ELSE place
  /\ UNCHANGED <<rows, batch, timer, listening, wakeup, notified, faults>>

\* close(): forget the connection and UNLISTEN.
Close ==
  /\ place = "closing"
  /\ connection' = FALSE
  /\ place' = IF connection THEN "unlistening" ELSE "closed"
  /\ UNCHANGED <<rows, batch, timer, listening, socket, pending, borrowed,
                 notified, aborted, faults>>

\* Mutant: close() waits for an UNLISTEN that a lost connection never answers.
UnlistenedByServer ==
  /\ place = "unlistening" /\ socket = "listening"
  /\ socket' = "none"
  /\ notified' = FALSE
  /\ borrowed' = borrowed - 1
  /\ place' = "closed"
  /\ UNCHANGED <<rows, batch, timer, listening, connection, pending, aborted,
                 faults>>

\* UNLISTEN answered or failed; the client is released either way.
Unlistened ==
  /\ place = "unlistening"
  /\ socket' = "none"
  /\ notified' = FALSE
  /\ borrowed' = borrowed - 1
  /\ place' = "closed"
  /\ UNCHANGED <<rows, batch, timer, listening, connection, pending, aborted,
                 faults>>

-----------------------------------------------------------------------------
\* A transaction of the API inserts an event.
Enqueue(e) ==
  /\ status[e] = "absent"
  /\ Write(e, "free", EnqueueDelay)
  /\ UNCHANGED <<loop, wakeup, aborted, faults>>

\* Another worker claims an event; it may die and let the claim expire.
ForeignClaim(e) ==
  /\ e \in Claimable
  /\ Fault
  /\ Write(e, "foreign", ClaimLease)
  /\ UNCHANGED <<loop, wakeup, aborted>>

\* It records a failed attempt, or publishes the event.
ForeignFinish(e) ==
  /\ status[e] = "foreign"
  /\ \/ Write(e, "free", Backoff)
     \/ Write(e, "published", 0)
  /\ UNCHANGED <<loop, wakeup, aborted, faults>>

\* A tick is long against the way from nextWakeDelay to setTimeout.
Tick ==
  /\ place # "wait"
  /\ avail' = [e \in Events |-> IF avail[e] > 0 THEN avail[e] - 1 ELSE 0]
  /\ timer' = IF timer > 0 THEN timer - 1 ELSE 0
  /\ UNCHANGED <<status, batch, place, listening, wakeup, notified, aborted,
                 faults>>

Loop ==
  \/ Listen \/ Acquire \/ ServerListens \/ Connected \/ ConnectFails
  \/ Claim \/ Processed \/ AskDelay \/ Wait \/ Timeout \/ Close \/ Unlistened
  \/ \E e \in Events : Publish(e)

Outside ==
  \/ AcquireFails \/ ProcessorFails \/ Notification \/ LoseConnection
  \/ Disconnect \/ Abort
  \/ \E e \in Events :
       RecordFailure(e) \/ Enqueue(e) \/ ForeignClaim(e) \/ ForeignFinish(e)

Next == Loop \/ Outside \/ Tick

\* The event loop runs what is ready and time passes.  Nothing is assumed of
\* deliveries: a lost connection may stay unnoticed.
Fairness == WF_vars(Loop) /\ WF_vars(Tick)

Spec == Init /\ [][Next]_vars

FairSpec == Spec /\ Fairness

-----------------------------------------------------------------------------
\* A sleeping worker never sleeps past the moment a row becomes available,
\* whatever was inserted, released, claimed or expired since it asked: the
\* timer ends first, or a notification is on its way, or the connection is
\* lost and the fallback applies (nextWakeDelay, pending, the trigger).
NeverOversleeps ==
  place = "parked" =>
    \/ notified
    \/ socket = "lost"
    \/ \A e \in Waiting : timer <= avail[e]

\* wait() is never entered without a listener: it always finds the connection
\* the loop made, or the pending flag its loss has left, so its own listen()
\* never has to reconnect in a place an abort cannot reach.
WaitFindsListener ==
  /\ place # "stuck"
  /\ place = "wait" => connection \/ pending

\* After SIGTERM the worker is in no sleep, and enters none.
NoSleepAfterAbort == aborted => place \notin {"parked", "degraded"}

\* Every client is released exactly once, whichever of a rejected LISTEN, an
\* error or end event and close() comes first, and none is kept at the end.
ClientsAccounted ==
  /\ borrowed = IF socket = "none" THEN 0 ELSE 1
  /\ place = "closed" => borrowed = 0

\* The wait and its connection: no variable leaves its type, no wait without a
\* listener, none after the signal, no client leaked.
ListenerInvariant ==
  TypeOK /\ WaitFindsListener /\ NoSleepAfterAbort /\ ClientsAccounted

\* An available event is processed, even if the listener's connection is lost
\* and nothing tells the worker; only a shutdown excuses it.
EventuallyProcessed ==
  \A e \in Events : status[e] = "free" ~> (status[e] = "published" \/ aborted)

\* A worker told to stop closes its listener.
ShutdownCompletes == aborted ~> place = "closed"
=============================================================================
