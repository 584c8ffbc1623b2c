# shopport-be: formal models

TLA+ models of the shopport backend, checked with TLC on small instances and
proved with TLAPS for every value of the constants.  The reference is the code
under `src/`; `PROJECT.json` maps every definition to the lines it models.

## 1. The system

A NestJS API, an outbox worker, a maintenance worker and an image-processing
lambda share one PostgreSQL database and one S3 object store.  Processes talk
through rows (and `LISTEN/NOTIFY` as a hint), the lambda answers through SQS.
No process keeps state that survives a restart; every guarantee rests on
conditional SQL updates and on being repeated.

| Component | State it keeps | Operations | Talks to |
|---|---|---|---|
| AI run lifecycle (`modules/ai/ai.repository.ts`, `ai.service.ts`, `ai-stream-lifecycle.ts`, `ai-run-maintenance.repository.ts`) | `ai_runs` row (status, heartbeat, deadline, `stream_closed_at`), messages; in memory: terminal state, abort signal, timers | begin, stream, poll cancellation, renew lease, complete, fail, cancel, recover | client (SSE), provider, worker |
| AI run replay (`postgres-stream-durability.ts`, `ai.controller.ts`) | `ai_run_events`, a reader's cursor | append, read a page, test for the end, close | run lifecycle, clients |
| AI provider protocol (`ai-provider-protocol.ts`, `openai-compatible-ai.adapter.ts`, `ai-tools.ts`, `shopping-deep-mode.ts`) | one turn's assessment, recommendations, question and tool session | force a tool, run a tool, decide what may be stored | language model, catalog |
| Outbox (`worker/outbox.processor.ts`, `outbox-runner.ts`) | `outbox` rows (attempts, next attempt, lock), a worker's batch | enqueue, claim, process, publish, record a failure | object store, delete operations |
| Outbox wakeup (`worker/outbox-wakeup.ts`) | listener connection, pending flag, one waiter | listen, wait, close, notification, disconnect | PostgreSQL `NOTIFY` |
| Assets (`modules/assets`, `image-processor.ts`, `asset-result.consumer.ts`) | `assets` row, raw and normalised objects, result messages | create upload, normalise, consume result, delete, purge | lambda, SQS, outbox |
| Archive (`modules/archive`, `message.loader.ts`) | messages, manifests, S3 objects | archive a batch, verify, read back, page | conversations, purge |
| Auth sessions (`modules/auth`), profile deletion | `auth_sessions` lineages, identities, advisory locks | login, rotate, detect replay, logout | profile deletion, retention |
| Retention (`worker/retention-cleanup.ts`) | none | delete expired sessions, events, published outbox rows, limits | every table |
| Rate limiting (`throttling`) | one row per key | count, block, clean up | every request |
| Conversations, favorites | rows, a client's cursor | create, delete, save, unsave, keyset pages | outbox, archive, catalog |
| Catalog, neutral ranking | `catalog_metadata`, the shops' lists | page, budget, rank, ask for stock, upsert | shops, AI tools, favorites |
| HTTP/GraphQL shell, request parsing, configuration, object-store client | none | wiring | everything |

What is hard, and what makes each part correct:

- **AI runs.**  Four writers of one row (producer, client, worker, and a second
  producer after a restart) with no lock held between statements; timer
  callbacks applied after the stream stopped; crashes and lost commit
  acknowledgements anywhere.  Correct: one decision per run, an answer exactly
  when it is "completed", no terminal chunk that contradicts the database, a
  cancel reply that stays true, no reservation left for ever.
- **Replay.**  A reader polls with two statements per round while the producer
  appends, cancellation or recovery closes the stream and events expire.
  Correct: a replay of a finished stream delivers all of it, the end of a
  replay means the run is decided, and every replay ends.
- **A turn.**  A language model that may call anything, three places of the
  code that read the same state to force, refuse and accept, and budgets of
  five model calls and six catalog calls.  Correct: no forced call that can
  only be refused or fail, unless a search has failed before, no answer without
  its findings recorded, no model call after an accepted question, and the
  budget suffices.
- **Outbox.**  Claims that expire under a working worker, crashes between an
  effect and its record, batches, poison events.  Correct: an effect is
  complete before the event is published, counts and reports happen once, an
  event that can succeed is published.
- **Wakeup.**  Callbacks between the awaits of one loop, a connection that is
  lost before the process learns of it.  Correct: no sleep past the moment a
  row becomes available, no leaked client, no wait an abort cannot reach.
- **Assets.**  Uploads, normalisation, results and deletion in any order, each
  repeated or failing.  Correct: after a deletion no object survives, a status
  never flips, a ready asset has its image.
- **Archive.**  Messages move from the table to S3 while clients page and the
  purge deletes both.  Correct: no message lost, none twice, no hole in a page,
  and a deadlock of writer and purge is overcome.
- **Sessions.**  Rotation, replay, logout, account deletion and retention race
  in a lineage, two of them without the lock of the others.  Correct: after a
  logout or a detected replay no session of the lineage works, a token is
  exchanged once, retention keeps what a later logout has to find.
- **Rate limits.**  One upsert that reads the clock seven times, blocks that
  outlive windows, a cleanup on another clock.  Correct: a bounded burst, a
  block that lasts as told and no longer, and none that nobody earned.
- **Lists and searches.**  Pages whose rows come and go, cursors that lose
  precision, upserts that lock rows in different orders.  Correct: a walk
  returns each row once, newest first and all that stayed; every search ends.

The full list of hazards, with lines and the properties that answer to them,
is `hazards` in `PROJECT.json`.

## 2. Modules

| Module | Models | Uses |
|---|---|---|
| `RunLedger` | what the `ai_runs` and `messages` tables promise about a run (abstract) | |
| `AiRun` | the run lifecycle: every writer of the row | instances `RunLedger` |
| `AiReplay` | event log readers, composed with `AiRun` | `AiRun` |
| `ShoppingTurn` | one turn of the agent loop: tools, budgets, forced choices | |
| `Outbox` | outbox rows, the delete operations that write them, the workers | |
| `OutboxWakeup` | the worker's loop, its listener, sleep and shutdown | |
| `AssetLifecycle` | asset, objects, processor, result consumer, purges | |
| `Archive` | messages between table and archive, a page, the purge | |
| `AuthSession` | sessions: login, refresh, logout, account deletion, retention | |
| `RateLimit` | one key's row under requests and cleanup | |
| `Connections` | a walk through conversations or saved products | |
| `NeutralRanking` | the comparison of products, the sort (pure), and the documented order | |
| `CatalogSearch` | searches of a shop side by side, and their upserts | `NeutralRanking` |
| `ShoppingTurnProofs`, `OutboxProofs`, `OutboxWakeupProofs`, `AssetLifecycleProofs`, `CatalogSearchProofs` | theorems about the module they are named for | |
| `AiProofs` | theorems about `AiRun` and `AiReplay` | |
| `AccessProofs` | theorems about `AuthSession` and `RateLimit` | |
| `ConversationProofs` | theorems about `Archive` and `Connections` | |
| `MC...` | the instances TLC checks | |

`RateLimit` and `Connections` are proved about beside another module, so their
next-state relations and types have names of their own (`RateNext`, `WalkNext`).

Operators whose comment begins with "Mutant" are plausible bugs of the
operator that follows.  No action uses them: substituted for it, each makes
the property `PROJECT.json` pairs it with fail, which shows that the property
can tell the code from a broken one.

How the models meet: `AssetLifecycle` and `Archive` say what the phases of an
`Outbox` effect do, and take from it that an effect is repeated until it
succeeds; `OutboxWakeup` says when a worker looks, and knows of an event only
when it is available.  `ShoppingTurn` is what happens in a run of `AiRun`
between its first chunk and `onFinish`, and its searches are those of
`CatalogSearch`; the products these store are what `Connections` saves.


### AiRun

One action per SQL statement, transaction or callback.  `pc` is where the
producer's promise chain is (`AiService.start`, then `chat()` with
`createLifecycleMiddleware`, then `createPublicStream`); `terminal`, `abort`,
`gone`, `poll` and `renew` are the memory it shares with its timers.

| Actions | Code |
|---|---|
| `BeginRun`, `StartStream`, `FailRunAndClose` | `AiService.start`, `beginRun`, `failRunAndClose` |
| `PollCancellation`, `ApplyPoll` | `pollCancellation`: query, then callback |
| `RenewLease`, `CheckLostLease`, `AbortLostLease` | the renewal timer and its rejection handler |
| `OverallTimeout` | the overall timeout of the middleware |
| `ForwardChunk`, `ConsumerReturns`, `FinishSource`, `FailSource`, `AbortSource` | `next`, `return` and the hooks |
| `CompleteRun`, `FailRun`, `EmitTerminal`, `CloseStream` | `completeRun`, `failRun`, the terminal chunk, `close` |
| `CancelRun`, `ReportCancel` | the two statements of `cancelRun` |
| `RecoverStaleReservedRuns`, `Tick` | the worker's recovery, time |
| `Crash` | the API process dies |

`age` is the time since `heartbeat_at`.  Both writers of the row set
`deadline_at` to the heartbeat plus the lease, so one number stands for both
columns.  Recovery's `FOR UPDATE SKIP LOCKED` is over-approximated: any set of
rows may be locked.  Two queries that a read-committed transaction does not
make atomic are two actions.

Simplifications, each with its reason:

- `CompleteRun` joins the commit, the await of the title update (it is bounded
  by the provider's timeout and never rejects) and the change of `terminal`:
  no other process reads `terminal`, and a crash in between is the `Crash`
  that follows with the row completed.
- A second POST of a run inserts nothing and is answered 409: no step.
- The AI library is external.  Assumed of it: exactly one of `onFinish`,
  `onError`, `onAbort` is called, an abort ends the source, a chunk is appended
  to the event log before the next one is requested, `close` is called at the
  end.
- A renewal in flight takes no time: its answer may still be applied late.
- Clocks of the processes agree.
- Rows disappear only when a conversation or an account is purged, long after
  its runs; that purge is in `Archive`.

### AiReplay

`ReadPage` is the page query (ids above the cursor, not expired, `LIMIT`),
`CheckClosed` the second query, made only after an empty page, and the delay.
`StartReplay` admits a replay within an hour of the run's start, `ExpireEvent`
hides the oldest event.  AiRun's steps interleave with these.

### Outbox

`Claim` is the claim transaction, `Effect` one phase of `processEvent` (objects,
then the archive prefix, then the rows, as far as the topic has them), `Publish`
the update that sets `published_at`, `RecordFailure` the catch block, and
`Enqueue` the insert in a delete operation's transaction.  A worker keeps its
batch with the attempt counts it read.  Times are differences from now: `due`
counts down to a floor that keeps the order of older events, so that
`ORDER BY next_attempt_at` is modelled without unbounded time.  `Claim` may find
any set of rows locked (`SKIP LOCKED`).

Left out: which objects an effect deletes (`AssetLifecycle`, `Archive`), how long
the loop sleeps (`OutboxWakeup`), and the deletion of published rows by
retention.  Events of `Poison` never succeed.

### AuthSession

A request is a transaction in `rotateSession` or `revokeSession` (or a login's
two); each statement, and each wait for a lock, is an action.

| Actions | Code |
|---|---|
| `BeginLogin`, `CreateSession` | `findOrCreateAccount`, then `createSession` in a statement of its own |
| `BeginRefresh`, `BeginLogout` | the first read, without a lock |
| `TakeLock` | `pg_advisory_xact_lock` on the account |
| `LockSession`, `LockAccount` | the second read `FOR UPDATE`, which locks the session's row and, being a join in a refresh, the account's |
| `Rotate`, `Reject` | a new session; an expired one or a wrong secret (always possible) |
| `WalkLineage`, `RevokeLineage` | the recursive query in the update's snapshot, then the rows it found and the commit |
| `MarkDeleted`, `CommitDeletion`, `PurgeAccount` | `deleteAccount`'s two updates, the purge event |
| `Cleanup` | the retention job |
| `Abort`, `AbortDeletion`, `BreakDeadlock` | rollbacks, PostgreSQL's deadlock detector |

The walk and its update are one SQL statement, but not one moment: rows
inserted after its snapshot are not seen.  `Reach` says what a recursive query
finds without recursion, as the least set closed under `replaced_by_session_id`;
`Lineage` is the same over all sessions ever issued and is what the properties
speak of, since a deleted row must not hide what follows it.  `ended` is a
history variable: the tokens that were logged out of or replayed.

Simplifications: a login's identity lock makes `findOrCreateAccount` one step;
deletion's update of the sessions and its commit are one step; retention takes
any subset of what it may delete, for the `LIMIT`.  Deadlocks of several session
rows (logout against retention or deletion) end like the one that is modelled
and are covered by `Abort`.  Access tokens live 15 minutes, against 30 days of
the session, so a session counts as of use until it expires.  Hash collisions of
advisory locks would only make more requests wait.


### ShoppingTurn

A turn is `createStream` around the library's agent loop: `CallTools` and
`Answer` are what the model may respond, the tool actions run the calls of a
response one after the other, `ToolsDone` asks `onShouldContinue`, and
`Answer` ends in `providerStreamResult`.

| Definitions | Code |
|---|---|
| `NextToolChoice`, `WantsSearch`, `RecommendationsComplete` | `nextToolChoice` and what it reads, in the adapter and the protocol |
| `AssessShoppingAmbiguity`, `AskUser`, `RecordProductRecommendations` | the tools of the adapter |
| `SearchProducts`, `GetProduct` | the tools of `ai-tools.ts`, with the session's budget and its exhausted shops |
| `Recordable`, `StreamResult` | `matchesExpectedProducts`, `providerStreamResult` |

The model is not trusted: any calls in any response, up to `MaxBatch` of them,
whatever was forced.  A shop may answer nothing or fail at every call; what a
search adds comes in any order, since ranking is `NeutralRanking`'s matter.
`seen` observes cards shown, the last list recorded and what a model did other
than the forced call.

`ForcedChoiceIsAcceptable` looks at all that a forced tool looks at: the
assessment, the products found, and for a search the session, which must have a
shop that was not given up (`ShopLeft`) and a call of the budget left.  It
excepts the states in which the code does force a call that can only fail: a
request first searched for and then assessed as no shopping request (the
recording is still forced and always refused); more products found than the
schema lets the model record; a search of this turn that failed, after which no
shop may be left to ask (see the notes under Findings); and two wasted calls, since look-ups take calls of
the same budget.  `OneMisstepIsSurvived` excepts a turn with a failed search, or
whose model strayed from what was forced or wasted more than one call.

A question does not stop the response that asked it: its other calls still run,
and only then does the loop end.

### OutboxWakeup

One worker process.  `Loop` is the code of `runOutboxWorker` between two awaits
(`place` says which): listen, process, ask for the delay, wait, sleep degraded,
close.  `Outside` is everything else: inserts, other workers' claims and
releases, notifications, the loss of the connection, its `error` and `end`
events, and SIGTERM.  The socket and `this.connection` are two variables, since
the server stops delivering before the process learns of it.  Times are what
is left of them.  An event is only its availability here; a
batch is processed event by event with a success or a failure.

Left out: the report of errors, the startup of the process, and the few
milliseconds between the database's clock and the worker's.

### AssetLifecycle

One action per SQL statement, object store call and queue call of
`createUpload`, the lambda (`GetRawObject`, `PutNormalizedObject`, `SendReady`,
`ProcessorCatches`, `SendRejected`), the consumer (`Receive`, `Update`,
`CheckExisting`, `RemoveOrphan`, `Acknowledge`), the three deletions
(`DeleteAsset`, `DeleteScope`) and the purges (`BeginPurge`, `DeleteObject`,
`EndPurge`, `PurgeFails`).  A message stays in `queue` until it is acknowledged
and may be received again any time before.

Deletions enqueue with the delay their statement computes; the wait and the
retries of a purge are all that is kept of the outbox.  `trouble` names what the
code leaves open: a run that *rejected* an image it may already have stored (the
catch block covers the whole run), one that *died* before it reported, and a
ready result that *raced* a conversation's purge.  `NoOrphanNormalized` says
that nothing else leaves an object behind.

Left out: the binding of assets to messages, the daily quota, and the bytes of
an image (an image is refused or accepted at will).

### Archive

`Select`, `Put`, `Verify` and `Commit` are the transaction of `ArchiveWriter`;
`WriterFails` may end it at any step, and `LatePut` is a put whose writer had
given up.  `Reader` is the message page: the table (`ReadTable`), the archive
below it (`ReadArchive`), the parts (`ReadParts`).  `Purger` deletes the
prefix, waits for the writer's rows, and deletes the rows; a deadlock of the two
is broken by failing one (`DeadlockKillsWriter`, `PurgeFails`).

An object is its key and its content, which the checksum ties together: it is
the set of its messages.  Which 90 days have passed is `old`.

Excused: a page during whose reading the archive writer committed (*crossed*)
may name a message twice or show one without parts, and a writer that worked
while prefix and rows were deleted (*overlapped*) may leave an object.  Both are
in the code: the page is three statements without a snapshot, and the writer
does not look at `deleted_at`.

### RateLimit

`Increment` is the upsert of `postgres-throttler.storage.ts` and the guard's
answer; its seven readings of `clock_timestamp()` are a non-decreasing sequence
over at most a tick (`Readings`, `Upsert`).  `CleanupRow` is retention's deletion
by the worker's clock, up to `Skew` ahead.  One row suffices, as keys share
nothing.  The observers `asked`, `admitted` and `early` count the requests, and
the rows deleted before their window ended, within the last n ticks.

Excused: a block is shortened by at most `Skew`; a request counted in the
instant its window ended makes the next window's count start higher (*carried*);
and a row deleted *early*, on a clock that is ahead, lets the client begin again.
`BurstIsBounded` adds the limit for each of these, and one for the instant.

### Connections

`Begin`, `List`, `Answer` are a client's walk, `Writes` inserts, deletes, saves
and saves again.  A conversation carries a time of the API in milliseconds, set
before its insert; a saved product the database's in microseconds, of which its
cursor (`Cursor`) keeps the milliseconds.  `request` is a request between its
two queries.  `Listed` and `Edges` are the lists a page may be: sets, described
by their order rather than computed, of which the theorem `OnePage` shows that
`Listed` has exactly one element.

Excused, all of them behaviour of the code: rows *hidden* because a cursor
cut to milliseconds passes over later saves of the same millisecond, products
*dropped* for want of a snapshot, and a promised page whose only row was
*removed* in between.

### NeutralRanking and CatalogSearch

`NeutralRanking` is `compareProduct`, key by key, `Ranking`, the stable sort
`rankProducts` makes with it (each product goes to the place that the number of
those before it says), and `Better`, the documented order.  `CatalogSearch` composes it with searches side by side: `Ask` and
`AskTool`, `Fetch` (a page of the shop, one of `Pages`, then filter, rank, cut),
`Inventory` (the calls of a chunk in any order, each with an outcome of `Settled`), `Lock` and `Commit` (the upsert, row by row) and
the failures.  The times of a search's answers are relative to its page's and
come in any order.

Excused: a walk whose client changes the page size (*uneven*), which shifts the
shop's offsets.  Left out: what the shops' fields are mapped to, Olive Young's
stock (it comes with the page) and the list of allowed URLs.  The shop's list
stands still during a walk: if it moves, no server can keep offsets right.

## 3. Runs

| Run | Shows | Bounds |
|---|---|---|
| `aireplay_safety` | verdicts, replies, replay contents, the refinement of `RunLedger`; reservations are decided, streams close, replays end | 1 run, 1 replay, lease 1, heartbeat limit 1, 1 chunk, pages of 2, 1 failed call or crash |
| `airun_cancel_race` | finding 1 | 1 run, lease 2, limit 3, no failed call |
| `aireplay_tail` | finding 2 | 1 run, 1 replay, 2 chunks, no failed call |
| `turn` | what is stored, shown and asked stays within what was found, selected and assessed; forced calls can be accepted; the budget suffices | 3 products, 2 shops, 2 dimensions, 5 model calls, 3 catalog calls, 2 recordable products, batches of 2 |
| `outbox_safety` | effects before publication, counts, reports; an event that can succeed is published | 3 events (2 poison), 2 workers, batches of 2, claims of 1 tick, 1 phase, 2 attempts, reported at 1, 1 fault |
| `wakeup` | no missed wake-up, no leaked client, shutdown; events are processed without notifications | 2 events, enqueue delay 4, backoff 1, claim 3, fallback 2, degraded 1, 3 faults |
| `asset` | objects against rows, status, everything settles | 1 asset, 2 consumers, URL life 2, purge delay 3, 1 delivery, 1 fault |
| `archive` | messages and objects together, pages, progress | 4 messages, pages of 3, groups of 3, 1 fault |
| `authsession_safety` | ended lineages, one exchange per token, deletion, retention; requests end | 1 account, 3 sessions, 1 login, 2 requests, lifetime 3, retention 4 |
| `rate_limit` | bursts, blocks, retries | window 3, limit 3, block 3, skew 1, 12 requests remembered |
| `connections` | a walk: order, completeness, end | 3 rows, 2 instants a millisecond, pages of 2, lag 2, 4 instants |
| `catalog` | answers, a viewer's walk, deadlocked upserts | 2 products of one price or two, a list that may repeat one, a budget, pages of 2, chunks of 1 |

Why these bounds are enough.

- *AI runs and replays.*  Runs share nothing but `messages.run_id`, the worker's
  transaction and the fault budget, so a single run meets every race of the
  producer, its timers, the client, the worker and a crash.  The safety
  properties are proved for any number of runs, readers, chunks and faults; the
  run is what shows the liveness.  Larger instances (two runs on one
  message, two failed calls) were checked and left out for their length.
- *Turn.*  Three products and two recordable ones let a turn find too many;
  three catalog calls run out before five model calls do; one product per
  search makes a second search of a shop find more.  Batches of two put a
  second call behind one that changes the state.
- *Outbox.*  Two poison events fill a batch of two, which is what could starve a
  healthy one; a claim of one tick is lost in mid-effect.  The theorems cover
  every other number.
- *Wakeup.*  The order of the delays is the code's (degraded < fallback <
  enqueue); two events are what it takes for one to be earlier than the one the
  timer was set for.
- *Assets.*  Assets share only a scope's purge, which treats them one by one;
  two consumers let one result be handled twice side by side.  The URL's life
  is below the purge's delay by a tick, as 10 minutes are below 15.
- *Archive.*  With four messages and groups and pages of three, a page straddles
  table and archive, and a second group exists.
- *Sessions.*  Accounts share no lock and no row, and lineages only the account's
  lock, so one login (`MaxLogins`) is enough; that leaves three ids to one
  lineage, where a token could be exchanged twice, fork the lineage, or be
  exchanged by its third session while the first falls due for deletion.  Two
  transactions are what a missing lock would let overlap, with the deletion and
  retention as further actors.  Two and three logins were checked with a
  lifetime of two and without the liveness, and the theorems hold for any number.
- *Rate limits.*  A window of three ticks has a beginning, a middle and an end;
  with a limit of three, requests can fall on both sides of a row deleted early
  and of a window's end; a limit of two had hidden that the first matters.
- *Lists.*  Three rows make two pages of two and, with two instants a
  millisecond, a pair that a cursor confuses.  Two products are what two
  upserts need to lock in different orders.

Deadlock detection is off in runs of systems that may stop: all events
published, everything purged, the worker closed, the turn or the walk over, all
session ids used up.  The AI runs, rate limits and connections
cannot stop and keep it.  No run uses symmetry, since most check liveness.

### Findings

1. **`airun_cancel_race`.**  `cancelRun` updates `WHERE status = 'reserved'`
   and, when it updates nothing, reads the row in a second statement.  Under
   READ COMMITTED a `beginRun` may commit in between: the second statement sees
   a reserved row and answers "failed" for a run that goes on streaming.
2. **`aireplay_tail`.**  `read` tests `stream_closed_at` after an empty page.
   If the last chunks are appended and the stream closed between the two
   statements, the replay ends without the run's RUN_FINISHED.  The client can
   only find out by asking again.  What does hold is in `EndedReplayIsRight`: a
   replay admitted after the close is complete.

`RunsComplete` and `ReplayEnds` except the `Stranded` runs: a run decided by its
producer, which died or whose `close` failed before `stream_closed_at` was
written.  Recovery looks at reserved rows only, so nothing ever closes that
stream and its replays poll until their clients leave.

Noticed while modelling (all but the `isSaved` loader are in the models, as
what the code does):

- Saved products of one millisecond can be passed over by a cursor (`Hidden`),
  although `hasNextPage` promised them.
- A page of saved products none of which has a snapshot has no `endCursor` while
  `hasNextPage` is true: the client cannot go on (`stuck`).
- `isSaved` is answered by a loader that lives for one request, so a mutation and
  a query in one document can disagree.
- A search that no shop answered does not count as made.  Once every shop the
  user selected has failed twice, `nextToolChoice` goes on forcing
  `searchProducts`, which throws at once (`ai-tools.ts:34-49`), until the model
  calls are used up, and `providerStreamResult` drops a text given instead: the
  turn ends in an error, as the adapter's test of exhausted providers has it.
  `shopping-ai-harness.md:47` has the model say that the shop could not be
  looked up.

### Fairness

- `AiRun`: `setInterval`/`setTimeout` callbacks run (`OverallTimeout`), awaited
  calls settle (`CompleteRun`, `FailRun`, `EmitTerminal`, `CloseStream`,
  `StartStream` or `FailRunAndClose`), an abort ends the source (`AbortSource`),
  time passes and the worker's loop comes round with the rows unlocked.  Nothing
  is assumed of the provider (`ForwardChunk`, `FinishSource`, `FailSource`), of
  clients, of the poll, of renewals or of crashes.
- `AiReplay`: the replay loop keeps querying.
- `Outbox`: time passes; calls settle (a phase succeeds or fails); a worker
  claims whenever rows are ready again and again.  The last is strong fairness
  because ready rows can be claimed by another worker in between; the locks of
  `SKIP LOCKED` are held for one transaction.  The number of faults is finite.
  `HealthyPublished` supposes that claims are not `Overtaken` for ever: an
  effect that outlasts its claim can be taken over again and again, each worker
  finding its claim gone when it is done.  The code has no renewal of a claim
  that would exclude it.
- `OutboxWakeup`: the event loop runs what is ready, and time passes.  Nothing is
  assumed of notifications or of the events that tell of a lost connection.
- `AssetLifecycle`: every upload's event is delivered once at least, every
  result is received in the end, the lambda, the consumers and the purges go on,
  time passes.  Nothing of clients.
- `Archive`: the maintenance loop archives again and again, a page's reading and
  the purge go on.
- `AuthSession`: statements complete, PostgreSQL grants a lock to those that wait
  for it (strong fairness of `TakeLock`, `LockAccount` and `CommitDeletion`: the
  lock may be taken and released by others meanwhile) and breaks deadlocks.
  Nothing is assumed of clients, deletions, retention or time.
- `Connections`: requests are answered, and a client that can go on does.
- `CatalogSearch`: calls settle, a row lock is granted to those that wait in turn
  (strong, as other statements may take it in between), and PostgreSQL
  fails a statement that deadlocks or repeats a row.

`ShoppingTurn` and `RateLimit` have no liveness: a turn is bounded by its
iterations, which `OneMisstepIsSurvived` is about, and a limit waits for nobody.

## 4. Proofs

All theorems hold for every value of the constants that satisfies the modules'
named assumptions (any number of runs, replays, events, workers, accounts,
sessions, requests and products; any lease, delay, page, batch or fault budget).

- **`AiProofs`, runs.**  None of the properties is inductive alone: that a logged
  RUN_FINISHED is true needs that `terminal = "succeeded"` is only believed of a
  completed row, which needs that an answer and a completion are one
  transaction.  `Inductive` adds `AnswerIffCompleted`, `BeliefIsRecorded` (a
  cancellation or success is believed only when the row records it, along every
  path that carries the belief: poll, renewal, abort, terminal),
  `PlaceFitsStatus` and `VerdictBeforeClose`.  Each conjunct has a step lemma
  with one case per action that touches it.  From it follow `TypeCorrect`,
  `VerdictsAreTrue`, `ProducersDecide`, `RepliesAreHonoured`,
  `ClosedStreamsHaveVerdicts`, and `RunsImplementTheLedger`: every step of the
  detailed model is a step of `RunLedger` or leaves its variables alone.
- **`AiProofs`, replays.**  `ReplayInv` strengthens `EndedReplayIsRight` with what a
  reader that has found an empty page of a sealed run knows: its cursor is the
  end of the log, or the hour is over.  It rests on `Inductive`, on the log only
  growing, and on a sealed run staying sealed.
- **`OutboxProofs`.**  `Inductive` adds `PhasesDone` (a worker has done the
  phases before the one it is at, whoever else works on the event),
  `ClaimIsFresh` (while a claim is held, the attempt count read with it is
  current, although it is written minutes later) and `ReportsCounted`.
  `ClaimIsFresh` is why losing a claim is harmless: counts change only under a
  held claim, and taking a claim over ends the earlier one.
- **`OutboxWakeupProofs`.**  What makes a sleep safe is known at different
  places.  `ClientHasOwner` and `ListenerIsKnown` tie socket, connection and
  pending flag together at every place of the loop; `SleepIsShort` says that the
  answer of `nextWakeDelay` bounds every row's time unless a notification, the
  pending flag or a lost connection makes up for it, from the query to the timer.
  `WorkersNeverOversleep` and `ListenerIsKept` follow.
- **`AccessProofs`, sessions.**  A lineage changes only at its end, by the rotation of
  a session of use (`LineageMoves`, `UsableShrinks`), so a lineage with nothing
  of use stays as it is.  What remains is that a logout leaves such a one.  Its
  walk goes through the rows that exist: `WalkReaches` shows that it finds a
  descendant when every ancestor of it has its row, `RowsKept` that retention
  and purges delete a row only when its whole lineage has run out, and
  `LocksHeld` that between walk and update no other transaction rotates in the
  account (`WalkIsWhole`).  Deletion does not take that lock; there
  `SuccessorsFit` (only revoked sessions have a successor) and the account's row
  lock of the refresh do the work.
- **`AccessProofs`, rate limits.**  `BlocksAreKept`: a block and what the guard told the
  client run down together, and no branch of the upsert, whichever instants its
  seven readings are, shortens a running one; a client that waited finds
  neither a running block nor a full window, because no limit's block is shorter
  than its window (`RateAssumption`).  `BurstsAreBounded` follows from two
  accounts: what was admitted since the row's window began is counted by `hits`
  (`AdmittedInWindow`), and what was admitted before it is bounded by the limit
  and by the rows deleted early (`AdmittedBefore`), the place where an upsert
  begins a new window handing one over to the other.  `RefusalsAreEarned` rests on
  `AskedInWindow`, which says the same of what was asked.
- **`ShoppingTurnProofs`.**  `Inv` fits the turn's objects together: in a
  text turn an assessment is required from the start, a request that is no
  shopping request has nothing to clarify, and a question is asked only by the
  response at hand.  `ForcedChoices` splits `nextToolChoice` into its cases and names an
  accepted input for each; that a forced search can be made, with
  `MaxToolCalls >= 2` assumed, is `SessionInv`: until a search succeeds or fails,
  no shop is given up and only look-ups took calls; `ToolsRespect` is an action property by cases;
  `MisstepsAreSurvived` rests on `BudgetInv`, an account of the model
  calls: each is the assessment, the search or the recording, every one of which
  happens once in a turn that follows the choices (`FoundInv`, `ForcedInv`), or
  is the one that may be wasted; four calls leave the fifth, of the
  `MaxIterations >= 5` assumed, for the answer.  `FindingsAreUsed` needs that what was
  recorded is always the beginning of what was found, without a repetition, and
  that the summaries are exactly those of what was recorded (`ListInv`): if each
  product found has its summary, the two lists are of one length.  `CallsInv`
  bounds the catalog calls by the calls of the responses so far, as the types ask.
- **`AssetLifecycleProofs`.**  A raw object is a matter of time: a purge that
  deletes has outwaited every upload URL (`PurgesAreLate`), so what it deleted
  stays deleted (`RawIsAnsweredFor`).  A normalised one is a matter of who
  answers for it: a run, a result nobody settled, a ready row or the asset's own
  purge (`NormalizedIsOwed`), each handing it on to the next, with nothing of it
  left out but what `trouble` names.  `ResultsFit` ties a message to its run and
  to the row, which `DecisionsAreFinal` needs as well.
- **`ConversationProofs`, archive.**  A message is never lost because the groups
  are disjoint and each message is in the table or in one of them (`Counted`).  Objects
  survive a repeated put because keys are first and last messages, and until the
  purge every group is an interval of the messages (`Consecutively`), so that
  equal keys are equal contents (`Kept`).  A page has no hole because what was read
  from the table is an end of the messages (`Reading`) and intervals lie below it.
- **`ConversationProofs`, walks.**  `OrderedInv` says that the request's rows lie below
  the cursor and that a row read before is still there or comes back newer
  (`AgeInv`), which is what saving again does.  `StayInv` follows a row that stayed:
  it is returned, dropped, hidden by the rounding, in the request, below all of
  it, or below the cursor, and no page takes it from one to none of them.
- **`CatalogSearchProofs`.**  `compareProduct` is the lexicographic order of
  eight integer keys (`RankedAsDocumented`), a strict total order of products
  with different ids (`RankingIsTotalOrder`), so that two rankings of
  the same products are the same list (`RankingIsUnique`): the answer does not
  depend on the order in which the shops answered.  `RankingFacts` says that the
  sort of the model permutes the places it is given and ranks them, also when
  a product is named twice.  `Inv` adds what a search is about to save (`Held`) and
  what a walk has returned when it asks for its next page (`Walked`): the list's
  first (page - 1) * first products, which a failed search leaves as they are.

All safety invariants and all action properties of the passing runs are
theorems.  Model-checked only: what holds under fairness (`RunsComplete`,
`ReplayEnds`, `HealthyPublished`, `EventuallyProcessed`, `ShutdownCompletes`,
`AssetsSettle`, `ArchiveProgress`, `RequestsEnd`, `WalkEnds`, `SearchesEnd`),
since TLAPS does not reason about ENABLED.  `Edges`, which like `Listed` is a set
of one list, has that shown by the runs only (a walk ends); that it is never
more than one list no proof needs.

Proving changed three models.  `RateLimit` had a bound on bursts that held for
the two requests per window it was checked with and not in general: with three,
and a worker whose clock is ahead, a row deleted before its window ended admits
more, as the code does.  `Connections`' and `NeutralRanking`'s lists are described
by their order instead of computed by a sort, and `ShoppingTurn`'s by a recursive
function, since the library has no theorem for `SortSeq` and `SelectSeq`.

## 5. Not modelled, and the plan

Not modelled, because they keep no state of their own or are a single statement:
the parsing of AI requests, the HTTP/GraphQL shell, configuration, health
checks, the object-store client, presigned URLs and the text form of cursors,
what the shops' fields are mapped to, retention of published outbox rows and of
events, renaming conversations and the generation of titles, the `isSaved`
loader, the daily image quota and the binding of images to messages.

Possible next, in order of importance:

1. An abstract conversation (one sequence of messages) that `Archive`, and an
   abstract lineage (live or revoked, nothing issued once revoked) that
   `AuthSession`, are shown to implement.
2. The purge of AI runs with their conversation, and retries of one message by
   several runs.
