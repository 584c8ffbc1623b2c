------------------------------ MODULE RateLimit ------------------------------
(***************************************************************************)
(* The rate limit of one client on one handler: its row of rate_limits,    *)
(* written by one upsert for each request, whichever API process serves    *)
(* it, and removed by the worker's cleanup.  Rows do not depend on each    *)
(* other, so one is enough.                                                *)
(*                                                                         *)
(* Times are what is left of them, in ticks: 0 is past (or null).  The     *)
(* upsert reads clock_timestamp() several times, in the order of its       *)
(* expressions, and holds the row meanwhile; time may pass between any two *)
(* of the readings (a tick at most: they are microseconds apart, but the   *)
(* tick may be the one in which a window or a block ends).  The cleanup    *)
(* compares with the worker's clock, which may be ahead of the database's. *)
(*                                                                         *)
(* hits is told apart only up to the first number above the limit, as the  *)
(* guard does.                                                             *)
(***************************************************************************)
EXTENDS Integers

CONSTANTS
  Ttl,       \* the window, in ticks
  Limit,     \* requests per window
  Block,     \* blockDuration || ttl, in ticks
  Skew,      \* how far the worker's clock may be ahead
  MaxAsked,  \* bound: requests remembered
  NoRow

\* Every limit in force blocks for as long as its window (app.module.ts).
ASSUME RateAssumption ==
  /\ Ttl \in Nat \ {0} /\ Limit \in Nat \ {0} /\ Block \in Nat /\ Ttl <= Block
  /\ Skew \in Nat /\ MaxAsked \in Nat
  /\ NoRow \notin [hits : Nat, window : Nat, blocked : Nat]

VARIABLES
  row,       \* hits, window_expires_at, blocked_until
  answer,    \* the guard's last answer: none, admitted, refused
  promise,   \* the time it told the client to wait, counted down
  rude,      \* the client asked again before that time
  asked,     \* observer: requests within the last so many ticks
  admitted,  \* observer: those of them that were admitted
  early,     \* observer: rows that were deleted before their window ended
  carried    \* observer: hits counts a request of an earlier window

rateVars == <<row, answer, promise, rude, asked, admitted, early, carried>>

Rows == [hits : 1..Limit + 1, window : 0..Ttl, blocked : 0..Block]
Spans == 0..Ttl + 1

RateTypeOK ==
  /\ row \in Rows \cup {NoRow}
  /\ answer \in {"none", "admitted", "refused"}
  /\ promise \in 0..Block
  /\ rude \in BOOLEAN
  /\ asked \in [Spans -> Nat]
  /\ admitted \in [Spans -> Nat]
  /\ early \in [Spans -> Nat]
  /\ carried \in BOOLEAN

RateInit ==
  /\ row = NoRow
  /\ answer = "none" /\ promise = 0 /\ rude = FALSE
  /\ asked = [n \in Spans |-> 0]
  /\ admitted = [n \in Spans |-> 0]
  /\ early = [n \in Spans |-> 0]
  /\ carried = FALSE

-----------------------------------------------------------------------------
Later(t) == IF t > 0 THEN t - 1 ELSE 0

\* The readings of the clock that matter: 1 hits, 2 the window's end, 3 the new
\* window, 4 the block's end, 5 hits again, 6 the new block, 7 the answer.
\* When p < 7 a tick passes between readings p and p + 1.
Readings == 1..7

Elapsed(i, p) == IF i > p THEN 1 ELSE 0

\* What is left of t at reading i, and at the end of the statement of a time
\* set d ahead of reading i.
Left(t, i, p) == t - Elapsed(i, p)
Until(d, i, p) == d - (Elapsed(7, p) - Elapsed(i, p))

More(n) == IF n > Limit THEN n ELSE n + 1

Hits(i, p) == IF Left(row.window, i, p) <= 0 THEN 1 ELSE More(row.hits)

Window(p) == IF Left(row.window, 2, p) <= 0 THEN Until(Ttl, 3, p)
                                            ELSE Left(row.window, 7, p)

\* Mutant: the request that reaches the limit is blocked.
BlockedAtLimit(p) ==
  CASE Left(row.blocked, 4, p) > 0 -> Left(row.blocked, 7, p)
    [] Left(row.blocked, 4, p) <= 0 /\ Hits(5, p) >= Limit -> Until(Block, 6, p)
    [] OTHER -> 0

\* Mutant: one request too many passes.
BlockedAboveLimit(p) ==
  CASE Left(row.blocked, 4, p) > 0 -> Left(row.blocked, 7, p)
    [] Left(row.blocked, 4, p) <= 0 /\ Hits(5, p) > Limit /\ row.hits > Limit
         -> Until(Block, 6, p)
    [] OTHER -> 0

\* Mutant: the count that decides is not reset with the window.
BlockedByOldHits(p) ==
  CASE Left(row.blocked, 4, p) > 0 -> Left(row.blocked, 7, p)
    [] Left(row.blocked, 4, p) <= 0 /\ More(row.hits) > Limit -> Until(Block, 6, p)
    [] OTHER -> 0

\* A block that is not over is kept as it is; else the count decides anew.
Blocked(p) ==
  CASE Left(row.blocked, 4, p) > 0 -> Left(row.blocked, 7, p)
    [] Left(row.blocked, 4, p) <= 0 /\ Hits(5, p) > Limit -> Until(Block, 6, p)
    [] OTHER -> 0

\* The row after a request: ON CONFLICT DO UPDATE, or the first of its key.
Upsert(p) ==
  IF row = NoRow
  THEN [hits |-> 1, window |-> Until(Ttl, 3, p), blocked |-> 0]
  ELSE [hits |-> Hits(1, p), window |-> Window(p), blocked |-> Blocked(p)]

\* The counts of the last n ticks when a tick passes, and with one more now.
Older(counts) == [n \in Spans |-> IF n = 0 THEN 0 ELSE counts[n - 1]]
AndOne(counts) == [n \in Spans |-> IF n = 0 THEN 0 ELSE counts[n] + 1]

\* A request: increment(), then the guard refuses it while blocked_until is
\* ahead and tells the client how long that is.
Increment ==
  /\ asked[Ttl + 1] < MaxAsked
  /\ \E p \in Readings :
       LET new == Upsert(p)
           now(counts) == IF p < 7 THEN Older(counts) ELSE counts
       IN /\ row' = new
          /\ asked' = AndOne(now(asked))
          /\ early' = now(early)
          /\ IF new.blocked > 0
             THEN /\ answer' = "refused"
                  /\ promise' = new.blocked
                  /\ rude' = (rude \/ promise > 0)
                  /\ admitted' = now(admitted)
             ELSE /\ answer' = "admitted"
                  /\ promise' = 0
                  /\ rude' = FALSE
                  /\ admitted' = AndOne(now(admitted))
          /\ carried' = (/\ row # NoRow /\ new.hits > 1
                         /\ carried \/ Left(row.window, 2, p) <= 0)

\* Mutant: the cleanup looks at the window only.
ExpiredWindow(ahead) == row.window <= ahead

\* What the cleanup takes for over, on a clock this far ahead.
Expired(ahead) == row.window <= ahead /\ row.blocked <= ahead

\* cleanupRuntimeState deletes the row, skipping it while a request holds it.
CleanupRow ==
  /\ row # NoRow
  /\ \E ahead \in 0..Skew : Expired(ahead)
  /\ row' = NoRow
  /\ early' = IF row.window > 0 THEN AndOne(early) ELSE early
  /\ carried' = FALSE
  /\ UNCHANGED <<answer, promise, rude, asked, admitted>>

RateTick ==
  /\ row' = IF row = NoRow THEN NoRow
            ELSE [row EXCEPT !.window = Later(@), !.blocked = Later(@)]
  /\ promise' = Later(promise)
  /\ asked' = Older(asked)
  /\ admitted' = Older(admitted)
  /\ early' = Older(early)
  /\ UNCHANGED <<answer, rude, carried>>

RateNext == Increment \/ CleanupRow \/ RateTick

RateSpec == RateInit /\ [][RateNext]_rateVars

-----------------------------------------------------------------------------
\* However requests, windows, blocks and deletions of the row fall, no span of a
\* window's length sees more admitted than twice the limit and one (a request
\* counted in the old window may pass in the instant the window ends), and the
\* limit again for each row a worker whose clock is ahead deleted too early.
BurstIsBounded == admitted[Ttl] <= 2 * Limit + 1 + Limit * early[Ttl]

\* A refused client stays refused for as long as it was told: neither its own
\* requests, nor the end of its window, nor the cleanup ends the block, except
\* by what the worker's clock is ahead.
BlockIsServed == promise > Skew => row # NoRow /\ row.blocked = promise

\* A client that waits as it was told, without asking in between, is admitted,
\* whichever instants the statement reads.  (One that asks during a block fills
\* a new window with its refused requests and may be blocked again.)
PoliteRetryIsAdmitted ==
  (answer = "refused" /\ ~rude /\ promise = 0)
    => \A p \in Readings : Upsert(p).blocked = 0

\* A refusal and the time it names bind both sides.
BlockIsKept == RateTypeOK /\ BlockIsServed /\ PoliteRetryIsAdmitted

\* A block is imposed only on more than the limit of requests within a window's
\* length (and the tick its statement may take), or where a request was counted
\* in the instant its window ended: its number then goes on in the next window.
RefusedMeansExceeded ==
  [][row' # NoRow /\ row'.blocked > 0 /\ (row = NoRow \/ row.blocked = 0)
       => asked'[Ttl + 1] > Limit \/ carried']_rateVars
=============================================================================
