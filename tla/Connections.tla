---------------------------- MODULE Connections ----------------------------
(***************************************************************************)
(* One viewer walks a list page by page while its rows come and go:        *)
(* conversations (conversation.service.ts, conversation.repository.ts) or  *)
(* saved products (favorites.resolver.ts, favorites.repository.ts).  Both  *)
(* read first + 1 rows below a cursor, newest first, and make the cursor   *)
(* of a row from its time and its id.                                      *)
(*                                                                         *)
(* Times are counted in units of which PerMs make a millisecond.  The API  *)
(* stamps a conversation with new Date(), in whole milliseconds and before *)
(* the row is inserted; PostgreSQL stamps a saved product with now(), in   *)
(* microseconds, of which the cursor keeps the milliseconds.  A page of    *)
(* saved products is read in two steps, the rows and then the snapshots of *)
(* their products: rows older than the snapshot column may have none.      *)
(*                                                                         *)
(* A conversation's title plays no part, so renaming is no action.         *)
(***************************************************************************)
EXTENDS Integers, FiniteSets, SequencesExt

CONSTANTS
  Ids,       \* uuids, in their order: integers
  PerMs,     \* units of a millisecond
  MaxFirst,  \* the most a page holds (50)
  Lag,       \* how long before its insert a conversation may be stamped
  MaxTime,   \* bound: the clock
  None

Times == 0..MaxTime
Rows == [id : Ids, time : Times]
Requests == [first : 1..MaxFirst, rows : Seq(Rows)]

ASSUME ConnectionsAssumption ==
  /\ Ids \subseteq Int /\ IsFiniteSet(Ids)
  /\ PerMs \in Nat \ {0} /\ MaxFirst \in Nat \ {0}
  /\ Lag \in Nat /\ MaxTime \in Nat
  /\ None \notin Times \cup Rows \cup Requests

VARIABLES
  list,     \* which list this is
  clock,
  rows,     \* the time of each row, None where there is none
  gone,     \* conversations that were deleted
  plain,    \* products without a snapshot in catalog_metadata
  client,   \* idle, asking, ended, stuck: a next page and no cursor for it
  after,    \* the cursor it asks with
  request,  \* the request's rows while it reads the snapshots
  got,      \* observer: what the walk returned, in its order
  stay,     \* observer: rows that were there when it began and never left
  dropped,  \* observer: rows left out for want of a snapshot
  removed   \* observer: a row left since the last page's rows were read

walkVars == <<list, clock, rows, gone, plain, client, after, request, got, stay,
              dropped, removed>>
walk == <<client, after, request, got, dropped>>

Ms(time) == PerMs * (time \div PerMs)

\* encodeCursor: toISOString() has milliseconds.
Cursor(row) == [id |-> row.id, time |-> Ms(row.time)]

WalkTypeOK ==
  /\ list \in {"conversations", "savedProducts"}
  /\ clock \in Times
  /\ rows \in [Ids -> Times \cup {None}]
  /\ gone \subseteq Ids /\ plain \subseteq Ids
  /\ client \in {"idle", "asking", "ended", "stuck"}
  /\ after \in {Cursor(row) : row \in Rows} \cup {None}
  /\ request \in Requests \cup {None}
  /\ got \in Seq(Rows)
  /\ stay \subseteq Ids /\ dropped \subseteq Ids
  /\ removed \in BOOLEAN

\* A product saved before the snapshots were kept may have none.
WalkInit ==
  /\ list \in {"conversations", "savedProducts"}
  /\ plain \in IF list = "savedProducts" THEN SUBSET Ids ELSE {{}}
  /\ clock = 0
  /\ rows = [id \in Ids |-> IF id \in plain THEN 0 ELSE None]
  /\ gone = {}
  /\ client = "idle" /\ after = None /\ request = None /\ got = <<>>
  /\ stay = {} /\ dropped = {} /\ removed = FALSE

-----------------------------------------------------------------------------
Present(id) == rows[id] # None /\ id \notin gone

\* ORDER BY time DESC, id DESC.
Above(x, y) == x.time > y.time \/ (x.time = y.time /\ x.id > y.id)

\* Mutant: the row of the cursor is read again.
BelowOrAt(row) ==
  \/ after = None
  \/ row.time < after.time
  \/ row.time = after.time /\ row.id <= after.id

\* The cursor condition.
Below(row) ==
  \/ after = None
  \/ row.time < after.time
  \/ row.time = after.time /\ row.id < after.id

Row(id) == [id |-> id, time |-> rows[id]]

Found == {row \in {Row(id) : id \in {i \in Ids : Present(i)}} : Below(row)}

FirstOf(s, n) == SubSeq(s, 1, IF Len(s) < n THEN Len(s) ELSE n)

InOrder(S) ==
  {s \in SetToSeqs(S) : \A i, j \in DOMAIN s : i < j => Above(s[i], s[j])}

\* list(first, after): LIMIT first + 1.  There is one such list.
Listed(first) == {FirstOf(s, first + 1) : s \in InOrder(Found)}

Clamp(requested) == IF requested < 1 THEN 1
                    ELSE IF requested > MaxFirst THEN MaxFirst ELSE requested

\* Mutant: the cursor of the first edge.
StartCursor(edges) == IF edges = <<>> THEN None ELSE Cursor(Head(edges))

\* Mutant: an empty page repeats the cursor it was asked with.
EndCursorOrAfter(edges) == IF edges = <<>> THEN after ELSE Cursor(Last(edges))

\* The cursor of the last edge.
EndCursor(edges) == IF edges = <<>> THEN None ELSE Cursor(Last(edges))

\* Mutant: a full page always promises another.
HasNextPageIfFull(p) == Len(p.rows) >= p.first

HasNextPage(p) == Len(p.rows) > p.first

Ascending(places) ==
  {s \in SetToSeqs(places) : \A i, j \in DOMAIN s : i < j => s[i] < s[j]}

\* The rows that have a snapshot, in the order they were read in: flatMap().
Edges(p) ==
  LET read == FirstOf(p.rows, p.first)
      kept == {i \in DOMAIN read : read[i].id \notin plain}
  IN {[i \in DOMAIN s |-> read[s[i]]] : s \in Ascending(kept)}

-----------------------------------------------------------------------------
\* The client starts at the first page.
Begin ==
  /\ client # "asking"
  /\ client' = "asking" /\ after' = None
  /\ got' = <<>> /\ dropped' = {}
  /\ stay' = {id \in Ids : Present(id)}
  /\ removed' = FALSE
  /\ UNCHANGED <<list, clock, rows, gone, plain, request>>

\* The request reads its rows.
List ==
  /\ client = "asking" /\ request = None
  /\ \E requested \in 0..MaxFirst + 1 : \E listed \in Listed(Clamp(requested)) :
       request' = [first |-> Clamp(requested), rows |-> listed]
  /\ removed' = FALSE
  /\ UNCHANGED <<list, clock, rows, gone, plain, client, after, got, stay,
                 dropped>>

\* It reads the snapshots, where it is about products, and answers; the client
\* asks on with the end cursor as long as there is a next page.
Answer ==
  /\ request # None
  /\ \E edges \in Edges(request) :
       /\ got' = got \o edges
       /\ after' = EndCursor(edges)
       /\ client' = IF ~HasNextPage(request) THEN "ended"
                    ELSE IF EndCursor(edges) = None THEN "stuck" ELSE "asking"
  /\ dropped' = dropped \cup (plain \cap
       {row.id : row \in ToSet(FirstOf(request.rows, request.first))})
  /\ request' = None
  /\ UNCHANGED <<list, clock, rows, gone, plain, stay, removed>>

\* createConversation: the row appears some time after it was stamped.
Create(id) ==
  /\ list = "conversations"
  /\ rows[id] = None
  /\ \E stamped \in {t \in Times : clock - Lag <= t /\ t <= clock} :
       rows' = [rows EXCEPT ![id] = Ms(stamped)]
  /\ UNCHANGED <<list, clock, gone, plain, stay, removed, walk>>

\* deleteConversation sets deleted_at, which nothing takes back.
DeleteConversation(id) ==
  /\ list = "conversations"
  /\ Present(id)
  /\ gone' = gone \cup {id}
  /\ stay' = stay \ {id}
  /\ removed' = TRUE
  /\ UNCHANGED <<list, clock, rows, plain, walk>>

\* Mutant: saving again moves the row.
SaveAgain(id) ==
  /\ list = "savedProducts"
  /\ id \notin plain
  /\ rows' = [rows EXCEPT ![id] = clock]
  /\ UNCHANGED <<list, clock, gone, plain, stay, removed, walk>>

\* saveProduct: only a product that getProduct finds; ON CONFLICT DO NOTHING.
Save(id) ==
  /\ list = "savedProducts"
  /\ id \notin plain
  /\ rows[id] = None
  /\ rows' = [rows EXCEPT ![id] = clock]
  /\ UNCHANGED <<list, clock, gone, plain, stay, removed, walk>>

\* unsaveProduct: only a product that getProduct finds.
Unsave(id) ==
  /\ list = "savedProducts"
  /\ id \notin plain
  /\ Present(id)
  /\ rows' = [rows EXCEPT ![id] = None]
  /\ stay' = stay \ {id}
  /\ removed' = TRUE
  /\ UNCHANGED <<list, clock, gone, plain, walk>>

\* A search stores the product's snapshot.
Snapshot(id) ==
  /\ id \in plain
  /\ plain' = plain \ {id}
  /\ UNCHANGED <<list, clock, rows, gone, stay, removed, walk>>

Tick ==
  /\ clock < MaxTime
  /\ clock' = clock + 1
  /\ UNCHANGED <<list, rows, gone, plain, stay, removed, walk>>

Writes == \E id \in Ids : \/ Create(id) \/ DeleteConversation(id)
                          \/ Save(id) \/ Unsave(id) \/ Snapshot(id)

WalkNext == Begin \/ List \/ Answer \/ Writes \/ Tick

WalkSpec == WalkInit /\ [][WalkNext]_walkVars

\* A request gets its answer, and a client that has the next page's cursor asks.
FairWalkSpec == WalkSpec /\ WF_walkVars(List) /\ WF_walkVars(Answer)

-----------------------------------------------------------------------------
\* The cursor of a row has lost what distinguishes it from the others of its
\* millisecond: they are not below it, though they are in the order of the rows.
Hidden(id) ==
  \E i \in DOMAIN got : /\ got[i].time # Ms(got[i].time)
                        /\ Ms(got[i].time) = Ms(rows[id])
                        /\ Above(got[i], Row(id))

\* A walk returns no row twice, whatever is deleted, saved and saved again
\* between its pages.
NothingTwice == IsInjective([i \in DOMAIN got |-> got[i].id])

\* A walk returns the rows newest first, across its pages.
NewestFirst == \A i, j \in DOMAIN got : i < j => Above(got[i], got[j])

\* What a walk returns is in order and free of repetitions.
WalkIsOrdered == WalkTypeOK /\ NothingTwice /\ NewestFirst

\* A walk that reaches the end has returned every row that was there all along,
\* but for products without a snapshot and for saves hidden by another one of
\* the same millisecond.
NothingMissed ==
  client = "ended" =>
    \A id \in stay : \/ \E i \in DOMAIN got : got[i].id = id
                     \/ id \in dropped
                     \/ Hidden(id)

\* The page that was promised has a row, unless one left meanwhile or the save
\* that made the promise is hidden.
PromisedPageHasRows ==
  (client = "asking" /\ after # None /\ request = None)
    => Found # {} \/ removed \/ \E id \in Ids : rows[id] # None /\ Hidden(id)

\* What a walk was promised, by its pages and by the list, it gets.
WalkIsComplete == NothingMissed /\ PromisedPageHasRows

\* Every walk comes to an end, also while rows are added: each page lies below
\* the one before.
WalkEnds == client = "asking" ~> client # "asking"
=============================================================================
