--------------------------- MODULE CatalogSearch ---------------------------
(***************************************************************************)
(* Searches of one shop that run side by side, in any API process: the     *)
(* page a viewer asks for next (catalog.resolver.ts) and searches of AI    *)
(* tools, which may set a budget and a location (ai-tools.ts).  A search   *)
(* fetches one page of the shop's list, keeps what the budget allows,      *)
(* ranks it, asks for the stock at the location product by product in      *)
(* chunks, ranks again and stores all it answers in one upsert of          *)
(* catalog_metadata (catalog.provider.ts, catalog.service.ts,              *)
(* catalog.repository.ts).                                                 *)
(*                                                                         *)
(* The upsert locks its rows in the order of the answer; PostgreSQL        *)
(* resolves a deadlock by failing one of the statements.  The stock found  *)
(* differs from call to call; the shop's list and prices stand still.      *)
(* Olive Young answers the stock with the page, which is a search without  *)
(* a location here; ids of the two shops never meet.                       *)
(***************************************************************************)
EXTENDS NeutralRanking, SequencesExt

CONSTANTS
  Viewer,   \* the search of the viewer's walk through the pages
  Tools,    \* the searches of AI tools
  Ids,      \* products: integers
  Lists,    \* bound: the lists the shop may have, sequences of products
  Tables,   \* bound: the prices the products may have, functions
  Budgets,  \* bound: the budgets tools may be given
  MaxSize,  \* the most a page holds (20)
  ToolSize, \* the products a tool asks for (5)
  Batch,    \* inventoryConcurrency
  None

Searches == {Viewer} \cup Tools

ASSUME CatalogAssumption ==
  /\ Viewer \notin Tools
  /\ Ids \subseteq Int /\ Lists \subseteq Seq(Ids) /\ Tables \subseteq [Ids -> Nat]
  /\ Budgets \subseteq Nat
  /\ MaxSize \in Nat \ {0} /\ ToolSize \in 1..MaxSize /\ Batch \in Nat \ {0}
  /\ None \notin Nat \cup Searches

VARIABLES
  upstream,  \* the shop's list for the query
  price,     \* totalAmountMinor of each product
  phase,     \* per search: idle, fetching, inventory, saving
  input,     \* per search: page, first, budgetMax and whether it has a location
  items,     \* per search: the products it is going to answer
  open,      \* per search: the places whose stock is being asked for
  more,      \* per search: hasNextPage
  locks,     \* the search whose statement has locked the product's row
  stored,    \* products with a row in catalog_metadata
  walk,      \* the viewer's walk: its next page, 0 at its end, and the first of all
  got,       \* observer: the products the walk returned, in its order
  uneven,    \* observer: the walk asked for pages of different sizes
  answer     \* the last answer, until a search is asked for

vars == <<upstream, price, phase, input, items, open, more, locks, stored,
          walk, got, uneven, answer>>

Statuses == {"none", "in_stock", "out_of_stock", "unconfirmed"}

\* What a search may ask for, and what it holds of a product.
Inputs == [page : Nat \ {0}, first : 1..MaxSize, budgetMax : Budgets \cup {None},
           located : BOOLEAN]
Found == [product : {p \in Products : p.id \in Ids}, status : Statuses]

TypeOK ==
  /\ upstream \in Lists /\ price \in Tables
  /\ phase \in [Searches -> {"idle", "fetching", "inventory", "saving"}]
  /\ input \in [Searches -> Inputs]
  /\ items \in [Searches -> Seq(Found)]
  /\ open \in [Searches -> SUBSET (1..MaxSize)]
  /\ \A s \in Searches :
       /\ Len(items[s]) <= input[s].first
       /\ open[s] \subseteq DOMAIN items[s]
  /\ more \in [Searches -> BOOLEAN]
  /\ locks \in [Ids -> Searches \cup {None}]
  /\ stored \subseteq Ids
  /\ walk \in [page : Nat, first : 0..MaxSize]
  /\ got \in Seq(Ids) /\ uneven \in BOOLEAN
  /\ answer \in Seq(Found)

Plain(page, first) == [page |-> page, first |-> first, budgetMax |-> None,
                       located |-> FALSE]

Init ==
  /\ upstream \in Lists /\ price \in Tables
  /\ phase = [s \in Searches |-> "idle"]
  /\ input = [s \in Searches |-> Plain(1, 1)]
  /\ items = [s \in Searches |-> <<>>]
  /\ open = [s \in Searches |-> {}]
  /\ more = [s \in Searches |-> FALSE]
  /\ locks = [id \in Ids |-> None]
  /\ stored = {}
  /\ walk = [page |-> 1, first |-> 0]
  /\ got = <<>> /\ uneven = FALSE
  /\ answer = <<>>

-----------------------------------------------------------------------------
Lesser(m, n) == IF m < n THEN m ELSE n
Clamp(first) == IF first < 1 THEN 1 ELSE Lesser(first, MaxSize)

\* Places from..to of a sequence, as far as it goes: the shop's page, slice().
Slice(sequence, from, to) == SubSeq(sequence, from, Lesser(to, Len(sequence)))

\* What a shop's product is made into; the shops give all the same relevance,
\* and neither delivery nor ratings.  Times are counted from the page's.
Product(id, inStock) ==
  [relevanceBucket |-> 2, inStock |-> inStock, totalAmountMinor |-> price[id],
   deliveryEstimateDays |-> NoEstimate, ratingConfidence |-> 0,
   freshnessEpochMs |-> 0, id |-> id]

\* What a search holds of its products, those at some places, ranked.
Rank(held, places) ==
  LET ranking == Ranking([i \in DOMAIN held |-> held[i].product], places)
  IN [n \in DOMAIN ranking |-> held[ranking[n]]]

FetchSize(in) == IF in.budgetMax = None THEN in.first ELSE MaxSize

\* The places of the products the budget allows.
WithinBudget(in, held) ==
  {i \in DOMAIN held :
     in.budgetMax = None \/ held[i].product.totalAmountMinor <= in.budgetMax}

\* What is answered of them: the best of the page.
Selected(in, raw, within) == Slice(Rank(raw, within), 1, in.first)

\* Mutant: a full page is taken for the last one.
HasNextPageBeyond(in, raw, within) == Len(raw) > FetchSize(in) \/ Cardinality(within) > in.first

HasNextPage(in, raw, within) == Len(raw) = FetchSize(in) \/ Cardinality(within) > in.first

Chunk(from, n) == from..Lesser(from + Batch - 1, n)

-----------------------------------------------------------------------------
\* searchProducts with the walk's end cursor: a size the client chooses.
Ask ==
  /\ phase[Viewer] = "idle" /\ walk.page # 0
  /\ \E requested \in 0..MaxSize + 1 :
       /\ input' = [input EXCEPT ![Viewer] = Plain(walk.page, Clamp(requested))]
       /\ walk' = IF walk.first = 0 THEN [walk EXCEPT !.first = Clamp(requested)] ELSE walk
       /\ uneven' = (uneven \/ walk.first \notin {0, Clamp(requested)})
  /\ phase' = [phase EXCEPT ![Viewer] = "fetching"]
  /\ answer' = <<>>
  /\ UNCHANGED <<upstream, price, items, open, more, locks, stored, got>>

\* A tool's search: the first page, with or without a budget and a location.
AskTool(s) ==
  /\ phase[s] = "idle"
  /\ \E budgetMax \in Budgets \cup {None}, located \in BOOLEAN :
       input' = [input EXCEPT ![s] = [page |-> 1, first |-> ToolSize,
                                      budgetMax |-> budgetMax, located |-> located]]
  /\ phase' = [phase EXCEPT ![s] = "fetching"]
  /\ answer' = <<>>
  /\ UNCHANGED <<upstream, price, items, open, more, locks, stored, walk, got, uneven>>

\* The pages of its list the shop may answer with: the stock differs.
Pages(in) ==
  LET size == FetchSize(in)
      listed == Slice(upstream, (in.page - 1) * size + 1, in.page * size)
  IN {[i \in DOMAIN listed |-> [product |-> Product(listed[i], inStock[listed[i]]),
                                status |-> "none"]] : inStock \in [Ids -> BOOLEAN]}

\* The shop answers: filter, rank, cut.
Fetch(s) ==
  /\ phase[s] = "fetching"
  /\ \E raw \in Pages(input[s]) :
       LET in == input[s]
           within == WithinBudget(in, raw)
       IN /\ items' = [items EXCEPT ![s] = Selected(in, raw, within)]
          /\ more' = [more EXCEPT ![s] = HasNextPage(in, raw, within)]
          /\ open' = [open EXCEPT ![s] =
                        IF in.located THEN Chunk(1, Len(items'[s])) ELSE {}]
          /\ phase' = [phase EXCEPT ![s] = IF in.located /\ items'[s] # <<>>
                                           THEN "inventory" ELSE "saving"]
  /\ UNCHANGED <<upstream, price, input, locks, stored, walk, got, uneven, answer>>

\* A search is over: nothing of it is left but what it stored and answered.
Over(s) ==
  /\ phase' = [phase EXCEPT ![s] = "idle"]
  /\ input' = [input EXCEPT ![s] = Plain(1, 1)]
  /\ items' = [items EXCEPT ![s] = <<>>]
  /\ open' = [open EXCEPT ![s] = {}]
  /\ more' = [more EXCEPT ![s] = FALSE]
  /\ locks' = [id \in Ids |-> IF locks[id] = s THEN None ELSE locks[id]]

\* The page, or the upsert, fails: the search throws, and nothing is stored.
Fail(s) == Over(s) /\ UNCHANGED <<upstream, price, stored, walk, got, uneven, answer>>

FetchFails(s) == phase[s] = "fetching" /\ Fail(s)

\* The time of an inventory answer: before, with or after those there are.
Times(held) == UNION {0..held[i].product.freshnessEpochMs + 1 : i \in DOMAIN held}

\* What an inventory call makes of a product.
WithInventory(held, outcome, fetchedAt) ==
  CASE outcome = "in_stock" \/ outcome = "out_of_stock" ->
         [product |-> [held.product EXCEPT !.inStock = (outcome = "in_stock"),
                                           !.freshnessEpochMs = fetchedAt],
          status |-> outcome]
    [] OTHER -> [product |-> [held.product EXCEPT !.inStock = FALSE],
                 status |-> "unconfirmed"]

\* What a search may hold once the call for the product at i has come back.
Settled(held, i) ==
  {[held EXCEPT ![i] = WithInventory(@, outcome, fetchedAt)] :
     outcome \in {"in_stock", "out_of_stock", "fails"}, fetchedAt \in Times(held)}

\* Mutant: the next chunk starts where the last one did.
NextChunkAgain(last, n) == IF last < Batch THEN {} ELSE Chunk(last - Batch + 1, n)

NextChunk(last, n) == Chunk(last + 1, n)

\* Mutant: ranked before the stock is known only.
Unranked(held) == held

Reranked(held) == Rank(held, DOMAIN held)

\* One of the calls of a chunk comes back, or fails or times out.  The next
\* chunk waits for all of them; after the last one the products are ranked anew.
Inventory(s) ==
  /\ phase[s] = "inventory"
  /\ \E i \in open[s] : \E held \in Settled(items[s], i) :
       LET asked == {j \in DOMAIN held : held[j].status # "none"}
           next == IF open[s] # {i} THEN open[s] \ {i}
                   ELSE NextChunk(Cardinality(asked), Len(held))
       IN /\ open' = [open EXCEPT ![s] = next]
          /\ items' = [items EXCEPT ![s] = IF next = {} THEN Reranked(held) ELSE held]
          /\ phase' = [phase EXCEPT ![s] = IF next = {} THEN "saving" ELSE @]
  /\ UNCHANGED <<upstream, price, input, more, locks, stored, walk, got, uneven,
                 answer>>

Id(held) == held.product.id
Locked(s) == {i \in DOMAIN items[s] : locks[Id(items[s][i])] = s}

\* The upsert goes through its values in order; i is the next one.
At(s, i) == phase[s] = "saving" /\ i \in DOMAIN items[s] /\ Locked(s) = 1..i - 1

Lock(s) ==
  \E i \in DOMAIN items[s] :
    /\ At(s, i)
    /\ locks[Id(items[s][i])] = None
    /\ locks' = [locks EXCEPT ![Id(items[s][i])] = s]
    /\ UNCHANGED <<upstream, price, phase, input, items, open, more, stored, walk,
                   got, uneven, answer>>

\* s waits for a row t has locked.
WaitsFor(s, t) ==
  \E i \in DOMAIN items[s] : At(s, i) /\ s # t /\ locks[Id(items[s][i])] = t

\* A row the statement would update twice, a deadlock, or a lost connection.
SaveFails(s) == phase[s] = "saving" /\ Fail(s)
Repeats(s) ==
  /\ phase[s] = "saving"
  /\ \E i, j \in DOMAIN items[s] : i < j /\ Id(items[s][i]) = Id(items[s][j])
Deadlocked(s) == \E t \in Searches : WaitsFor(s, t) /\ WaitsFor(t, s)

\* The end cursor names a page.
EndCursor(in) == in.page + 1

\* Mutant: the answer is given when the upsert has failed.
StoredNothing(s) == stored

StoredBy(s) == stored \cup {Id(items[s][i]) : i \in DOMAIN items[s]}

\* The upsert commits, and the search answers; the viewer's next page is the one
\* the end cursor names.
Commit(s) ==
  /\ phase[s] = "saving" /\ Locked(s) = DOMAIN items[s] /\ ~Repeats(s)
  /\ stored' = StoredBy(s)
  /\ answer' = items[s]
  /\ IF s = Viewer
     THEN /\ walk' = [walk EXCEPT !.page = IF more[s] THEN EndCursor(input[s]) ELSE 0]
          /\ got' = got \o [i \in DOMAIN items[s] |-> Id(items[s][i])]
     ELSE UNCHANGED <<walk, got>>
  /\ Over(s)
  /\ UNCHANGED <<upstream, price, uneven>>

Step(s) == Fetch(s) \/ Inventory(s) \/ Lock(s) \/ Commit(s)
Resolve(s) == (Repeats(s) \/ Deadlocked(s)) /\ SaveFails(s)

Next ==
  \/ Ask
  \/ \E s \in Tools : AskTool(s)
  \/ \E s \in Searches : Step(s) \/ FetchFails(s) \/ SaveFails(s)

Spec == Init /\ [][Next]_vars

\* Calls are answered or time out; PostgreSQL runs statements, refuses those that
\* repeat a row, detects deadlocks, and grants a row to those that wait in turn.
FairSpec ==
  /\ Spec
  /\ \A s \in Searches : /\ WF_vars(Fetch(s)) /\ WF_vars(Inventory(s))
                         /\ SF_vars(Lock(s)) /\ WF_vars(Commit(s))
                         /\ WF_vars(Resolve(s))

-----------------------------------------------------------------------------
\* Every product of an answer can be looked up, and saved, from then on.
AnswersAreStored == \A i \in DOMAIN answer : Id(answer[i]) \in stored

\* An answer is in the documented order of what it says of its products: the
\* stock found meanwhile counts.
AnswersAreRanked ==
  \A i, j \in DOMAIN answer :
    i < j => ~Better(answer[j].product, answer[i].product)

\* A walk in pages of one size, whichever clamped size the client asks for,
\* returns the shop's list: each product once, and none is passed over when
\* some searches of the walk fail and are asked again.
WalkIsExact ==
  (walk.page = 0 /\ ~uneven) => Len(got) = Len(upstream) /\ ToSet(got) = ToSet(upstream)

\* What searches answer, one by one and as a walk.
AnswersAreRight == TypeOK /\ AnswersAreStored /\ AnswersAreRanked /\ WalkIsExact

\* Every search ends, answered or failed, whatever others lock.
SearchesEnd == \A s \in Searches : phase[s] # "idle" ~> phase[s] = "idle"
=============================================================================
