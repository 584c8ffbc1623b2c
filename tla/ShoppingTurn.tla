---------------------------- MODULE ShoppingTurn ----------------------------
(***************************************************************************)
(* One turn of the shopping agent: the model is called again and again,    *)
(* each response either answers or calls tools, and three objects that     *)
(* live as long as the turn decide what happens next.                      *)
(*                                                                         *)
(*   deepMode         what openai-compatible-ai.adapter.ts calls           *)
(*                    deepModeState: the assessment of the request, and    *)
(*                    whether it is required and a search was made         *)
(*   recommendations  recommendationState: the products the searches of    *)
(*                    this turn found, in order, and those with a summary  *)
(*   session          the AiToolSession of ai-tools.ts: its call budget,   *)
(*                    the retailers it gave up, the ids it may look up     *)
(*                                                                         *)
(* nextToolChoice decides from them which tool the next model call is      *)
(* forced to use, the tools decide from them whether they refuse, and      *)
(* providerStreamResult decides whether what the model finally says may be *)
(* stored.  These are written in three places and must agree.              *)
(*                                                                         *)
(* The model is not trusted: a response may hold any calls (MaxBatch of    *)
(* them at most) whatever tool was forced.  The agent loop is the library's*)
(* and runs the calls of one response one after the other.  A product or   *)
(* an answer has no content here beyond what the guards look at.           *)
(***************************************************************************)
EXTENDS Naturals, FiniteSets, SequencesExt

CONSTANTS
  Products,            \* catalogue ids
  Providers,           \* retailers
  ProviderOf,          \* the retailer of each product
  Dimensions,          \* clarificationDimensions
  MaxIterations,       \* model calls per turn: maxIterations(5)
  MaxToolCalls,        \* catalog calls per turn: 6
  MaxRecommendations,  \* the recommendations array takes at most 10
  PerProvider,         \* products one retailer returns per search: 5
  MaxBatch,            \* bound: tool calls in one response
  None

\* Assessment: what the request is, and what to ask before it can be answered.
Assessments == [kind : {"shopping", "other"}, dimension : Dimensions \cup {None}]

ASSUME TurnAssumption ==
  /\ IsFiniteSet(Products) /\ ProviderOf \in [Products -> Providers]
  /\ Providers # {}
  /\ MaxIterations \in Nat \ {0} /\ MaxToolCalls \in Nat
  /\ MaxRecommendations \in Nat /\ PerProvider \in Nat /\ MaxBatch \in Nat \ {0}
  /\ None \notin Products \cup Dimensions
  /\ None \notin {"assessShoppingAmbiguity", "askUser", "searchProducts",
                   "recordProductRecommendations"}
  /\ None \notin Assessments

VARIABLES
  input,            \* image, skip message, retailers the user selected
  deepMode,         \* DeepModeState
  recommendations,  \* ProductRecommendationState
  askUser,          \* the dimension of the accepted question, or None
  session,          \* AiToolSession
  loop,             \* the agent loop: phase, model calls, calls left, choice
  result,           \* what providerStreamResult made of the turn
  seen              \* observer: cards shown, last list recorded, missteps

vars == <<input, deepMode, recommendations, askUser, session, loop, result, seen>>

Unset == [kind |-> "none", products |-> << >>]
Failed == [kind |-> "failed", products |-> << >>]

----------------------------------------------------------------------------
(* What the turn's state says.                                             *)

\* A text turn may use no other tool before the request is assessed.
NeedsAssessment == ~input.image /\ deepMode.assessment = None
NotShopping == deepMode.assessment # None /\ deepMode.assessment.kind = "other"
Clarification == IF deepMode.assessment = None THEN None
                                               ELSE deepMode.assessment.dimension

\* Mutant: a pending question does not stop the other tools.
UnclearIfOther == NotShopping

\* Searching, looking up and recording wait for the answer to a question.
Unclear == NotShopping \/ Clarification # None

WantsSearch == /\ deepMode.assessment # None
               /\ deepMode.assessment.kind = "shopping"
               /\ ~deepMode.searchedProducts
\* Mutant: any recorded summary will do.
RecommendationsStarted ==
  recommendations.productIds = << >> \/ recommendations.aiSummaries # {}

RecommendationsComplete ==
  ToSet(recommendations.productIds) \subseteq recommendations.aiSummaries

\* Mutant: the question is only forced once a search was made.
ChoiceSearchFirst ==
  CASE askUser # None -> None
    [] askUser = None /\ deepMode.assessmentRequired
         /\ deepMode.assessment = None -> "assessShoppingAmbiguity"
    [] askUser = None /\ WantsSearch -> "searchProducts"
    [] askUser = None /\ ~WantsSearch /\ Clarification # None -> "askUser"
    [] OTHER -> IF RecommendationsComplete
                THEN None ELSE "recordProductRecommendations"

NextToolChoice ==
  CASE askUser # None -> None
    [] askUser = None /\ deepMode.assessmentRequired
         /\ deepMode.assessment = None -> "assessShoppingAmbiguity"
    [] askUser = None /\ Clarification # None -> "askUser"
    [] askUser = None /\ Clarification = None /\ WantsSearch -> "searchProducts"
    [] OTHER -> IF RecommendationsComplete
                THEN None ELSE "recordProductRecommendations"

\* matchesExpectedProducts, and the bounds of the tool's input schema.
Recordable(list) ==
  /\ list = recommendations.productIds
  /\ Len(list) \in 1..MaxRecommendations

\* Of the products found, in their order, those with a summary: flatMap().
ProductRecommendations ==
  LET ids == recommendations.productIds
      first[n \in 0..Len(ids)] ==
        IF n = 0 THEN << >>
        ELSE IF ids[n] \in recommendations.aiSummaries THEN Append(first[n - 1], ids[n])
                                                       ELSE first[n - 1]
  IN first[Len(ids)]

StreamResult(finish, hasText) ==
  IF askUser # None THEN [kind |-> "question", products |-> << >>]
  ELSE IF \/ deepMode.assessmentRequired /\ deepMode.assessment = None
          \/ Clarification # None
          \/ WantsSearch
          \/ finish # "stop" \/ ~hasText
          \/ ~RecommendationsComplete
       THEN Failed
       ELSE [kind |-> "answer",
             products |-> ProductRecommendations]

----------------------------------------------------------------------------
(* The catalog, as one search or look-up of the session sees it.           *)

Selected(provider) == IF input.forced # {} THEN input.forced ELSE {provider}
Active(provider) == Selected(provider) \ session.exhausted

Lists == UNION {SetToSeqs(S) : S \in SUBSET Products}

\* The cards a search over the retailers in "up" can return: at most
\* PerProvider of each.
Pages(up) ==
  {items \in SUBSET Products :
     /\ \A p \in items : ProviderOf[p] \in up
     /\ \A r \in up : Cardinality({p \in items : ProviderOf[p] = r}) <= PerProvider}

\* Mutant: each search replaces what the one before it found.
AddedAlone(ids, items) == SetToSeqs(items)

\* Set insertion leaves an id where it was first added; the others follow in an
\* order of the ranking's choosing.
Added(ids, items) == {ids \o new : new \in SetToSeqs(items \ ToSet(ids))}

\* Mutant: a search that found nothing does not count as one.
SearchedIfFound(items) == items # {}

\* A search that returns counts as one, whatever it found.
Searched(items) == TRUE

\* Mutant: an id that no search of this turn returned.
ReadableUnauthorized(id) == {id}

\* What getProduct may return: the stored snapshot, or nothing.
Readable(id) ==
  IF input.forced = {} THEN {id}
  ELSE {id} \cap {p \in session.authorized : ProviderOf[p] \in input.forced}

----------------------------------------------------------------------------
Init ==
  /\ input \in [image : BOOLEAN, skips : BOOLEAN, forced : SUBSET Providers]
  /\ deepMode = [assessment |-> None, assessmentRequired |-> ~input.image,
                 searchedProducts |-> FALSE]
  /\ recommendations = [productIds |-> << >>, aiSummaries |-> {}]
  /\ askUser = None
  /\ session = [calls |-> 0, authorized |-> {}, exhausted |-> {}]
  /\ loop = [phase |-> "calling", iteration |-> 0, left |-> 0, choice |-> None]
  /\ result = Unset
  /\ seen = [shown |-> {}, recorded |-> << >>, wasted |-> 0,
             strayed |-> FALSE, unavailable |-> FALSE]

\* Missteps are told apart up to the second.
More(n) == IF n < 2 THEN n + 1 ELSE n
Strays == seen' = [seen EXCEPT !.strayed = TRUE]
Wastes == seen' = [seen EXCEPT !.wasted = More(@)]

\* onConfig forces a tool or none; the model responds with tool calls.
CallTools ==
  /\ loop.phase = "calling"
  /\ \E n \in 1..MaxBatch :
       /\ loop' = [phase |-> "tools", iteration |-> loop.iteration + 1,
                   left |-> n, choice |-> NextToolChoice]
       /\ IF n > 1 THEN Strays ELSE UNCHANGED seen
  /\ UNCHANGED <<input, deepMode, recommendations, askUser, session, result>>

\* The model responds with text: the loop ends and onFinish looks at it.
Answer ==
  /\ loop.phase = "calling"
  /\ \E finish \in {"stop", "length"}, hasText \in BOOLEAN :
       /\ result' = StreamResult(finish, hasText)
       /\ IF finish = "stop" /\ hasText /\ NextToolChoice = None
          THEN UNCHANGED seen ELSE Strays
  /\ loop' = [loop EXCEPT !.phase = "finished", !.iteration = @ + 1]
  /\ UNCHANGED <<input, deepMode, recommendations, askUser, session>>

\* A tool call has run.
Took ==
  /\ loop.phase = "tools" /\ loop.left > 0
  /\ loop' = [loop EXCEPT !.left = @ - 1]

Refuses ==
  /\ Took
  /\ Wastes
  /\ UNCHANGED <<input, recommendations, askUser, session, result>>

\* A refusal for want of an assessment makes one required from then on.
RefusesUnassessed ==
  /\ NeedsAssessment
  /\ deepMode' = [deepMode EXCEPT !.assessmentRequired = TRUE]
  /\ Refuses

\* A call the model was not forced to make, but which the tool accepts.
Accepts ==
  /\ Took
  /\ UNCHANGED <<input, result>>

\* A shopping request with a score above the threshold takes the dimension the
\* model proposes; every other has none to clarify.
Evaluate(kind, ambiguous, next) ==
  [kind |-> kind,
   dimension |-> IF kind = "shopping" /\ ambiguous THEN next ELSE None]

AssessShoppingAmbiguity ==
  \E kind \in {"shopping", "other"}, ambiguous \in BOOLEAN,
     next \in Dimensions \cup {None} :
    LET assessment == Evaluate(kind, ambiguous, next)
        invalid == /\ kind = "shopping" /\ ambiguous
                   /\ assessment.dimension = None /\ ~input.skips
    IN IF invalid
       THEN /\ deepMode' = [deepMode EXCEPT !.assessmentRequired = TRUE]
            /\ Refuses
       ELSE /\ Accepts
            /\ deepMode' = [deepMode EXCEPT !.assessment =
                 IF input.skips THEN [assessment EXCEPT !.dimension = None]
                                ELSE assessment]
            /\ IF loop.choice = "assessShoppingAmbiguity"
               THEN UNCHANGED seen ELSE Strays
            /\ UNCHANGED <<recommendations, askUser, session>>

AskUser ==
  \/ RefusesUnassessed
  \/ /\ NotShopping
     /\ Refuses /\ UNCHANGED deepMode
  \/ /\ ~NeedsAssessment /\ ~NotShopping
     /\ \E dimension \in Dimensions :
          IF Clarification \in {None, dimension}
          THEN /\ Accepts
               /\ askUser' = dimension
               /\ UNCHANGED <<deepMode, recommendations, session, seen>>
          ELSE Refuses /\ UNCHANGED deepMode

\* createSession's searchProducts counts the call, then asks the active
\* retailers, each a second time when the first fails; one that fails twice is
\* given up for the turn.  Only "up" answered, with these items.
SessionAfter(provider, up, items) ==
  [calls |-> session.calls + 1,
   authorized |-> IF input.forced = {} THEN session.authorized
                  ELSE session.authorized \cup items,
   exhausted |-> IF session.calls >= MaxToolCalls THEN session.exhausted
                 ELSE session.exhausted \cup (Active(provider) \ up)]

\* It throws when the budget is spent or no retailer answered.
SearchProducts ==
  \/ RefusesUnassessed
  \/ /\ Unclear
     /\ Refuses /\ UNCHANGED deepMode
  \/ /\ ~NeedsAssessment /\ ~Unclear
     /\ Took
     /\ \E provider \in Providers :
          \/ /\ session' = SessionAfter(provider, {}, {})
             /\ seen' = [seen EXCEPT !.unavailable = TRUE]
             /\ UNCHANGED <<deepMode, recommendations>>
          \/ /\ session.calls < MaxToolCalls
             /\ \E up \in (SUBSET Active(provider)) \ {{}} : \E items \in Pages(up) :
                  /\ session' = SessionAfter(provider, up, items)
                  /\ \E ids \in Added(recommendations.productIds, items) :
                       recommendations' = [recommendations EXCEPT !.productIds = ids]
                  /\ deepMode' = [deepMode EXCEPT
                       !.searchedProducts = @ \/ Searched(items)]
                  /\ seen' = [seen EXCEPT
                       !.shown = @ \cup items,
                       !.strayed = @ \/ loop.choice # "searchProducts"]
     /\ UNCHANGED <<input, askUser, result>>

GetProduct ==
  \/ RefusesUnassessed
  \/ /\ Unclear
     /\ Refuses /\ UNCHANGED deepMode
  \/ /\ ~NeedsAssessment /\ ~Unclear
     /\ Took
     /\ session' = [session EXCEPT !.calls = @ + 1]
     /\ \E id \in Products : \E cards \in SUBSET Readable(id) :
          seen' = [seen EXCEPT
            !.shown = @ \cup IF session.calls < MaxToolCalls THEN cards ELSE {},
            !.wasted = More(@)]
     /\ UNCHANGED <<input, deepMode, recommendations, askUser, result>>

RecordProductRecommendations ==
  \/ RefusesUnassessed
  \/ /\ Unclear
     /\ Refuses /\ UNCHANGED deepMode
  \/ /\ ~NeedsAssessment /\ ~Unclear
     /\ \/ /\ Refuses   \* any other list
           /\ UNCHANGED deepMode
        \/ \E list \in Lists :
             /\ Recordable(list)
             /\ Accepts
             /\ recommendations' = [recommendations EXCEPT !.aiSummaries = ToSet(list)]
             /\ seen' = [seen EXCEPT
                  !.recorded = list,
                  !.strayed = @ \/ loop.choice # "recordProductRecommendations"]
             /\ UNCHANGED <<deepMode, askUser, session>>

\* Mutant: the loop goes on after a question.
ContinueAfterAsking == loop.iteration < MaxIterations

\* The calls of the response have run.  A question ends the loop
\* (onShouldContinue), so does the last iteration.
ShouldContinue == askUser = None /\ loop.iteration < MaxIterations

ToolsDone ==
  /\ loop.phase = "tools" /\ loop.left = 0
  /\ IF ShouldContinue
     THEN loop' = [loop EXCEPT !.phase = "calling"] /\ UNCHANGED result
     ELSE /\ loop' = [loop EXCEPT !.phase = "finished"]
          /\ result' = StreamResult("tool_calls", FALSE)
  /\ UNCHANGED <<input, deepMode, recommendations, askUser, session, seen>>

\* The model's endpoint fails, or the turn's 55 seconds are over.
ProviderFails ==
  /\ loop.phase # "finished"
  /\ loop' = [loop EXCEPT !.phase = "finished"]
  /\ result' = Failed
  /\ Strays
  /\ UNCHANGED <<input, deepMode, recommendations, askUser, session>>

Next ==
  \/ CallTools \/ Answer \/ ToolsDone \/ ProviderFails
  \/ AssessShoppingAmbiguity \/ AskUser \/ SearchProducts
  \/ GetProduct \/ RecordProductRecommendations

Spec == Init /\ [][Next]_vars

----------------------------------------------------------------------------
(* Properties.                                                             *)

\* The state keeps its shape and the catalog is asked at most once for each
\* tool call of the turn's few model calls (createStream, createSession).
TypeOK ==
  /\ input \in [image : BOOLEAN, skips : BOOLEAN, forced : SUBSET Providers]
  /\ deepMode \in [assessment : {None} \cup Assessments,
                   assessmentRequired : BOOLEAN, searchedProducts : BOOLEAN]
  /\ recommendations \in [productIds : Lists, aiSummaries : SUBSET Products]
  /\ askUser \in Dimensions \cup {None}
  /\ session.calls \in 0..(MaxIterations * MaxBatch)
  /\ session.authorized \subseteq Products /\ session.exhausted \subseteq Providers
  /\ loop \in [phase : {"calling", "tools", "finished"},
               iteration : 0..MaxIterations + 1, left : 0..MaxBatch,
               choice : {None, "assessShoppingAmbiguity", "askUser",
                         "searchProducts", "recordProductRecommendations"}]
  /\ result \in [kind : {"none", "answer", "question", "failed"}, products : Lists]

\* An answer is stored with exactly the list the model last recorded, and that
\* list holds every product any search of the turn found, however searches,
\* records and new assessments followed each other (providerStreamResult).
AnswerRecordsFindings ==
  result.kind = "answer" =>
    /\ result.products = recommendations.productIds
    /\ result.products # << >> => result.products = seen.recorded
    /\ session.authorized \subseteq ToSet(result.products)

\* Some search the model could ask for still finds a retailer to ask.
ShopLeft == \E provider \in Providers : Active(provider) # {}

\* What nextToolChoice forces, the tool carries out for some input the model
\* could give: the places that read the turn's state agree, and a search that is
\* forced has a retailer to ask and a call of the budget left to ask it with.
\* Excepted are a request first searched for and then called no shopping
\* request; more products found than the schema lets the model record; a search
\* after one that failed, which the code forces again although it may have given
\* up every retailer; and a budget of which the model wasted two calls, as each
\* look-up takes one.
ForcedChoiceIsAcceptable ==
  LET clear == ~NeedsAssessment /\ ~NotShopping
  IN /\ NextToolChoice = "askUser" => clear
     /\ NextToolChoice = "searchProducts" =>
          /\ clear /\ Clarification = None
          /\ ShopLeft \/ seen.unavailable
          /\ session.calls < MaxToolCalls \/ seen.unavailable \/ seen.wasted >= 2
     /\ NextToolChoice = "recordProductRecommendations" =>
          \/ NotShopping
          \/ Len(recommendations.productIds) > MaxRecommendations
          \/ clear /\ Clarification = None /\ Recordable(recommendations.productIds)

\* A model that makes the forced call, one call a response, and answers once
\* nothing is forced ends the turn with an answer or a question, and may waste
\* one call on something refused: the five iterations are enough for that.
OneMisstepIsSurvived ==
  (/\ loop.phase = "finished"
   /\ ~seen.strayed /\ ~seen.unavailable /\ seen.wasted <= 1)
  => result.kind \in {"answer", "question"}

\* When the user selected retailers, the model sees cards of no other, not even
\* by asking for an id it knows (createSession: getProduct).
ShownWithinSelection ==
  input.forced # {} => \A p \in seen.shown : ProviderOf[p] \in input.forced

\* What the turn stores and shows is what its searches found where the user
\* wanted them to look.
OnlyFindingsAreUsed == TypeOK /\ AnswerRecordsFindings /\ ShownWithinSelection

\* Once the tools accepted a question no model call follows it, though the other
\* calls of that response may still run, and the turn stores a question or
\* nothing (onShouldContinue, providerStreamResult).
QuestionEndsTurn ==
  [][askUser # None =>
       /\ loop'.iteration = loop.iteration
       /\ result'.kind \in {"none", "question", "failed"}]_vars

\* In a text turn the catalog is not asked before the request was assessed,
\* found to be about shopping, and clear or clarified.
CatalogOnlyWhenClear ==
  [][session'.calls # session.calls =>
       \/ input.image
       \/ /\ deepMode.assessment # None /\ ~NotShopping
          /\ Clarification = None]_vars

\* After the response with an accepted question the model is not called again
\* (its other calls still run), and the catalog waits for an assessment.
ToolsRespectAssessment == QuestionEndsTurn /\ CatalogOnlyWhenClear
=============================================================================
