------------------------- MODULE ShoppingTurnProofs -------------------------
(***************************************************************************)
(* Theorems about ShoppingTurn, for every catalogue, every set of shops    *)
(* and dimensions, and every budget of the turn, where no least one is     *)
(* stated.                                                                 *)
(*                                                                         *)
(* What nextToolChoice forces is acceptable because of four facts that no  *)
(* single place of the code states: a text turn requires an assessment     *)
(* from the start; only a shopping request keeps a dimension to ask about; *)
(* the products found are a sequence, which is empty, and complete, or can *)
(* be recorded; and until a search was made or failed no shop is given up  *)
(* and only look-ups took calls. No model call follows a question because  *)
(* it is only asked while the calls of a response run, and the loop goes   *)
(* on from there only without one. What is stored is what was found        *)
(* because the list last recorded is the beginning of the products found,  *)
(* without repetition: if each of them has a summary, nothing was found    *)
(* since.                                                                  *)
(***************************************************************************)
EXTENDS ShoppingTurn, FiniteSetTheorems, SequenceTheorems, WellFoundedInduction, TLAPS

ToolChoices == {None, "assessShoppingAmbiguity", "askUser",
                "searchProducts", "recordProductRecommendations"}

LoopInv ==
  loop \in [phase : {"calling", "tools", "finished"}, iteration : Nat, left : Nat,
            choice : ToolChoices]

AssessmentInv ==
  /\ deepMode \in [assessment : {None} \cup Assessments,
                   assessmentRequired : BOOLEAN, searchedProducts : BOOLEAN]
  /\ ~input.image => deepMode.assessmentRequired
  /\ NotShopping => Clarification = None

RecommendationsInv ==
  recommendations \in [productIds : Seq(Products), aiSummaries : SUBSET Products]

\* A question was asked by a call of the response at hand, and nothing is
\* stored before the loop has ended.
QuestionInv ==
  /\ askUser # None => loop.phase # "calling"
  /\ loop.phase # "finished" => result = Unset

Inv == LoopInv /\ AssessmentInv /\ RecommendationsInv /\ QuestionInv

-----------------------------------------------------------------------------
LEMMA ChoiceIsOne == NextToolChoice \in ToolChoices
BY DEF NextToolChoice, ToolChoices

\* What a search adds leaves a sequence of products.
LEMMA AddedIsSequence ==
  ASSUME NEW ids \in Seq(Products), NEW items \in SUBSET Products,
         NEW added \in Added(ids, items)
  PROVE  added \in Seq(Products)
<1> DEFINE S == items \ ToSet(ids)
<1>1. PICK new \in SetToSeqs(S) : added = ids \o new
  BY DEF Added
<1>2. IsFiniteSet(S)
  BY FS_Subset, TurnAssumption DEF TurnAssumption
<1>3. Cardinality(S) \in Nat
  BY <1>2, FS_CardinalityType
<1>4. new \in [1..Cardinality(S) -> S]
  BY <1>1 DEF SetToSeqs
<1>5. PICK n \in Nat : new \in [1..n -> Products]
  BY <1>3, <1>4
<1>6. new \in Seq(Products)
  BY <1>5
<1> QED  BY <1>1, <1>6

\* What an assessment leaves to clarify, it leaves of a shopping request.
LEMMA EvaluationIsRight ==
  ASSUME NEW kind \in {"shopping", "other"}, NEW ambiguous \in BOOLEAN,
         NEW next \in Dimensions \cup {None}
  PROVE  LET a == Evaluate(kind, ambiguous, next)
         IN /\ a \in Assessments
            /\ a.kind = "other" => a.dimension = None
            /\ [a EXCEPT !.dimension = None] \in Assessments
            /\ [a EXCEPT !.dimension = None].dimension = None
BY DEF Evaluate, Assessments

-----------------------------------------------------------------------------
LEMMA InvInitially == Init => Inv
<1> SUFFICES ASSUME Init PROVE Inv
  OBVIOUS
<1>1. LoopInv
  BY DEF Init, LoopInv, ToolChoices
<1>2. AssessmentInv
  <2>1. input.image \in BOOLEAN
    BY DEF Init
  <2> QED  BY <2>1 DEF Init, AssessmentInv, NotShopping
<1>3. RecommendationsInv
  BY DEF Init, RecommendationsInv
<1>4. QuestionInv
  BY DEF Init, QuestionInv
<1> QED  BY <1>1, <1>2, <1>3, <1>4 DEF Inv

\* A call that the tools refuse.
LEMMA RefusalKeepsInv ==
  ASSUME Inv, RefusesUnassessed \/ (Refuses /\ UNCHANGED deepMode)
  PROVE  Inv'
<1>1. /\ loop.phase = "tools" /\ loop.left \in Nat /\ loop.left > 0
      /\ loop' = [loop EXCEPT !.left = loop.left - 1]
      /\ UNCHANGED <<input, recommendations, askUser, session, result>>
  BY DEF Inv, LoopInv, RefusesUnassessed, Refuses, Took
<1>2. LoopInv' /\ loop'.phase = "tools"
  BY <1>1 DEF Inv, LoopInv
<1>3. AssessmentInv'
  <2>1. CASE RefusesUnassessed
    BY <1>1, <2>1 DEF Inv, AssessmentInv, RefusesUnassessed, NotShopping, Clarification
  <2>2. CASE UNCHANGED deepMode
    BY <1>1, <2>2 DEF Inv, AssessmentInv, NotShopping, Clarification
  <2> QED  BY <2>1, <2>2
<1> QED  BY <1>1, <1>2, <1>3 DEF Inv, RecommendationsInv, QuestionInv

\* A call that ran and left the assessment and the answer alone.
LEMMA CallKeepsInv ==
  ASSUME Inv, Took, UNCHANGED <<input, result>>, AssessmentInv', RecommendationsInv'
  PROVE  Inv'
<1>1. /\ loop.phase = "tools" /\ loop.left \in Nat /\ loop.left > 0
      /\ loop' = [loop EXCEPT !.left = loop.left - 1]
  BY DEF Inv, LoopInv, Took
<1>2. LoopInv' /\ loop'.phase = "tools"
  BY <1>1 DEF Inv, LoopInv
<1> QED  BY <1>1, <1>2 DEF Inv, QuestionInv

LEMMA InvPreserved == Inv /\ [Next]_vars => Inv'
<1> SUFFICES ASSUME Inv, [Next]_vars PROVE Inv'
  OBVIOUS
<1>1. CASE CallTools
  <2>1. LoopInv' /\ loop'.phase = "tools"
    BY <1>1, ChoiceIsOne, TurnAssumption DEF CallTools, Inv, LoopInv, TurnAssumption
  <2> QED
    BY <1>1, <2>1 DEF CallTools, Inv, AssessmentInv, RecommendationsInv, QuestionInv,
                      NotShopping, Clarification
<1>2. CASE Answer
  <2>1. LoopInv' /\ loop'.phase = "finished"
    <3>1. loop' = [loop EXCEPT !.phase = "finished", !.iteration = loop.iteration + 1]
      BY <1>2 DEF Answer
    <3>2. loop.iteration \in Nat /\ loop.iteration + 1 \in Nat
      BY DEF Inv, LoopInv
    <3> QED  BY <3>1, <3>2 DEF Inv, LoopInv
  <2> QED
    BY <1>2, <2>1 DEF Answer, Inv, AssessmentInv, RecommendationsInv, QuestionInv,
                      NotShopping, Clarification
<1>3. CASE ToolsDone
  <2>1. LoopInv' /\ loop'.phase \in {"calling", "finished"}
    BY <1>3 DEF ToolsDone, Inv, LoopInv
  <2>2. QuestionInv'
    <3>1. CASE ShouldContinue
      BY <1>3, <3>1 DEF ToolsDone, ShouldContinue, Inv, QuestionInv
    <3>2. CASE ~ShouldContinue
      BY <1>3, <2>1, <3>2 DEF ToolsDone, Inv, LoopInv, QuestionInv
    <3> QED  BY <3>1, <3>2
  <2> QED
    BY <1>3, <2>1, <2>2 DEF ToolsDone, Inv, AssessmentInv, RecommendationsInv,
                            NotShopping, Clarification
<1>4. CASE ProviderFails
  <2>1. LoopInv' /\ loop'.phase = "finished"
    BY <1>4 DEF ProviderFails, Inv, LoopInv
  <2> QED
    BY <1>4, <2>1 DEF ProviderFails, Inv, AssessmentInv, RecommendationsInv,
                      QuestionInv, NotShopping, Clarification
<1>5. CASE AssessShoppingAmbiguity
  <2>1. PICK kind \in {"shopping", "other"}, ambiguous \in BOOLEAN,
             next \in Dimensions \cup {None} :
          LET a == Evaluate(kind, ambiguous, next)
              invalid == /\ kind = "shopping" /\ ambiguous
                         /\ a.dimension = None /\ ~input.skips
          IN IF invalid
             THEN /\ deepMode' = [deepMode EXCEPT !.assessmentRequired = TRUE]
                  /\ Refuses
             ELSE /\ Accepts
                  /\ deepMode' = [deepMode EXCEPT !.assessment =
                       IF input.skips THEN [a EXCEPT !.dimension = None] ELSE a]
                  /\ UNCHANGED <<recommendations, askUser, session>>
    BY <1>5 DEF AssessShoppingAmbiguity
  <2> DEFINE a == Evaluate(kind, ambiguous, next)
             b == IF input.skips THEN [a EXCEPT !.dimension = None] ELSE a
  <2>2. CASE /\ deepMode' = [deepMode EXCEPT !.assessmentRequired = TRUE]
             /\ Refuses
    <3>1. AssessmentInv'
      BY <2>2 DEF Inv, AssessmentInv, Refuses, NotShopping, Clarification
    <3> QED
      BY <2>2, <3>1, CallKeepsInv DEF Refuses, Inv, RecommendationsInv
  <2>3. CASE /\ Accepts
             /\ deepMode' = [deepMode EXCEPT !.assessment = b]
             /\ UNCHANGED <<recommendations, askUser, session>>
    <3>1. /\ b \in Assessments
          /\ b.kind = "other" => b.dimension = None
      BY EvaluationIsRight
    <3> HIDE DEF b
    <3>2. AssessmentInv'
      BY <2>3, <3>1 DEF Inv, AssessmentInv, Accepts, NotShopping, Clarification
    <3> QED
      BY <2>3, <3>2, CallKeepsInv DEF Accepts, Inv, RecommendationsInv
  <2> QED  BY <2>1, <2>2, <2>3
<1>6. CASE AskUser
  <2>1. CASE RefusesUnassessed \/ (Refuses /\ UNCHANGED deepMode)
    BY <2>1, RefusalKeepsInv
  <2>2. CASE Accepts /\ UNCHANGED <<deepMode, recommendations>>
    BY <2>2, CallKeepsInv DEF Accepts, Inv, AssessmentInv, RecommendationsInv,
                              NotShopping, Clarification
  <2> QED  BY <1>6, <2>1, <2>2 DEF AskUser
<1>7. CASE SearchProducts
  <2>1. CASE RefusesUnassessed \/ (Refuses /\ UNCHANGED deepMode)
    BY <2>1, RefusalKeepsInv
  <2>2. CASE Took /\ UNCHANGED <<input, askUser, result, deepMode, recommendations>>
    BY <2>2, CallKeepsInv DEF Inv, AssessmentInv, RecommendationsInv,
                              NotShopping, Clarification
  <2>3. ASSUME Took, UNCHANGED <<input, askUser, result>>,
               NEW items \in SUBSET Products,
               NEW ids \in Added(recommendations.productIds, items),
               recommendations' = [recommendations EXCEPT !.productIds = ids],
               deepMode' = [deepMode EXCEPT
                 !.searchedProducts = deepMode.searchedProducts \/ Searched(items)]
        PROVE  Inv'
    <3>1. ids \in Seq(Products)
      BY AddedIsSequence DEF Inv, RecommendationsInv
    <3>2. RecommendationsInv'
      BY <2>3, <3>1 DEF Inv, RecommendationsInv
    <3>3. /\ deepMode' = [deepMode EXCEPT !.searchedProducts = TRUE]
      BY <2>3 DEF Searched
    <3>4. AssessmentInv'
      BY <2>3, <3>3 DEF Inv, AssessmentInv, NotShopping, Clarification
    <3> QED  BY <2>3, <3>2, <3>4, CallKeepsInv
  <2> QED  BY <1>7, <2>1, <2>2, <2>3 DEF SearchProducts, Pages
<1>8. CASE GetProduct
  <2>1. CASE RefusesUnassessed \/ (Refuses /\ UNCHANGED deepMode)
    BY <2>1, RefusalKeepsInv
  <2>2. CASE Took /\ UNCHANGED <<input, deepMode, recommendations, askUser, result>>
    BY <2>2, CallKeepsInv DEF Inv, AssessmentInv, RecommendationsInv,
                              NotShopping, Clarification
  <2> QED  BY <1>8, <2>1, <2>2 DEF GetProduct
<1>9. CASE RecordProductRecommendations
  <2>1. CASE RefusesUnassessed \/ (Refuses /\ UNCHANGED deepMode)
    BY <2>1, RefusalKeepsInv
  <2>2. ASSUME NEW list \in Lists, Accepts, UNCHANGED deepMode,
               recommendations' = [recommendations EXCEPT !.aiSummaries = ToSet(list)]
        PROVE  Inv'
    <3>1. ToSet(list) \subseteq Products
      BY DEF Lists, ToSet, SetToSeqs
    <3>2. RecommendationsInv'
      BY <2>2, <3>1 DEF Inv, RecommendationsInv
    <3> QED
      BY <2>2, <3>2, CallKeepsInv DEF Accepts, Inv, AssessmentInv, NotShopping,
                                      Clarification
  <2> QED  BY <1>9, <2>1, <2>2 DEF RecordProductRecommendations
<1>10. CASE UNCHANGED vars
  BY <1>10 DEF vars, Inv, LoopInv, AssessmentInv, RecommendationsInv, QuestionInv,
               NotShopping, Clarification
<1> QED
  BY <1>1, <1>2, <1>3, <1>4, <1>5, <1>6, <1>7, <1>8, <1>9, <1>10 DEF Next

\* The inductive invariant holds of every turn.
THEOREM InductiveInvariant == Spec => []Inv
BY InvInitially, InvPreserved, PTL DEF Spec

-----------------------------------------------------------------------------
LEMMA QuestionStep ==
  ASSUME Inv, Next, askUser # None
  PROVE  /\ loop'.iteration = loop.iteration
         /\ result'.kind \in {"none", "question", "failed"}
<1>1. loop.phase # "calling" /\ LoopInv /\ (loop.phase # "finished" => result = Unset)
  BY DEF Inv, QuestionInv
<1>2. CASE ToolsDone
  <2>1. ~ShouldContinue
    BY DEF ShouldContinue
  <2>2. /\ loop' = [loop EXCEPT !.phase = "finished"]
        /\ result' = StreamResult("tool_calls", FALSE)
    BY <1>2, <2>1 DEF ToolsDone
  <2>3. result'.kind = "question"
    BY <2>2 DEF StreamResult
  <2> QED  BY <1>1, <2>2, <2>3 DEF LoopInv
<1>3. CASE ProviderFails
  BY <1>1, <1>3 DEF ProviderFails, LoopInv, Failed
<1>4. CASE Took /\ UNCHANGED result
  BY <1>1, <1>4 DEF Took, LoopInv, Unset
<1>5. CallTools \/ Answer => FALSE
  BY <1>1 DEF CallTools, Answer
<1>6. RefusesUnassessed => Took /\ UNCHANGED result
  BY DEF RefusesUnassessed, Refuses
<1>7. Refuses => Took /\ UNCHANGED result
  BY DEF Refuses
<1>8. Accepts => Took /\ UNCHANGED result
  BY DEF Accepts
<1>9. AssessShoppingAmbiguity => Took /\ UNCHANGED result
  BY <1>7, <1>8 DEF AssessShoppingAmbiguity
<1>10. AskUser => Took /\ UNCHANGED result
  BY <1>6, <1>7, <1>8 DEF AskUser
<1>11. SearchProducts => Took /\ UNCHANGED result
  BY <1>6, <1>7 DEF SearchProducts
<1>12. GetProduct => Took /\ UNCHANGED result
  BY <1>6, <1>7 DEF GetProduct
<1>13. RecordProductRecommendations => Took /\ UNCHANGED result
  BY <1>6, <1>7, <1>8 DEF RecordProductRecommendations
<1> QED
  BY <1>2, <1>3, <1>4, <1>5, <1>9, <1>10, <1>11, <1>12, <1>13 DEF Next

LEMMA CatalogStep ==
  ASSUME Next, session'.calls # session.calls
  PROVE  \/ input.image
         \/ /\ deepMode.assessment # None /\ ~NotShopping
            /\ Clarification = None
<1>1. /\ RefusesUnassessed => UNCHANGED session
      /\ Refuses => UNCHANGED session
  BY DEF RefusesUnassessed, Refuses
<1>2. SearchProducts \/ GetProduct
  BY <1>1 DEF Next, CallTools, Answer, ToolsDone, ProviderFails,
              AssessShoppingAmbiguity, AskUser, RecordProductRecommendations
<1>3. ~NeedsAssessment /\ ~Unclear
  BY <1>1, <1>2 DEF SearchProducts, GetProduct
<1> QED  BY <1>3 DEF NeedsAssessment, Unclear

\* After the response with an accepted question the model is not called again,
\* and the catalog waits for an assessment.
THEOREM ToolsRespect == Spec => ToolsRespectAssessment
<1>1. Inv /\ [Next]_vars =>
        [askUser # None => /\ loop'.iteration = loop.iteration
                           /\ result'.kind \in {"none", "question", "failed"}]_vars
  BY QuestionStep
<1>2. [Next]_vars =>
        [session'.calls # session.calls =>
           \/ input.image
           \/ /\ deepMode.assessment # None /\ ~NotShopping
              /\ Clarification = None]_vars
  BY CatalogStep
<1> QED
  BY <1>1, <1>2, InductiveInvariant, PTL
     DEF Spec, ToolsRespectAssessment, QuestionEndsTurn, CatalogOnlyWhenClear

-----------------------------------------------------------------------------

\* The cards shown are of the selected shops, and the observer keeps them.
SelectionInv == ShownWithinSelection /\ "shown" \in DOMAIN seen

\* Where no cards are shown, those shown before remain.
LEMMA NothingShown ==
  ASSUME SelectionInv, UNCHANGED input, UNCHANGED seen \/ Strays \/ Wastes
  PROVE  SelectionInv'
<1>1. seen'.shown = seen.shown /\ "shown" \in DOMAIN seen'
  BY DEF SelectionInv, Strays, Wastes
<1> QED  BY <1>1 DEF SelectionInv, ShownWithinSelection

\* Cards of the selected shops may be added.
LEMMA SelectedShown ==
  ASSUME SelectionInv, UNCHANGED input, NEW cards,
         input.forced # {} => \A p \in cards : ProviderOf[p] \in input.forced,
         seen'.shown = seen.shown \cup cards, DOMAIN seen' = DOMAIN seen
  PROVE  SelectionInv'
BY DEF SelectionInv, ShownWithinSelection

LEMMA SelectionKept ==
  ASSUME SelectionInv, [Next]_vars
  PROVE  SelectionInv'
<1>1. RefusesUnassessed \/ Refuses => SelectionInv'
  BY NothingShown DEF RefusesUnassessed, Refuses
<1>2. CASE CallTools
  BY <1>2, NothingShown DEF CallTools
<1>3. CASE Answer
  BY <1>3, NothingShown DEF Answer
<1>4. CASE ToolsDone
  BY <1>4, NothingShown DEF ToolsDone
<1>5. CASE ProviderFails
  BY <1>5, NothingShown DEF ProviderFails
<1>6. CASE AssessShoppingAmbiguity
  <2>1. Refuses \/ (Accepts /\ (UNCHANGED seen \/ Strays))
    BY <1>6 DEF AssessShoppingAmbiguity
  <2> QED  BY <1>1, <2>1, NothingShown DEF Accepts
<1>7. CASE AskUser
  <2>1. RefusesUnassessed \/ Refuses \/ (Accepts /\ UNCHANGED seen)
    BY <1>7 DEF AskUser
  <2> QED  BY <1>1, <2>1, NothingShown DEF Accepts
<1>8. CASE SearchProducts
  <2>1. ASSUME UNCHANGED input, seen' = [seen EXCEPT !.unavailable = TRUE]
        PROVE  SelectionInv'
    <3>1. seen'.shown = seen.shown \cup {} /\ DOMAIN seen' = DOMAIN seen
      BY <2>1 DEF SelectionInv
    <3> QED  BY <2>1, <3>1, SelectedShown
  <2>2. ASSUME UNCHANGED input, NEW provider \in Providers,
               NEW up \in SUBSET Active(provider), NEW items \in Pages(up),
               seen' = [seen EXCEPT
                 !.shown = seen.shown \cup items,
                 !.strayed = seen.strayed \/ loop.choice # "searchProducts"]
        PROVE  SelectionInv'
    <3>1. seen'.shown = seen.shown \cup items /\ DOMAIN seen' = DOMAIN seen
      BY <2>2 DEF SelectionInv
    <3>2. input.forced # {} => \A p \in items : ProviderOf[p] \in input.forced
      BY DEF Pages, Active, Selected
    <3> QED  BY <2>2, <3>1, <3>2, SelectedShown
  <2> QED  BY <1>1, <1>8, <2>1, <2>2 DEF SearchProducts
<1>9. CASE GetProduct
  <2>1. ASSUME UNCHANGED input, NEW id \in Products, NEW cards \in SUBSET Readable(id),
               seen' = [seen EXCEPT
                 !.shown = seen.shown
                             \cup IF session.calls < MaxToolCalls THEN cards ELSE {},
                 !.wasted = More(seen.wasted)]
        PROVE  SelectionInv'
    <3> DEFINE new == IF session.calls < MaxToolCalls THEN cards ELSE {}
    <3>1. seen'.shown = seen.shown \cup new /\ DOMAIN seen' = DOMAIN seen
      BY <2>1 DEF SelectionInv
    <3>2. input.forced # {} => \A p \in new : ProviderOf[p] \in input.forced
      BY DEF Readable
    <3> QED  BY <2>1, <3>1, <3>2, SelectedShown
  <2> QED  BY <1>1, <1>9, <2>1 DEF GetProduct
<1>10. CASE RecordProductRecommendations
  <2>1. ASSUME UNCHANGED input, NEW list, NEW strayed,
               seen' = [seen EXCEPT !.recorded = list, !.strayed = strayed]
        PROVE  SelectionInv'
    <3>1. seen'.shown = seen.shown \cup {} /\ DOMAIN seen' = DOMAIN seen
      BY <2>1 DEF SelectionInv
    <3> QED  BY <2>1, <3>1, SelectedShown
  <2> QED  BY <1>1, <1>10, <2>1 DEF RecordProductRecommendations, Accepts
<1>11. CASE UNCHANGED vars
  BY <1>11, NothingShown DEF vars
<1> QED
  BY <1>2, <1>3, <1>4, <1>5, <1>6, <1>7, <1>8, <1>9, <1>10, <1>11 DEF Next

\* When the user selected shops, the model sees cards of no other.
THEOREM SelectionHolds == Spec => []ShownWithinSelection
<1>1. Init => SelectionInv
  BY DEF Init, SelectionInv, ShownWithinSelection
<1>2. SelectionInv /\ [Next]_vars => SelectionInv'
  BY SelectionKept
<1>3. SelectionInv => ShownWithinSelection
  BY DEF SelectionInv
<1> QED  BY <1>1, <1>2, <1>3, PTL DEF Spec

-----------------------------------------------------------------------------
(* Five model calls are enough for a model that wastes one: an assessment, *)
(* a search and a record are each made at most once, and with an answer    *)
(* leave one call over.                                                    *)

Assessed == IF deepMode.assessment # None THEN 1 ELSE 0
SearchMade == IF deepMode.searchedProducts THEN 1 ELSE 0
Recorded == IF recommendations.aiSummaries # {} THEN 1 ELSE 0
Progress == Assessed + SearchMade + Recorded

\* The model made the forced calls only; and it wasted at most one.
Steady == ~seen.strayed
Calm == Steady /\ ~seen.unavailable /\ seen.wasted <= 1

SeenInv ==
  /\ {"shown", "recorded", "wasted", "strayed", "unavailable"} \subseteq DOMAIN seen
  /\ seen.wasted \in 0..2
  /\ seen.strayed \in BOOLEAN /\ seen.unavailable \in BOOLEAN

\* A steady model searches once and records all that it found.
FoundInv ==
  Steady =>
    /\ ~deepMode.searchedProducts =>
         recommendations.productIds = << >> /\ recommendations.aiSummaries = {}
    /\ recommendations.aiSummaries # {} => RecommendationsComplete

\* The call a steady model is about to make is the one its state asks for.
ForcedInv ==
  /\ loop.phase = "calling" => loop.left = 0
  /\ Steady /\ loop.phase = "tools" =>
       loop.left <= 1 /\ (loop.left = 1 => loop.choice = NextToolChoice)

\* Each model call is accounted for.
BudgetInv ==
  Calm =>
    /\ loop.phase = "finished" => result.kind \in {"answer", "question"}
    /\ loop.phase # "finished" /\ askUser = None =>
         loop.iteration <= Progress + seen.wasted + loop.left

MisstepInv == Inv /\ SeenInv /\ FoundInv /\ ForcedInv /\ BudgetInv

LEMMA ProgressIsBounded == Progress \in 0..3
<1>1. Assessed \in 0..1 /\ SearchMade \in 0..1 /\ Recorded \in 0..1
  BY DEF Assessed, SearchMade, Recorded
<1> QED  BY <1>1 DEF Progress

\* What the forced choice says of the turn's state.
LEMMA ChoiceMeans ==
  /\ NextToolChoice = "assessShoppingAmbiguity" => deepMode.assessment = None
  /\ NextToolChoice = "searchProducts" => WantsSearch
  /\ NextToolChoice = "recordProductRecommendations" => ~RecommendationsComplete
  /\ NextToolChoice = None /\ askUser = None =>
       /\ ~(deepMode.assessmentRequired /\ deepMode.assessment = None)
       /\ Clarification = None /\ ~WantsSearch /\ RecommendationsComplete
<1>1. None \notin {"assessShoppingAmbiguity", "askUser", "searchProducts",
                   "recordProductRecommendations"}
  BY TurnAssumption DEF TurnAssumption
<1> QED  BY <1>1 DEF NextToolChoice

\* A steady model runs the call its state asks for.
LEMMA CallIsForced ==
  ASSUME MisstepInv, Took, Steady
  PROVE  loop.choice = NextToolChoice
<1>1. loop.phase = "tools" /\ loop.left \in Nat /\ loop.left > 0 /\ loop.left <= 1
  BY DEF MisstepInv, Inv, LoopInv, ForcedInv, Took
<1>2. loop.left = 1
  BY <1>1
<1> QED  BY <1>1, <1>2 DEF MisstepInv, ForcedInv

\* A call that made progress, or was counted as wasted, or ended the turn.
LEMMA CallAccounted ==
  ASSUME MisstepInv, Took, UNCHANGED result, Inv', SeenInv',
         Steady' => Steady,
         askUser' = None => askUser = None,
         Calm' /\ askUser' = None =>
           Calm /\ Progress' + seen'.wasted >= Progress + seen.wasted + 1
  PROVE  ForcedInv' /\ BudgetInv'
<1>1. /\ loop.phase = "tools" /\ loop.left \in Nat /\ loop.left > 0
      /\ loop' = [loop EXCEPT !.left = loop.left - 1]
      /\ loop.iteration \in Nat
  BY DEF MisstepInv, Inv, LoopInv, Took
<1>2. /\ loop'.phase = "tools" /\ loop'.left = loop.left - 1
      /\ loop'.iteration = loop.iteration /\ loop'.choice = loop.choice
  BY <1>1 DEF MisstepInv, Inv, LoopInv
<1>3. Steady' => loop'.left = 0
  BY <1>1, <1>2 DEF MisstepInv, ForcedInv
<1>4. ForcedInv'
  BY <1>2, <1>3 DEF ForcedInv
<1>5. /\ Progress \in 0..3 /\ Progress' \in 0..3
      /\ seen.wasted \in 0..2 /\ seen'.wasted \in 0..2
  <2>1. Progress' \in 0..3
    BY DEF Progress, Assessed, SearchMade, Recorded
  <2> QED  BY <2>1, ProgressIsBounded DEF MisstepInv, SeenInv
<1>6. ASSUME Calm', askUser' = None
      PROVE  loop'.iteration <= Progress' + seen'.wasted + loop'.left
  <2>1. loop.iteration <= Progress + seen.wasted + loop.left
    BY <1>1, <1>6 DEF MisstepInv, BudgetInv
  <2> QED  BY <1>1, <1>2, <1>5, <1>6, <2>1
<1>7. BudgetInv'
  BY <1>2, <1>6 DEF BudgetInv
<1> QED  BY <1>4, <1>7

\* A call that was refused.
LEMMA RefusalAccounted ==
  ASSUME MisstepInv, RefusesUnassessed \/ (Refuses /\ UNCHANGED deepMode), Inv'
  PROVE  MisstepInv'
<1>1. /\ Took /\ UNCHANGED <<recommendations, askUser, result>>
      /\ seen' = [seen EXCEPT !.wasted = More(seen.wasted)]
      /\ deepMode'.assessment = deepMode.assessment
      /\ deepMode'.searchedProducts = deepMode.searchedProducts
  BY DEF RefusesUnassessed, Refuses, Wastes, MisstepInv, Inv, AssessmentInv
<1>2. /\ SeenInv' /\ seen'.strayed = seen.strayed
      /\ seen'.unavailable = seen.unavailable /\ seen'.wasted = More(seen.wasted)
  BY <1>1 DEF MisstepInv, SeenInv, More
<1>3. FoundInv'
  BY <1>1, <1>2 DEF MisstepInv, FoundInv, Steady, RecommendationsComplete
<1>4. Progress' = Progress
  BY <1>1 DEF Progress, Assessed, SearchMade, Recorded
<1>5. Calm' => Calm /\ Progress' + seen'.wasted >= Progress + seen.wasted + 1
  BY <1>2, <1>4, ProgressIsBounded DEF MisstepInv, SeenInv, Calm, Steady, More
<1>6. ForcedInv' /\ BudgetInv'
  BY <1>1, <1>2, <1>5, CallAccounted DEF Steady
<1> QED  BY <1>2, <1>3, <1>6 DEF MisstepInv

LEMMA AssessmentAccounted ==
  ASSUME MisstepInv, AssessShoppingAmbiguity, Inv'
  PROVE  MisstepInv'
<1>1. PICK kind \in {"shopping", "other"}, ambiguous \in BOOLEAN,
           next \in Dimensions \cup {None} :
        LET a == Evaluate(kind, ambiguous, next)
            invalid == /\ kind = "shopping" /\ ambiguous
                       /\ a.dimension = None /\ ~input.skips
        IN IF invalid
           THEN /\ deepMode' = [deepMode EXCEPT !.assessmentRequired = TRUE]
                /\ Refuses
           ELSE /\ Accepts
                /\ deepMode' = [deepMode EXCEPT !.assessment =
                     IF input.skips THEN [a EXCEPT !.dimension = None] ELSE a]
                /\ IF loop.choice = "assessShoppingAmbiguity"
                   THEN UNCHANGED seen ELSE Strays
                /\ UNCHANGED <<recommendations, askUser, session>>
  BY DEF AssessShoppingAmbiguity
<1> DEFINE a == Evaluate(kind, ambiguous, next)
           b == IF input.skips THEN [a EXCEPT !.dimension = None] ELSE a
<1>2. b \in Assessments
  BY EvaluationIsRight
<1> HIDE DEF b
<1>3. CASE /\ deepMode' = [deepMode EXCEPT !.assessmentRequired = TRUE]
           /\ Refuses
  <2>1. /\ Took /\ UNCHANGED <<recommendations, askUser, result>>
        /\ seen' = [seen EXCEPT !.wasted = More(seen.wasted)]
        /\ deepMode'.assessment = deepMode.assessment
        /\ deepMode'.searchedProducts = deepMode.searchedProducts
    BY <1>3 DEF Refuses, Wastes, MisstepInv, Inv, AssessmentInv
  <2>2. /\ SeenInv' /\ seen'.strayed = seen.strayed
        /\ seen'.unavailable = seen.unavailable /\ seen'.wasted = More(seen.wasted)
    BY <2>1 DEF MisstepInv, SeenInv, More
  <2>3. FoundInv'
    BY <2>1, <2>2 DEF MisstepInv, FoundInv, Steady, RecommendationsComplete
  <2>4. Progress' = Progress
    BY <2>1 DEF Progress, Assessed, SearchMade, Recorded
  <2>5. Calm' => Calm /\ Progress' + seen'.wasted >= Progress + seen.wasted + 1
    BY <2>2, <2>4, ProgressIsBounded DEF MisstepInv, SeenInv, Calm, Steady, More
  <2>6. ForcedInv' /\ BudgetInv'
    BY <2>1, <2>2, <2>5, CallAccounted DEF Steady
  <2> QED  BY <2>2, <2>3, <2>6 DEF MisstepInv
<1>4. CASE /\ Accepts /\ deepMode' = [deepMode EXCEPT !.assessment = b]
           /\ IF loop.choice = "assessShoppingAmbiguity"
              THEN UNCHANGED seen ELSE Strays
           /\ UNCHANGED <<recommendations, askUser>>
  <2>1. /\ Took /\ UNCHANGED <<recommendations, askUser, result>>
        /\ deepMode'.assessment = b /\ b # None
        /\ deepMode'.searchedProducts = deepMode.searchedProducts
    BY <1>2, <1>4, TurnAssumption
       DEF TurnAssumption, Accepts, MisstepInv, Inv, AssessmentInv
  <2>2. SeenInv'
    BY <1>4 DEF MisstepInv, SeenInv, Strays
  <2>3. Steady' => UNCHANGED seen /\ loop.choice = "assessShoppingAmbiguity"
    BY <1>4 DEF MisstepInv, SeenInv, Strays, Steady
  <2>4. Steady' => Steady
    BY <2>3 DEF Steady
  <2>5. FoundInv'
    BY <2>1, <2>4 DEF MisstepInv, FoundInv, RecommendationsComplete
  <2>6. ASSUME Calm'
        PROVE  Calm /\ Progress' + seen'.wasted >= Progress + seen.wasted + 1
    <3>1. UNCHANGED seen /\ loop.choice = "assessShoppingAmbiguity" /\ Calm
      BY <2>3, <2>6 DEF Calm, Steady
    <3>2. deepMode.assessment = None
      BY <2>1, <3>1, CallIsForced, ChoiceMeans DEF Calm
    <3>3. Assessed = 0 /\ Assessed' = 1
      BY <2>1, <3>2 DEF Assessed
    <3>4. SearchMade' = SearchMade /\ Recorded' = Recorded
      BY <2>1 DEF SearchMade, Recorded
    <3>5. SearchMade \in 0..1 /\ Recorded \in 0..1 /\ seen.wasted \in 0..2
      BY DEF SearchMade, Recorded, MisstepInv, SeenInv
    <3> QED  BY <3>1, <3>3, <3>4, <3>5 DEF Progress
  <2>7. ForcedInv' /\ BudgetInv'
    BY <2>1, <2>2, <2>4, <2>6, CallAccounted
  <2> QED  BY <2>2, <2>5, <2>7 DEF MisstepInv
<1> QED  BY <1>1, <1>3, <1>4 DEF b

LEMMA QuestionAccounted ==
  ASSUME MisstepInv, AskUser, Inv'
  PROVE  MisstepInv'
<1>1. CASE RefusesUnassessed \/ (Refuses /\ UNCHANGED deepMode)
  BY <1>1, RefusalAccounted
<1>2. ASSUME NEW dimension \in Dimensions, Accepts, askUser' = dimension,
             UNCHANGED <<deepMode, recommendations, session, seen>>
      PROVE  MisstepInv'
  <2>1. Took /\ UNCHANGED <<result, deepMode, recommendations, seen>> /\ askUser' # None
    BY <1>2, TurnAssumption DEF TurnAssumption, Accepts
  <2>2. SeenInv' /\ FoundInv' /\ (Steady' => Steady)
    BY <2>1 DEF MisstepInv, SeenInv, FoundInv, Steady, RecommendationsComplete
  <2>3. ForcedInv' /\ BudgetInv'
    BY <2>1, <2>2, CallAccounted
  <2> QED  BY <2>2, <2>3 DEF MisstepInv
<1> QED  BY <1>1, <1>2 DEF AskUser

LEMMA SearchAccounted ==
  ASSUME MisstepInv, SearchProducts, Inv'
  PROVE  MisstepInv'
<1>1. CASE RefusesUnassessed \/ (Refuses /\ UNCHANGED deepMode)
  BY <1>1, RefusalAccounted
<1>2. ASSUME Took, seen' = [seen EXCEPT !.unavailable = TRUE],
             UNCHANGED <<askUser, result, deepMode, recommendations>>
      PROVE  MisstepInv'
  <2>1. SeenInv' /\ (Steady' => Steady) /\ ~Calm'
    BY <1>2 DEF MisstepInv, SeenInv, Steady, Calm
  <2>2. FoundInv'
    BY <1>2, <2>1 DEF MisstepInv, FoundInv, RecommendationsComplete
  <2>3. ForcedInv' /\ BudgetInv'
    BY <1>2, <2>1, CallAccounted
  <2> QED  BY <2>1, <2>2, <2>3 DEF MisstepInv
<1>3. ASSUME Took, UNCHANGED <<askUser, result>>, NEW items, NEW ids,
             recommendations' = [recommendations EXCEPT !.productIds = ids],
             deepMode' = [deepMode EXCEPT
               !.searchedProducts = deepMode.searchedProducts \/ Searched(items)],
             seen' = [seen EXCEPT
               !.shown = seen.shown \cup items,
               !.strayed = seen.strayed \/ loop.choice # "searchProducts"]
      PROVE  MisstepInv'
  <2>1. /\ deepMode'.searchedProducts = TRUE
        /\ deepMode'.assessment = deepMode.assessment
        /\ recommendations'.aiSummaries = recommendations.aiSummaries
    BY <1>3 DEF Searched, MisstepInv, Inv, AssessmentInv, RecommendationsInv
  <2>2. /\ SeenInv' /\ seen'.unavailable = seen.unavailable
        /\ seen'.wasted = seen.wasted
        /\ seen'.strayed <=> seen.strayed \/ loop.choice # "searchProducts"
    BY <1>3 DEF MisstepInv, SeenInv
  <2>3. ASSUME Steady'
        PROVE  /\ Steady /\ ~deepMode.searchedProducts
               /\ recommendations.aiSummaries = {}
    <3>1. Steady /\ loop.choice = "searchProducts"
      BY <2>2, <2>3 DEF Steady
    <3>2. WantsSearch
      BY <1>3, <3>1, CallIsForced, ChoiceMeans
    <3> QED  BY <3>1, <3>2 DEF WantsSearch, MisstepInv, FoundInv
  <2>4. FoundInv'
    BY <2>1, <2>3 DEF FoundInv
  <2>5. ASSUME Calm'
        PROVE  Calm /\ Progress' + seen'.wasted >= Progress + seen.wasted + 1
    <3>1. Calm
      BY <2>2, <2>3, <2>5 DEF Calm
    <3>2. SearchMade = 0 /\ SearchMade' = 1
      BY <2>1, <2>3, <2>5 DEF SearchMade, Calm
    <3>3. Assessed' = Assessed /\ Recorded' = Recorded
      BY <2>1 DEF Assessed, Recorded
    <3>4. Assessed \in 0..1 /\ Recorded \in 0..1 /\ seen.wasted \in 0..2
      BY DEF Assessed, Recorded, MisstepInv, SeenInv
    <3> QED  BY <2>2, <3>1, <3>2, <3>3, <3>4 DEF Progress
  <2>6. ForcedInv' /\ BudgetInv'
    BY <1>3, <2>2, <2>3, <2>5, CallAccounted
  <2> QED  BY <2>2, <2>4, <2>6 DEF MisstepInv
<1> QED  BY <1>1, <1>2, <1>3 DEF SearchProducts

LEMMA LookUpAccounted ==
  ASSUME MisstepInv, GetProduct, Inv'
  PROVE  MisstepInv'
<1>1. CASE RefusesUnassessed \/ (Refuses /\ UNCHANGED deepMode)
  BY <1>1, RefusalAccounted
<1>2. ASSUME Took, UNCHANGED <<deepMode, recommendations, askUser, result>>, NEW new,
             seen' = [seen EXCEPT !.shown = seen.shown \cup new,
                                  !.wasted = More(seen.wasted)]
      PROVE  MisstepInv'
  <2>1. /\ SeenInv' /\ seen'.strayed = seen.strayed
        /\ seen'.unavailable = seen.unavailable /\ seen'.wasted = More(seen.wasted)
    BY <1>2 DEF MisstepInv, SeenInv, More
  <2>2. FoundInv' /\ (Steady' => Steady)
    BY <1>2, <2>1 DEF MisstepInv, FoundInv, Steady, RecommendationsComplete
  <2>3. Progress' = Progress
    BY <1>2 DEF Progress, Assessed, SearchMade, Recorded
  <2>4. Calm' => Calm /\ Progress' + seen'.wasted >= Progress + seen.wasted + 1
    BY <2>1, <2>3, ProgressIsBounded DEF MisstepInv, SeenInv, Calm, Steady, More
  <2>5. ForcedInv' /\ BudgetInv'
    BY <1>2, <2>1, <2>2, <2>4, CallAccounted
  <2> QED  BY <2>1, <2>2, <2>5 DEF MisstepInv
<1> QED  BY <1>1, <1>2 DEF GetProduct

LEMMA RecordAccounted ==
  ASSUME MisstepInv, RecordProductRecommendations, Inv'
  PROVE  MisstepInv'
<1>1. CASE RefusesUnassessed \/ (Refuses /\ UNCHANGED deepMode)
  BY <1>1, RefusalAccounted
<1>2. ASSUME NEW list, Recordable(list), Accepts, UNCHANGED <<deepMode, askUser>>,
             recommendations' = [recommendations EXCEPT !.aiSummaries = ToSet(list)],
             seen' = [seen EXCEPT
               !.recorded = list,
               !.strayed = seen.strayed \/ loop.choice # "recordProductRecommendations"]
      PROVE  MisstepInv'
  <2>1. /\ Took /\ UNCHANGED result
        /\ recommendations'.productIds = recommendations.productIds
        /\ recommendations'.aiSummaries = ToSet(recommendations.productIds)
        /\ recommendations.productIds \in Seq(Products)
        /\ Len(recommendations.productIds) \in 1..MaxRecommendations
    BY <1>2 DEF Accepts, Recordable, MisstepInv, Inv, RecommendationsInv
  <2>2. /\ SeenInv' /\ seen'.unavailable = seen.unavailable
        /\ seen'.wasted = seen.wasted
        /\ seen'.strayed
             <=> seen.strayed \/ loop.choice # "recordProductRecommendations"
    BY <1>2 DEF MisstepInv, SeenInv
  <2>3. recommendations'.aiSummaries # {} /\ recommendations.productIds # << >>
    <3>1. 1 \in DOMAIN recommendations.productIds
      BY <2>1, TurnAssumption DEF TurnAssumption
    <3>2. recommendations.productIds[1] \in recommendations'.aiSummaries
      BY <2>1, <3>1 DEF ToSet
    <3>3. recommendations.productIds # << >>
      BY <2>1, TurnAssumption DEF TurnAssumption
    <3> QED  BY <3>2, <3>3
  <2>4. ASSUME Steady'
        PROVE  Steady /\ recommendations.aiSummaries = {}
    <3>1. Steady /\ loop.choice = "recordProductRecommendations"
      BY <2>2, <2>4 DEF Steady
    <3>2. ~RecommendationsComplete
      BY <2>1, <3>1, CallIsForced, ChoiceMeans
    <3> QED  BY <3>1, <3>2 DEF MisstepInv, FoundInv
  <2>5. FoundInv'
    BY <1>2, <2>1, <2>3, <2>4 DEF MisstepInv, FoundInv, RecommendationsComplete
  <2>6. ASSUME Calm'
        PROVE  Calm /\ Progress' + seen'.wasted >= Progress + seen.wasted + 1
    <3>1. Calm
      BY <2>2, <2>4, <2>6 DEF Calm
    <3>2. Recorded = 0 /\ Recorded' = 1
      BY <2>3, <2>4, <2>6 DEF Recorded, Calm
    <3>3. Assessed' = Assessed /\ SearchMade' = SearchMade
      BY <1>2 DEF Assessed, SearchMade
    <3>4. Assessed \in 0..1 /\ SearchMade \in 0..1 /\ seen.wasted \in 0..2
      BY DEF Assessed, SearchMade, MisstepInv, SeenInv
    <3> QED  BY <2>2, <3>1, <3>2, <3>3, <3>4 DEF Progress
  <2>7. ForcedInv' /\ BudgetInv'
    BY <1>2, <2>1, <2>2, <2>4, <2>6, CallAccounted
  <2> QED  BY <2>2, <2>5, <2>7 DEF MisstepInv
<1> QED  BY <1>1, <1>2 DEF RecordProductRecommendations

\* The loop's own steps.
LEMMA LoopAccounted ==
  ASSUME MisstepInv, CallTools \/ Answer \/ ToolsDone \/ ProviderFails, Inv',
         MaxIterations >= 5
  PROVE  MisstepInv'
<1>1. /\ loop.iteration \in Nat /\ loop.left \in Nat /\ Progress \in 0..3
      /\ seen.wasted \in 0..2 /\ MaxIterations \in Nat
  BY ProgressIsBounded, TurnAssumption
     DEF MisstepInv, Inv, LoopInv, SeenInv, TurnAssumption
<1>2. UNCHANGED <<deepMode, recommendations, askUser>> /\ (UNCHANGED seen \/ Strays)
  BY DEF CallTools, Answer, ToolsDone, ProviderFails
<1>3. /\ SeenInv' /\ (Steady' => UNCHANGED seen /\ Steady)
  BY <1>2 DEF MisstepInv, SeenInv, Strays, Steady
<1>4. FoundInv'
  BY <1>2, <1>3 DEF MisstepInv, FoundInv, RecommendationsComplete
<1>5. Calm' => Calm /\ UNCHANGED seen
  BY <1>3 DEF Calm, Steady
<1>6. Progress' = Progress
  BY <1>2 DEF Progress, Assessed, SearchMade, Recorded
<1>7. CASE CallTools
  <2>1. PICK n \in 1..MaxBatch :
          /\ loop' = [phase |-> "tools", iteration |-> loop.iteration + 1,
                      left |-> n, choice |-> NextToolChoice]
          /\ IF n > 1 THEN Strays ELSE UNCHANGED seen
    BY <1>7 DEF CallTools
  <2>2. Steady' => n = 1
    BY <2>1, TurnAssumption DEF Strays, Steady, MisstepInv, SeenInv, TurnAssumption
  <2>3. NextToolChoice' = NextToolChoice
    BY <1>2 DEF NextToolChoice, WantsSearch, Clarification, RecommendationsComplete
  <2>4. ForcedInv'
    BY <2>1, <2>2, <2>3 DEF ForcedInv
  <2>5. ASSUME Calm', askUser' = None
        PROVE  loop'.iteration <= Progress' + seen'.wasted + loop'.left
    <3>1. /\ loop.phase = "calling" /\ loop.left = 0 /\ askUser = None
          /\ n = 1 /\ Calm /\ UNCHANGED seen
      BY <1>2, <1>5, <1>7, <2>2, <2>5 DEF CallTools, MisstepInv, ForcedInv, Calm
    <3>2. loop.iteration <= Progress + seen.wasted + loop.left
      BY <3>1 DEF MisstepInv, BudgetInv
    <3> QED  BY <1>1, <1>6, <2>1, <3>1, <3>2
  <2>6. BudgetInv'
    BY <2>1, <2>5 DEF BudgetInv
  <2> QED  BY <1>3, <1>4, <2>4, <2>6 DEF MisstepInv
<1>8. CASE Answer
  <2>1. loop'.phase = "finished"
    BY <1>8 DEF Answer, MisstepInv, Inv, LoopInv
  <2>2. PICK finish \in {"stop", "length"}, hasText \in BOOLEAN :
          /\ result' = StreamResult(finish, hasText)
          /\ IF finish = "stop" /\ hasText /\ NextToolChoice = None
             THEN UNCHANGED seen ELSE Strays
    BY <1>8 DEF Answer
  <2>3. ASSUME Steady' PROVE result'.kind = "answer"
    <3>1. finish = "stop" /\ hasText /\ NextToolChoice = None
      BY <2>2, <2>3 DEF Strays, Steady, MisstepInv, SeenInv
    <3>2. askUser = None
      BY <1>8 DEF Answer, MisstepInv, Inv, QuestionInv
    <3> QED  BY <2>2, <3>1, <3>2, ChoiceMeans DEF StreamResult
  <2>4. ForcedInv' /\ BudgetInv'
    BY <2>1, <2>3 DEF ForcedInv, BudgetInv, Calm
  <2> QED  BY <1>3, <1>4, <2>4 DEF MisstepInv
<1>9. CASE ToolsDone
  <2>1. loop.phase = "tools" /\ loop.left = 0 /\ UNCHANGED seen
    BY <1>9 DEF ToolsDone
  <2>2. CASE ShouldContinue
    <3>1. /\ loop'.phase = "calling" /\ loop'.left = 0
          /\ loop'.iteration = loop.iteration
      BY <1>9, <2>1, <2>2 DEF ToolsDone, MisstepInv, Inv, LoopInv
    <3>2. ForcedInv'
      BY <3>1 DEF ForcedInv
    <3>3. Calm' /\ askUser' = None
            => loop'.iteration <= Progress' + seen'.wasted + loop'.left
      BY <1>2, <1>5, <1>6, <2>1, <3>1 DEF MisstepInv, BudgetInv
    <3>4. BudgetInv'
      BY <3>1, <3>3 DEF BudgetInv
    <3> QED  BY <1>3, <1>4, <3>2, <3>4 DEF MisstepInv
  <2>3. CASE ~ShouldContinue
    <3>1. loop'.phase = "finished" /\ result' = StreamResult("tool_calls", FALSE)
      BY <1>9, <2>3 DEF ToolsDone, MisstepInv, Inv, LoopInv
    <3>2. ASSUME Calm' PROVE askUser # None
      <4>1. Calm /\ seen.wasted <= 1
        BY <1>5, <3>2 DEF Calm
      <4>2. ASSUME askUser = None PROVE FALSE
        <5>1. loop.iteration <= Progress + seen.wasted + loop.left
          BY <2>1, <4>1, <4>2 DEF MisstepInv, BudgetInv
        <5>2. ~(loop.iteration < MaxIterations)
          BY <2>3, <4>2 DEF ShouldContinue
        <5> QED  BY <1>1, <2>1, <4>1, <5>1, <5>2
      <4> QED  BY <4>2
    <3>3. Calm' => result'.kind = "question"
      BY <3>1, <3>2 DEF StreamResult
    <3>4. ForcedInv' /\ BudgetInv'
      BY <3>1, <3>3 DEF ForcedInv, BudgetInv
    <3> QED  BY <1>3, <1>4, <3>4 DEF MisstepInv
  <2> QED  BY <2>2, <2>3
<1>10. CASE ProviderFails
  <2>1. loop'.phase = "finished" /\ ~Steady'
    BY <1>10 DEF ProviderFails, Strays, Steady, MisstepInv, SeenInv, Inv, LoopInv
  <2>2. ForcedInv' /\ BudgetInv'
    BY <2>1 DEF ForcedInv, BudgetInv, Calm
  <2> QED  BY <1>3, <1>4, <2>2 DEF MisstepInv
<1> QED  BY <1>7, <1>8, <1>9, <1>10

\* A model that follows the forced choices, and wastes one call at most, ends
\* the turn with an answer or a question.
THEOREM MisstepsAreSurvived ==
  ASSUME MaxIterations >= 5
  PROVE  Spec => []OneMisstepIsSurvived
<1>1. Init => MisstepInv
  <2> SUFFICES ASSUME Init PROVE MisstepInv
    OBVIOUS
  <2>1. Inv
    BY InvInitially
  <2>2. SeenInv
    BY DEF Init, SeenInv
  <2>3. FoundInv
    BY DEF Init, FoundInv
  <2>4. ForcedInv
    BY DEF Init, ForcedInv
  <2>5. BudgetInv
    <3>1. loop.iteration = 0 /\ loop.left = 0 /\ seen.wasted = 0
          /\ loop.phase = "calling"
      BY DEF Init
    <3> QED  BY <3>1, ProgressIsBounded DEF BudgetInv
  <2> QED  BY <2>1, <2>2, <2>3, <2>4, <2>5 DEF MisstepInv
<1>2. MisstepInv /\ [Next]_vars => MisstepInv'
  <2> SUFFICES ASSUME MisstepInv, [Next]_vars PROVE MisstepInv'
    OBVIOUS
  <2>1. Inv'
    BY InvPreserved DEF MisstepInv
  <2>2. CASE UNCHANGED vars
    BY <2>1, <2>2 DEF vars, MisstepInv, SeenInv, FoundInv, ForcedInv, BudgetInv,
         Steady, Calm, Progress, Assessed, SearchMade, Recorded, NextToolChoice,
         WantsSearch, Clarification, RecommendationsComplete
  <2>3. CASE Next
    BY <2>1, <2>3, LoopAccounted, AssessmentAccounted, QuestionAccounted,
       SearchAccounted, LookUpAccounted, RecordAccounted DEF Next
  <2> QED  BY <2>2, <2>3
<1>3. MisstepInv => OneMisstepIsSurvived
  BY DEF MisstepInv, BudgetInv, Calm, Steady, OneMisstepIsSurvived
<1> QED  BY <1>1, <1>2, <1>3, PTL DEF Spec

-----------------------------------------------------------------------------
(* A forced search has a shop to ask and a call left to ask it with: until *)
(* a search succeeds or fails, only look-ups take calls and no shop is     *)
(* given up.                                                               *)

SessionInv ==
  /\ input.forced \subseteq Providers
  /\ session \in [calls : Nat, authorized : SUBSET Products,
                  exhausted : SUBSET Providers]
  /\ ~deepMode.searchedProducts /\ ~seen.unavailable =>
       /\ session.exhausted = {}
       /\ seen.wasted <= 1 => session.calls <= seen.wasted

CatalogInv == Inv /\ SeenInv /\ SessionInv

\* A call that does not reach the catalog.
LEMMA CatalogUnasked ==
  ASSUME CatalogInv, UNCHANGED <<input, session>>, Inv',
         deepMode'.searchedProducts = deepMode.searchedProducts,
         DOMAIN seen' = DOMAIN seen,
         seen'.strayed \in BOOLEAN, seen'.unavailable = seen.unavailable,
         seen'.wasted = seen.wasted \/ seen'.wasted = More(seen.wasted)
  PROVE  CatalogInv'
<1>1. SeenInv'
  BY DEF CatalogInv, SeenInv, More
<1>2. seen'.wasted <= 1 => seen.wasted <= seen'.wasted /\ seen.wasted \in Nat
  BY DEF CatalogInv, SeenInv, More
<1>3. SessionInv'
  BY <1>1, <1>2 DEF CatalogInv, SessionInv, SeenInv
<1> QED  BY <1>1, <1>3 DEF CatalogInv

\* What a refusal and a misstep do to the observer.
LEMMA ObserverMoves ==
  ASSUME CatalogInv, UNCHANGED seen \/ Strays \/ Wastes
  PROVE  /\ DOMAIN seen' = DOMAIN seen
         /\ seen'.strayed \in BOOLEAN /\ seen'.unavailable = seen.unavailable
         /\ seen'.wasted = seen.wasted \/ seen'.wasted = More(seen.wasted)
BY DEF CatalogInv, SeenInv, Strays, Wastes

\* A search or a look-up: the call is counted, and it failed, or found
\* something, or was wasted.
LEMMA CatalogAsked ==
  ASSUME CatalogInv, UNCHANGED input, Inv', SeenInv', session'.calls = session.calls + 1,
         session' \in [calls : Nat, authorized : SUBSET Products,
                       exhausted : SUBSET Providers],
         \/ seen'.unavailable
         \/ deepMode'.searchedProducts
         \/ /\ deepMode'.searchedProducts = deepMode.searchedProducts
            /\ seen'.unavailable = seen.unavailable
            /\ seen'.wasted = More(seen.wasted)
            /\ session'.exhausted = session.exhausted
  PROVE  CatalogInv'
<1>1. SessionInv'
  <2>1. CASE seen'.unavailable \/ deepMode'.searchedProducts
    BY <2>1 DEF CatalogInv, SessionInv
  <2>2. CASE /\ deepMode'.searchedProducts = deepMode.searchedProducts
             /\ seen'.unavailable = seen.unavailable
             /\ seen'.wasted = More(seen.wasted)
             /\ session'.exhausted = session.exhausted
    <3>1. seen'.wasted <= 1 => seen.wasted <= 1 /\ seen'.wasted = seen.wasted + 1
      BY <2>2 DEF CatalogInv, SeenInv, More
    <3>2. session.calls \in Nat /\ seen.wasted \in 0..2
      BY DEF CatalogInv, SeenInv, SessionInv
    <3>3. ASSUME ~deepMode'.searchedProducts, ~seen'.unavailable
          PROVE  /\ session'.exhausted = {}
                 /\ seen'.wasted <= 1 => session'.calls <= seen'.wasted
      <4>1. /\ session.exhausted = {}
            /\ seen.wasted <= 1 => session.calls <= seen.wasted
        BY <2>2, <3>3 DEF CatalogInv, SessionInv
      <4> QED  BY <2>2, <3>1, <3>2, <4>1
    <3> QED  BY <3>3 DEF CatalogInv, SessionInv
  <2> QED  BY <2>1, <2>2
<1> QED  BY <1>1 DEF CatalogInv

LEMMA CatalogKept ==
  ASSUME CatalogInv, [Next]_vars
  PROVE  CatalogInv'
<1>1. Inv'
  BY InvPreserved DEF CatalogInv
<1>0. UNCHANGED input
  BY DEF Next, CallTools, Answer, ToolsDone, ProviderFails, AssessShoppingAmbiguity,
         AskUser, SearchProducts, GetProduct, RecordProductRecommendations,
         RefusesUnassessed, Refuses, Accepts, vars
<1>2. ASSUME RefusesUnassessed \/ (Refuses /\ UNCHANGED deepMode) PROVE CatalogInv'
  <2>1. Wastes /\ UNCHANGED session
    BY <1>2 DEF RefusesUnassessed, Refuses
  <2>2. deepMode'.searchedProducts = deepMode.searchedProducts
    BY <1>2 DEF RefusesUnassessed, CatalogInv, Inv, AssessmentInv
  <2> QED  BY <1>0, <1>1, <2>1, <2>2, ObserverMoves, CatalogUnasked
<1>3. ASSUME UNCHANGED <<session, deepMode>>, UNCHANGED seen \/ Strays
      PROVE  CatalogInv'
  BY <1>0, <1>1, <1>3, ObserverMoves, CatalogUnasked
<1>4. CASE CallTools \/ Answer \/ ToolsDone \/ ProviderFails \/ UNCHANGED vars
  BY <1>3, <1>4 DEF CallTools, Answer, ToolsDone, ProviderFails, vars
<1>5. CASE AssessShoppingAmbiguity
  <2>1. /\ UNCHANGED session
        /\ Wastes \/ UNCHANGED seen \/ Strays
        /\ \E b, r : \/ deepMode' = [deepMode EXCEPT !.assessmentRequired = r]
                    \/ deepMode' = [deepMode EXCEPT !.assessment = b]
    BY <1>5 DEF AssessShoppingAmbiguity, Refuses
  <2>2. deepMode'.searchedProducts = deepMode.searchedProducts
    BY <2>1 DEF CatalogInv, Inv, AssessmentInv
  <2> QED  BY <1>0, <1>1, <2>1, <2>2, ObserverMoves, CatalogUnasked
<1>6. CASE AskUser
  BY <1>2, <1>3, <1>6 DEF AskUser
<1>7. CASE SearchProducts
  <2>1. ASSUME NEW provider \in Providers,
               NEW up \in SUBSET Active(provider), NEW items \in SUBSET Products,
               session' = SessionAfter(provider, up, items)
        PROVE  /\ session'.calls = session.calls + 1
               /\ session' \in [calls : Nat, authorized : SUBSET Products,
                                exhausted : SUBSET Providers]
    <3>1. session.calls + 1 \in Nat
      BY DEF CatalogInv, SessionInv
    <3>2. Active(provider) \subseteq Providers
      BY DEF Active, Selected, CatalogInv, SessionInv
    <3> QED  BY <2>1, <3>1, <3>2 DEF SessionAfter, CatalogInv, SessionInv
  <2>2. ASSUME NEW provider \in Providers, session' = SessionAfter(provider, {}, {}),
               seen' = [seen EXCEPT !.unavailable = TRUE]
        PROVE  CatalogInv'
    <3>1. SeenInv' /\ seen'.unavailable
      BY <2>2 DEF CatalogInv, SeenInv
    <3> QED  BY <1>0, <1>1, <2>1, <2>2, <3>1, CatalogAsked
  <2>3. ASSUME NEW provider \in Providers,
               NEW up \in SUBSET Active(provider), NEW items \in SUBSET Products,
               session' = SessionAfter(provider, up, items),
               deepMode' = [deepMode EXCEPT
                 !.searchedProducts = deepMode.searchedProducts \/ Searched(items)],
               seen' = [seen EXCEPT
                 !.shown = seen.shown \cup items,
                 !.strayed = seen.strayed \/ loop.choice # "searchProducts"]
        PROVE  CatalogInv'
    <3>1. SeenInv'
      BY <2>3 DEF CatalogInv, SeenInv
    <3>2. deepMode'.searchedProducts
      BY <2>3 DEF Searched, CatalogInv, Inv, AssessmentInv
    <3> QED  BY <1>0, <1>1, <2>1, <2>3, <3>1, <3>2, CatalogAsked
  <2> QED  BY <1>2, <1>7, <2>2, <2>3 DEF SearchProducts, Pages
<1>8. CASE GetProduct
  <2>1. ASSUME UNCHANGED deepMode, session' = [session EXCEPT !.calls = session.calls + 1],
               NEW new, seen' = [seen EXCEPT !.shown = seen.shown \cup new,
                                             !.wasted = More(seen.wasted)]
        PROVE  CatalogInv'
    <3>1. /\ session'.calls = session.calls + 1
          /\ session'.exhausted = session.exhausted
          /\ session' \in [calls : Nat, authorized : SUBSET Products,
                           exhausted : SUBSET Providers]
      BY <2>1 DEF CatalogInv, SessionInv
    <3>2. /\ SeenInv' /\ seen'.unavailable = seen.unavailable
          /\ seen'.wasted = More(seen.wasted)
      BY <2>1 DEF CatalogInv, SeenInv, More
    <3> QED  BY <1>0, <1>1, <2>1, <3>1, <3>2, CatalogAsked
  <2> QED  BY <1>2, <1>8, <2>1 DEF GetProduct
<1>9. CASE RecordProductRecommendations
  <2>1. ASSUME UNCHANGED <<session, deepMode>>, NEW list, NEW strayed \in BOOLEAN,
               seen' = [seen EXCEPT !.recorded = list, !.strayed = strayed]
        PROVE  CatalogInv'
    <3>1. /\ DOMAIN seen' = DOMAIN seen
          /\ seen'.strayed \in BOOLEAN /\ seen'.unavailable = seen.unavailable
          /\ seen'.wasted = seen.wasted
      BY <2>1 DEF CatalogInv, SeenInv
    <3> QED  BY <1>0, <1>1, <2>1, <3>1, CatalogUnasked
  <2>2. (seen.strayed \/ loop.choice # "recordProductRecommendations") \in BOOLEAN
    OBVIOUS
  <2> QED  BY <1>2, <1>9, <2>1, <2>2 DEF RecordProductRecommendations
<1> QED
  BY <1>4, <1>5, <1>6, <1>7, <1>8, <1>9 DEF Next

LEMMA CatalogForcesAcceptable ==
  ASSUME CatalogInv, MaxToolCalls >= 2
  PROVE  ForcedChoiceIsAcceptable
<1>1. /\ None # "askUser" /\ None # "searchProducts"
      /\ None # "recordProductRecommendations"
  BY TurnAssumption DEF TurnAssumption
<1>2. ASSUME NextToolChoice = "askUser"
      PROVE  ~NeedsAssessment /\ ~NotShopping
  <2>1. Clarification # None
    BY <1>1, <1>2 DEF NextToolChoice
  <2> QED  BY <2>1 DEF CatalogInv, Inv, AssessmentInv, Clarification, NeedsAssessment
<1>3. ASSUME NextToolChoice = "searchProducts"
      PROVE  /\ ~NeedsAssessment /\ ~NotShopping /\ Clarification = None
             /\ ShopLeft \/ seen.unavailable
             /\ session.calls < MaxToolCalls \/ seen.unavailable \/ seen.wasted >= 2
  <2>1. WantsSearch /\ Clarification = None
    BY <1>1, <1>3 DEF NextToolChoice
  <2>2. ~NeedsAssessment /\ ~NotShopping
    BY <2>1 DEF WantsSearch, NeedsAssessment, NotShopping
  <2>3. ASSUME ~seen.unavailable
        PROVE  ShopLeft /\ (seen.wasted <= 1 => session.calls < MaxToolCalls)
    <3>1. /\ session.exhausted = {}
          /\ seen.wasted <= 1 => session.calls <= seen.wasted
      BY <2>1, <2>3 DEF WantsSearch, CatalogInv, SessionInv
    <3>2. PICK provider \in Providers : TRUE
      BY TurnAssumption DEF TurnAssumption
    <3>3. Selected(provider) # {}
      BY DEF Selected
    <3>4. ShopLeft
      BY <3>1, <3>3 DEF ShopLeft, Active
    <3>5. session.calls \in Nat /\ seen.wasted \in 0..2 /\ MaxToolCalls \in Nat
      BY TurnAssumption DEF CatalogInv, SessionInv, SeenInv, TurnAssumption
    <3> QED  BY <3>1, <3>4, <3>5
  <2>4. seen.wasted \in 0..2
    BY DEF CatalogInv, SeenInv
  <2> QED  BY <2>1, <2>2, <2>3, <2>4
<1>4. ASSUME NextToolChoice = "recordProductRecommendations", ~NotShopping,
             ~(Len(recommendations.productIds) > MaxRecommendations)
      PROVE  /\ ~NeedsAssessment /\ Clarification = None
             /\ Recordable(recommendations.productIds)
  <2>1. /\ askUser = None /\ Clarification = None /\ ~RecommendationsComplete
        /\ ~(deepMode.assessmentRequired /\ deepMode.assessment = None)
    BY <1>1, <1>4 DEF NextToolChoice
  <2>2. ~NeedsAssessment
    BY <2>1 DEF CatalogInv, Inv, AssessmentInv, NeedsAssessment
  <2>3. recommendations.productIds \in Seq(Products)
    BY DEF CatalogInv, Inv, RecommendationsInv
  <2>4. recommendations.productIds # << >>
    <3>1. ToSet(<< >>) = {}
      BY DEF ToSet
    <3> QED  BY <2>1, <3>1 DEF RecommendationsComplete
  <2>5. Len(recommendations.productIds) \in 1..MaxRecommendations
    BY <1>4, <2>3, <2>4, TurnAssumption DEF TurnAssumption
  <2> QED  BY <2>1, <2>2, <2>5 DEF Recordable
<1> QED  BY <1>2, <1>3, <1>4 DEF ForcedChoiceIsAcceptable

\* With two catalog calls or more, the model is never forced to make a call
\* that can only be refused, or only fail, other than in the excepted states: it
\* was called no shopping request, too much was found, a search failed before,
\* or two calls were wasted.
THEOREM ForcedChoices ==
  ASSUME MaxToolCalls >= 2
  PROVE  Spec => []ForcedChoiceIsAcceptable
<1>1. Init => CatalogInv
  <2> SUFFICES ASSUME Init PROVE CatalogInv
    OBVIOUS
  <2>1. SeenInv
    BY DEF Init, SeenInv
  <2>2. SessionInv
    BY DEF Init, SessionInv
  <2> QED  BY <2>1, <2>2, InvInitially DEF CatalogInv
<1>2. CatalogInv /\ [Next]_vars => CatalogInv'
  BY CatalogKept
<1>3. CatalogInv => ForcedChoiceIsAcceptable
  BY CatalogForcesAcceptable
<1> QED  BY <1>1, <1>2, <1>3, PTL DEF Spec

-----------------------------------------------------------------------------
(* An answer is stored with what was recorded: the products found are      *)
(* distinct, and the list last recorded is what was found until then; if   *)
(* each product found is on it, nothing was found since.                   *)

Distinct(list) == \A i, j \in DOMAIN list : list[i] = list[j] => i = j

\* The catalog calls the model calls so far may have made.
Granted(iterations) == iterations * MaxBatch

ShapeInv ==
  /\ input \in [image : BOOLEAN, skips : BOOLEAN, forced : SUBSET Providers]
  /\ askUser \in Dimensions \cup {None}
  /\ session \in [calls : Nat, authorized : SUBSET Products, exhausted : SUBSET Providers]
  /\ "recorded" \in DOMAIN seen

CallsInv ==
  /\ loop.iteration <= MaxIterations /\ loop.left <= MaxBatch
  /\ loop.phase = "calling" => loop.iteration < MaxIterations
  /\ session.calls + loop.left <= Granted(loop.iteration)

ListInv ==
  LET ids == recommendations.productIds
  IN /\ Distinct(ids)
     /\ session.authorized \subseteq ToSet(ids)
     /\ seen.recorded \in Seq(Products) /\ Len(seen.recorded) <= Len(ids)
     /\ \A i \in 1..Len(seen.recorded) : ids[i] = seen.recorded[i]
     /\ recommendations.aiSummaries = ToSet(seen.recorded)

ResultInv ==
  /\ result \in [kind : {"none", "answer", "question", "failed"}, products : Lists]
  /\ AnswerRecordsFindings

FindingsInv == ShapeInv /\ CallsInv /\ ListInv /\ ResultInv

\* A set of naturals that is not empty has a least element.
LEMMA Least ==
  ASSUME NEW T \in SUBSET Nat, T # {}
  PROVE  \E x \in T : \A y \in T : x <= y
<1>1. PICK x \in T : \A y \in T : ~ (<<y, x>> \in OpToRel(<, Nat))
  BY NatLessThanWellFounded, WFMin
<1>2. ASSUME NEW y \in T PROVE x <= y
  <2>1. x \in Nat /\ y \in Nat
    OBVIOUS
  <2>2. ASSUME y < x PROVE <<y, x>> \in {ss \in Nat \X Nat : ss[1] < ss[2]}
    BY <2>1, <2>2
  <2>3. ~(y < x)
    BY <1>1, <2>2, Zenon DEF OpToRel
  <2> QED  BY <2>1, <2>3
<1> QED  BY <1>2

\* Where every product found has a summary, all are recommended, in their order.
LEMMA AllAreRecommended ==
  ASSUME RecommendationsInv, RecommendationsComplete
  PROVE  ProductRecommendations = recommendations.productIds
<1> DEFINE ids == recommendations.productIds
           n == Len(ids)
           Step(f, i) == IF i = 0 THEN << >>
                         ELSE IF ids[i] \in recommendations.aiSummaries
                              THEN Append(f[i - 1], ids[i]) ELSE f[i - 1]
           g == [i \in 0..n |-> SubSeq(ids, 1, i)]
           first == CHOOSE f : f = [i \in 0..n |-> Step(f, i)]
<1>1. ids \in Seq(Products) /\ n \in Nat /\ DOMAIN ids = 1..n
  BY DEF RecommendationsInv
<1>2. ASSUME NEW i \in 1..n PROVE ids[i] \in recommendations.aiSummaries
  BY <1>1 DEF RecommendationsComplete, ToSet
<1>3. ASSUME NEW i \in 1..n PROVE SubSeq(ids, 1, i) = Append(SubSeq(ids, 1, i - 1), ids[i])
  <2>1. 1 \in 1..n /\ i \in 1..n /\ i - 1 \in Int /\ i \in Int
    BY <1>1
  <2>2. \A k \in 1..i : ids[k] \in Products
    BY <1>1
  <2>3. /\ SubSeq(ids, 1, i) \in Seq(Products) /\ Len(SubSeq(ids, 1, i)) = i
        /\ \A k \in 1..i : SubSeq(ids, 1, i)[k] = ids[k]
    BY <1>1, <2>1, <2>2
  <2>4. /\ SubSeq(ids, 1, i - 1) \in Seq(Products) /\ Len(SubSeq(ids, 1, i - 1)) = i - 1
        /\ \A k \in 1..i - 1 : SubSeq(ids, 1, i - 1)[k] = ids[k]
    BY <1>1, <2>1, <2>2
  <2> DEFINE a == Append(SubSeq(ids, 1, i - 1), ids[i])
  <2>5. /\ a \in Seq(Products) /\ Len(a) = i
        /\ \A k \in 1..i : a[k] = ids[k]
    BY <2>1, <2>2, <2>4
  <2> HIDE DEF a
  <2> QED  BY <2>3, <2>5, SeqEqual
<1>4. SubSeq(ids, 1, 0) = << >> /\ SubSeq(ids, 1, n) = ids
  BY <1>1, SubSeqFull, SubSeqEmpty
<1>5. g = [i \in 0..n |-> Step(g, i)]
  <2>1. ASSUME NEW i \in 0..n PROVE SubSeq(ids, 1, i) = Step(g, i)
    <3>1. CASE i = 0
      BY <1>4, <3>1
    <3>2. CASE i # 0
      <4>1. i \in 1..n /\ i - 1 \in 0..n
        BY <1>1, <3>2
      <4> QED  BY <1>2, <1>3, <3>2, <4>1
    <3> QED  BY <3>1, <3>2
  <2> QED  BY <2>1
<1> HIDE DEF g
<1>6. first = [i \in 0..n |-> Step(first, i)]
  <2>1. \E f : f = [i \in 0..n |-> Step(f, i)]
    BY <1>5
  <2> QED  BY <2>1
<1>7. ProductRecommendations = first[n]
  BY DEF ProductRecommendations
<1> HIDE DEF first
<1>8. ASSUME NEW i \in 0..n PROVE first[i] = SubSeq(ids, 1, i)
  <2> DEFINE T == {k \in 0..n : first[k] # SubSeq(ids, 1, k)}
  <2>1. SUFFICES ASSUME T # {} PROVE FALSE
    OBVIOUS
  <2>2. T \in SUBSET Nat
    BY <1>1
  <2>3. PICK k \in T : \A l \in T : k <= l
    BY <2>1, <2>2, Least
  <2>4. k \in 0..n /\ first[k] # SubSeq(ids, 1, k)
    OBVIOUS
  <2>5. CASE k = 0
    BY <1>1, <1>4, <1>6, <2>4, <2>5
  <2>6. CASE k # 0
    <3>1. k \in 1..n /\ k - 1 \in 0..n /\ k - 1 \notin T
      <4>1. k \in 1..n /\ k - 1 \in 0..n /\ k - 1 < k
        BY <1>1, <2>4, <2>6
      <4> QED  BY <1>1, <2>3, <4>1
    <3>2. first[k - 1] = SubSeq(ids, 1, k - 1)
      BY <3>1
    <3>3. first[k] = Append(first[k - 1], ids[k])
      BY <1>2, <1>6, <2>4, <2>6, <3>1
    <3> QED  BY <1>3, <2>4, <3>1, <3>2, <3>3
  <2> QED  BY <2>5, <2>6
<1> QED  BY <1>1, <1>4, <1>7, <1>8

\* A sequence of distinct products is one of the lists.
LEMMA DistinctIsList ==
  ASSUME NEW list \in Seq(Products), Distinct(list)
  PROVE  list \in Lists
<1> DEFINE T == ToSet(list)
           n == Len(list)
<1>1. n \in Nat /\ DOMAIN list = 1..n /\ list \in [1..n -> Products]
  OBVIOUS
<1>2. T \in SUBSET Products /\ list \in [1..n -> T] /\ \A x \in T : \E i \in 1..n : list[i] = x
  BY <1>1 DEF ToSet
<1>3. list \in Bijection(1..n, T)
  BY <1>1, <1>2 DEF Distinct, Bijection, Injection, Surjection, IsInjective
<1>4. Cardinality(T) = n
  BY <1>1, <1>3, FS_CountingElements DEF ExistsBijection
<1> HIDE DEF T
<1>5. list \in SetToSeqs(T)
  BY <1>1, <1>2, <1>4 DEF SetToSeqs, Distinct
<1> QED  BY <1>2, <1>5 DEF Lists

\* A search leaves what was found where it is, and adds what it found besides.
LEMMA AddedFacts ==
  ASSUME NEW ids \in Seq(Products), Distinct(ids), NEW items \in SUBSET Products,
         NEW added \in Added(ids, items)
  PROVE  /\ Distinct(added) /\ Len(ids) <= Len(added)
         /\ \A i \in 1..Len(ids) : added[i] = ids[i]
         /\ ToSet(ids) \cup items \subseteq ToSet(added)
<1> DEFINE S == items \ ToSet(ids)
           n == Cardinality(S)
           m == Len(ids)
<1>1. PICK new \in SetToSeqs(S) : added = ids \o new
  BY DEF Added
<1>2. IsFiniteSet(S)
  BY FS_Subset, TurnAssumption DEF TurnAssumption
<1>3. n \in Nat
  BY <1>2, FS_CardinalityType
<1>4. new \in [1..n -> S] /\ \A i, j \in 1..n : i # j => new[i] # new[j]
  BY <1>1 DEF SetToSeqs
<1>5. S \subseteq items /\ S \cap ToSet(ids) = {} /\ items \subseteq S \cup ToSet(ids)
  OBVIOUS
<1> HIDE DEF S, n
<1>6. \A x \in S : \E i \in 1..n : new[i] = x
  <2>1. new \in Injection(1..n, S)
    BY <1>4 DEF Injection, IsInjective
  <2>2. Cardinality(1..n) = n
    BY <1>3, FS_Interval
  <2>3. new \in Surjection(1..n, S)
    BY <1>2, <2>1, <2>2, FS_Injection DEF n
  <2> QED  BY <2>3 DEF Surjection
<1>7. /\ new \in Seq(Products) /\ Len(new) = n
      /\ ids \in Seq(Products) /\ m \in Nat /\ DOMAIN ids = 1..m
  <2>1. new \in [1..n -> Products]
    BY <1>4, <1>5
  <2> QED  BY <1>3, <2>1
<1>8. /\ added \in Seq(Products) /\ Len(added) = m + n /\ DOMAIN added = 1..m + n
      /\ \A i \in 1..m + n : added[i] = IF i <= m THEN ids[i] ELSE new[i - m]
  <2>1. /\ added \in Seq(Products) /\ Len(added) = m + n
        /\ \A i \in 1..m + n : added[i] = IF i <= m THEN ids[i] ELSE new[i - m]
    BY <1>1, <1>7, ConcatProperties
  <2> QED  BY <2>1
<1> HIDE DEF m
<1>9. \A i \in 1..m : i \in 1..m + n /\ added[i] = ids[i] /\ added[i] \in ToSet(ids)
  <2> SUFFICES ASSUME NEW i \in 1..m
               PROVE  i \in 1..m + n /\ added[i] = ids[i] /\ added[i] \in ToSet(ids)
    OBVIOUS
  <2>1. i \in 1..m + n /\ i <= m
    BY <1>3, <1>7
  <2>2. added[i] = ids[i]
    BY <1>8, <2>1
  <2>3. ids[i] \in ToSet(ids)
    BY <1>7 DEF ToSet
  <2> QED  BY <2>1, <2>2, <2>3
<1>10. ASSUME NEW i \in 1..m + n, i > m
       PROVE  i - m \in 1..n /\ added[i] = new[i - m] /\ added[i] \in S
  <2>1. i - m \in 1..n /\ ~(i <= m)
    BY <1>3, <1>7, <1>10
  <2> QED  BY <1>4, <1>8, <2>1
<1>11. Distinct(added)
  <2> SUFFICES ASSUME NEW i \in 1..m + n, NEW j \in 1..m + n, added[i] = added[j]
               PROVE  i = j
    BY <1>8 DEF Distinct
  <2>1. i \in 1..m \/ i > m
    BY <1>3, <1>7
  <2>2. j \in 1..m \/ j > m
    BY <1>3, <1>7
  <2>3. CASE i \in 1..m /\ j \in 1..m
    BY <1>7, <1>9, <2>3 DEF Distinct
  <2>4. CASE i > m /\ j > m
    <3>1. new[i - m] = new[j - m] /\ i - m \in 1..n /\ j - m \in 1..n
      BY <1>10, <2>4
    <3>2. i - m = j - m
      BY <1>4, <3>1
    <3> QED  BY <1>3, <1>7, <3>2
  <2>5. CASE (i \in 1..m /\ j > m) \/ (i > m /\ j \in 1..m)
    BY <1>5, <1>9, <1>10, <2>5
  <2> QED  BY <2>1, <2>2, <2>3, <2>4, <2>5
<1>12. ASSUME NEW x \in ToSet(ids) \cup items PROVE x \in ToSet(added)
  <2>1. CASE x \in ToSet(ids)
    <3>1. PICK i \in 1..m : x = ids[i]
      BY <1>7, <2>1 DEF ToSet
    <3> QED  BY <1>8, <1>9, <3>1 DEF ToSet
  <2>2. CASE x \in S
    <3>1. PICK i \in 1..n : x = new[i]
      BY <1>6, <2>2
    <3>2. m + i \in 1..m + n /\ ~(m + i <= m) /\ (m + i) - m = i
      BY <1>3, <1>7
    <3>3. added[m + i] = x
      BY <1>8, <3>1, <3>2
    <3> QED  BY <1>8, <3>2, <3>3 DEF ToSet
  <2> QED  BY <1>5, <2>1, <2>2
<1>13. Len(ids) <= Len(added)
  BY <1>3, <1>7, <1>8 DEF m
<1> QED  BY <1>9, <1>11, <1>12, <1>13 DEF m

\* The calls granted, response by response.
LEMMA GrantedFacts ==
  ASSUME NEW n \in 0..MaxIterations
  PROVE  /\ Granted(n) \in Nat /\ Granted(MaxIterations) \in Nat /\ Granted(0) = 0
         /\ Granted(n + 1) = Granted(n) + MaxBatch
         /\ Granted(n) <= Granted(MaxIterations)
<1>1. n \in Nat /\ MaxIterations \in Nat /\ MaxBatch \in Nat /\ n <= MaxIterations
  BY TurnAssumption DEF TurnAssumption
<1>2. \A a, b \in Nat : a * b \in Nat
  OBVIOUS
<1>3. (n + 1) * MaxBatch = n * MaxBatch + MaxBatch /\ 0 * MaxBatch = 0
  BY <1>1
<1>4. n * MaxBatch <= MaxIterations * MaxBatch
  <2> DEFINE d == MaxIterations - n
  <2>1. d \in Nat /\ MaxIterations = n + d
    BY <1>1
  <2> HIDE DEF d
  <2>2. (n + d) * MaxBatch = n * MaxBatch + d * MaxBatch
    BY <1>1, <2>1
  <2>3. d * MaxBatch \in Nat /\ n * MaxBatch \in Nat
    BY <1>1, <1>2, <2>1
  <2>4. n * MaxBatch <= n * MaxBatch + d * MaxBatch
    BY <2>3
  <2> QED  BY <2>1, <2>2, <2>4
<1> QED  BY <1>1, <1>2, <1>3, <1>4 DEF Granted

\* What is stored of a turn that ends as it stands.
LEMMA ResultFacts ==
  ASSUME Inv, ListInv, NEW finish, NEW hasText \in BOOLEAN
  PROVE  LET r == StreamResult(finish, hasText)
         IN /\ r \in [kind : {"none", "answer", "question", "failed"}, products : Lists]
            /\ r.kind = "answer" =>
                 /\ finish = "stop"
                 /\ r.products = recommendations.productIds
                 /\ r.products # << >> => r.products = seen.recorded
<1> DEFINE ids == recommendations.productIds
           last == seen.recorded
<1>1. << >> \in Lists
  <2>1. << >> \in Seq(Products) /\ Distinct(<< >>)
    BY DEF Distinct
  <2> QED  BY <2>1, DistinctIsList
<1>2. RecommendationsInv /\ ids \in Seq(Products) /\ Distinct(ids) /\ ids \in Lists
  BY DistinctIsList DEF Inv, RecommendationsInv, ListInv
<1>3. CASE StreamResult(finish, hasText).kind # "answer"
  <2>1. StreamResult(finish, hasText) \in
          {Failed, [kind |-> "question", products |-> << >>]}
    BY <1>3 DEF StreamResult
  <2> QED  BY <1>1, <1>3, <2>1 DEF Failed
<1>4. CASE StreamResult(finish, hasText).kind = "answer"
  <2>1. /\ StreamResult(finish, hasText) =
             [kind |-> "answer", products |-> ProductRecommendations]
        /\ finish = "stop" /\ RecommendationsComplete
    BY <1>4 DEF StreamResult, Failed
  <2>2. ProductRecommendations = ids
    BY <1>2, <2>1, AllAreRecommended
  <2>3. ids = last
    <3>1. /\ last \in Seq(Products) /\ Len(last) <= Len(ids)
          /\ \A i \in 1..Len(last) : ids[i] = last[i]
          /\ recommendations.aiSummaries = ToSet(last)
      BY DEF ListInv
    <3>2. /\ Len(last) \in Nat /\ Len(ids) \in Nat
          /\ DOMAIN ids = 1..Len(ids) /\ DOMAIN last = 1..Len(last)
      BY <1>2, <3>1
    <3>3. Len(last) = Len(ids)
      <4> SUFFICES ASSUME Len(last) < Len(ids) PROVE FALSE
        BY <3>1, <3>2
      <4> DEFINE k == Len(last) + 1
      <4>1. k \in DOMAIN ids
        BY <3>2
      <4>2. ids[k] \in ToSet(last)
        <5>1. ids[k] \in ToSet(ids)
          BY <4>1 DEF ToSet
        <5> QED  BY <2>1, <3>1, <5>1 DEF RecommendationsComplete
      <4>3. PICK i \in 1..Len(last) : ids[k] = last[i]
        BY <3>2, <4>2 DEF ToSet
      <4>4. i \in DOMAIN ids /\ ids[i] = ids[k] /\ i # k
        BY <3>1, <3>2, <4>3
      <4> QED  BY <1>2, <4>1, <4>4 DEF Distinct
    <3> QED  BY <1>2, <3>1, <3>3, SeqEqual
  <2> QED  BY <1>2, <2>1, <2>2, <2>3
<1> QED  BY <1>3, <1>4

\* A tool call that leaves the products and the last record alone.
LEMMA ToolKeepsFindings ==
  ASSUME Inv, FindingsInv, Took, UNCHANGED <<input, recommendations, session, result>>,
         askUser' \in Dimensions \cup {None},
         UNCHANGED seen \/ Strays \/ Wastes
  PROVE  FindingsInv'
<1>1. seen'.recorded = seen.recorded /\ "recorded" \in DOMAIN seen'
  BY DEF FindingsInv, ShapeInv, Strays, Wastes
<1>2. /\ loop.phase = "tools" /\ loop.left \in Nat /\ loop.left > 0 /\ loop.iteration \in Nat
      /\ loop' = [loop EXCEPT !.left = loop.left - 1] /\ result = Unset
  BY DEF Took, Inv, LoopInv, QuestionInv
<1>3. /\ loop'.left = loop.left - 1 /\ loop'.iteration = loop.iteration
      /\ loop'.phase = "tools"
  BY <1>2 DEF Inv, LoopInv
<1>4. CallsInv'
  <2>1. Granted(loop.iteration) \in Nat /\ session.calls \in Nat /\ MaxBatch \in Nat
    <3>1. loop.iteration \in 0..MaxIterations
      BY <1>2, TurnAssumption DEF FindingsInv, CallsInv, TurnAssumption
    <3> QED  BY <3>1, GrantedFacts, TurnAssumption DEF FindingsInv, ShapeInv, TurnAssumption
  <2> QED  BY <1>2, <1>3, <2>1 DEF FindingsInv, CallsInv
<1>5. ShapeInv' /\ ListInv'
  BY <1>1 DEF FindingsInv, ShapeInv, ListInv
<1>6. ResultInv'
  BY <1>2 DEF FindingsInv, ResultInv, AnswerRecordsFindings, Unset
<1> QED  BY <1>4, <1>5, <1>6 DEF FindingsInv

\* A refusal, or a call that was accepted and is not about products.
LEMMA RefusalKeepsFindings ==
  ASSUME Inv, FindingsInv, RefusesUnassessed \/ Refuses
  PROVE  FindingsInv'
<1>1. Refuses
  BY DEF RefusesUnassessed
<1> QED  BY <1>1, ToolKeepsFindings DEF Refuses, FindingsInv, ShapeInv
LEMMA FindingsInit == Init => FindingsInv
<1> SUFFICES ASSUME Init PROVE FindingsInv
  OBVIOUS
<1>1. ShapeInv
  BY DEF Init, ShapeInv
<1>2. CallsInv
  <2>1. 0 \in 0..MaxIterations /\ MaxIterations > 0 /\ MaxBatch \in Nat
    BY TurnAssumption DEF TurnAssumption
  <2>2. /\ loop.iteration = 0 /\ loop.left = 0 /\ session.calls = 0
    BY DEF Init
  <2>3. Granted(0) = 0
    BY <2>1, GrantedFacts
  <2> QED  BY <2>1, <2>2, <2>3 DEF CallsInv
<1>3. ListInv
  <2>1. /\ recommendations.productIds = << >> /\ recommendations.aiSummaries = {}
        /\ session.authorized = {} /\ seen.recorded = << >>
    BY DEF Init
  <2>2. << >> \in Seq(Products) /\ Len(<< >>) = 0 /\ Distinct(<< >>) /\ ToSet(<< >>) = {}
    BY DEF Distinct, ToSet
  <2> QED  BY <2>1, <2>2 DEF ListInv
<1>4. ResultInv
  <2>1. << >> \in Lists
    <3>1. << >> \in Seq(Products) /\ Distinct(<< >>)
      BY DEF Distinct
    <3> QED  BY <3>1, DistinctIsList
  <2>2. result = Unset
    BY DEF Init
  <2> QED  BY <2>1, <2>2 DEF ResultInv, AnswerRecordsFindings, Unset
<1> QED  BY <1>1, <1>2, <1>3, <1>4 DEF FindingsInv

\* The numbers of the loop and of the catalog's calls, as naturals.
LEMMA Counts ==
  ASSUME Inv, FindingsInv
  PROVE  /\ loop.iteration \in 0..MaxIterations /\ loop.iteration \in Nat
         /\ loop.left \in Nat /\ session.calls \in Nat
         /\ MaxBatch \in Nat /\ MaxIterations \in Nat
         /\ Granted(loop.iteration) \in Nat
         /\ Granted(loop.iteration + 1) = Granted(loop.iteration) + MaxBatch
<1>1. /\ loop.iteration \in Nat /\ loop.left \in Nat /\ session.calls \in Nat
      /\ MaxBatch \in Nat /\ MaxIterations \in Nat
      /\ loop.iteration <= MaxIterations
  BY TurnAssumption DEF Inv, LoopInv, FindingsInv, ShapeInv, CallsInv, TurnAssumption
<1>2. loop.iteration \in 0..MaxIterations
  BY <1>1
<1> QED  BY <1>1, <1>2, GrantedFacts

\* The loop's own steps: a response, an answer, the end of a response's calls,
\* a failure.
LEMMA LoopKeepsFindings ==
  ASSUME Inv, FindingsInv, CallTools \/ Answer \/ ToolsDone \/ ProviderFails
  PROVE  FindingsInv'
<1>0. UNCHANGED <<input, recommendations, askUser, session>>
  BY DEF CallTools, Answer, ToolsDone, ProviderFails
<1>1. seen'.recorded = seen.recorded /\ "recorded" \in DOMAIN seen'
  BY DEF FindingsInv, ShapeInv, Strays, CallTools, Answer, ToolsDone, ProviderFails
<1>2. ShapeInv' /\ ListInv'
  BY <1>0, <1>1 DEF FindingsInv, ShapeInv, ListInv
<1>3. /\ loop.phase # "finished" => result = Unset
      /\ loop \in [phase : {"calling", "tools", "finished"}, iteration : Nat,
                   left : Nat, choice : ToolChoices]
  BY DEF Inv, LoopInv, QuestionInv
<1>4. CASE CallTools
  <2>1. PICK n \in 1..MaxBatch :
          loop' = [phase |-> "tools", iteration |-> loop.iteration + 1,
                   left |-> n, choice |-> NextToolChoice]
    BY <1>4 DEF CallTools
  <2>2. /\ loop'.phase = "tools" /\ loop'.iteration = loop.iteration + 1 /\ loop'.left = n
        /\ loop.phase = "calling" /\ result' = result
    BY <1>4, <2>1 DEF CallTools
  <2>3. /\ loop.iteration < MaxIterations
        /\ session.calls + loop.left <= Granted(loop.iteration)
    BY <2>2 DEF FindingsInv, CallsInv
  <2>4. /\ loop.iteration + 1 <= MaxIterations /\ n <= MaxBatch
        /\ session.calls + n <= Granted(loop.iteration + 1)
    BY <2>3, Counts
  <2>5. CallsInv'
    BY <1>0, <2>2, <2>4 DEF CallsInv
  <2>6. ResultInv'
    BY <1>3, <2>2 DEF FindingsInv, ResultInv, AnswerRecordsFindings, Unset
  <2> QED  BY <1>2, <2>5, <2>6 DEF FindingsInv
<1>5. CASE Answer
  <2>1. PICK finish \in {"stop", "length"}, hasText \in BOOLEAN :
          result' = StreamResult(finish, hasText)
    BY <1>5 DEF Answer
  <2>2. /\ loop'.phase = "finished" /\ loop'.iteration = loop.iteration + 1
        /\ loop'.left = loop.left /\ loop.phase = "calling"
    BY <1>3, <1>5 DEF Answer
  <2>3. /\ loop.iteration < MaxIterations /\ loop.left <= MaxBatch
        /\ session.calls + loop.left <= Granted(loop.iteration)
    BY <2>2 DEF FindingsInv, CallsInv
  <2>4. /\ loop.iteration + 1 <= MaxIterations
        /\ session.calls + loop.left <= Granted(loop.iteration + 1)
    BY <2>3, Counts
  <2>5. CallsInv'
    BY <1>0, <2>2, <2>3, <2>4 DEF CallsInv
  <2>6. ResultInv'
    <3> DEFINE r == StreamResult(finish, hasText)
    <3>1. /\ r \in [kind : {"none", "answer", "question", "failed"}, products : Lists]
          /\ r.kind = "answer" =>
               /\ r.products = recommendations.productIds
               /\ r.products # << >> => r.products = seen.recorded
      BY ResultFacts DEF FindingsInv
    <3>2. session.authorized \subseteq ToSet(recommendations.productIds)
      BY DEF FindingsInv, ListInv
    <3> HIDE DEF r
    <3>3. result' = r
      BY <2>1 DEF r
    <3> QED  BY <1>0, <1>1, <3>1, <3>2, <3>3 DEF ResultInv, AnswerRecordsFindings
  <2> QED  BY <1>2, <2>5, <2>6 DEF FindingsInv
<1>6. CASE ToolsDone
  <2>1. loop.phase = "tools" /\ loop.left = 0
    BY <1>6 DEF ToolsDone
  <2>2. CASE ShouldContinue
    <3>1. /\ loop'.phase = "calling" /\ loop'.iteration = loop.iteration
          /\ loop'.left = loop.left /\ result' = result
          /\ loop.iteration < MaxIterations
      BY <1>3, <1>6, <2>2 DEF ToolsDone, ShouldContinue
    <3>2. CallsInv' /\ ResultInv'
      BY <1>0, <1>3, <2>1, <3>1
         DEF FindingsInv, CallsInv, ResultInv, AnswerRecordsFindings, Unset
    <3> QED  BY <1>2, <3>2 DEF FindingsInv
  <2>3. CASE ~ShouldContinue
    <3>1. /\ loop'.phase = "finished" /\ loop'.iteration = loop.iteration
          /\ loop'.left = loop.left
      BY <1>3, <1>6, <2>3 DEF ToolsDone
    <3> DEFINE r == StreamResult("tool_calls", FALSE)
    <3>2. /\ r \in [kind : {"none", "answer", "question", "failed"}, products : Lists]
          /\ r.kind # "answer"
      BY ResultFacts DEF FindingsInv
    <3>3. result' = r
      BY <1>6, <2>3 DEF ToolsDone
    <3> HIDE DEF r
    <3>4. CallsInv'
      BY <1>0, <3>1 DEF FindingsInv, CallsInv
    <3>5. ResultInv'
      BY <3>2, <3>3 DEF ResultInv, AnswerRecordsFindings
    <3> QED  BY <1>2, <3>4, <3>5 DEF FindingsInv
  <2> QED  BY <2>2, <2>3
<1>7. CASE ProviderFails
  <2>1. /\ loop'.phase = "finished" /\ loop'.iteration = loop.iteration
        /\ loop'.left = loop.left /\ result' = Failed /\ result = Unset
    BY <1>3, <1>7 DEF ProviderFails
  <2>2. CallsInv'
    BY <1>0, <2>1 DEF FindingsInv, CallsInv
  <2>3. ResultInv'
    BY <2>1 DEF FindingsInv, ResultInv, AnswerRecordsFindings, Failed, Unset
  <2> QED  BY <1>2, <2>2, <2>3 DEF FindingsInv
<1> QED  BY <1>4, <1>5, <1>6, <1>7
\* A call to the catalog, which the response at hand had left to make.
LEMMA CatalogCallCounts ==
  ASSUME Inv, FindingsInv, Took, UNCHANGED result,
         session' \in [calls : Nat, authorized : SUBSET Products,
                       exhausted : SUBSET Providers],
         session'.calls = session.calls + 1
  PROVE  CallsInv' /\ ResultInv'
<1>1. /\ loop.phase = "tools" /\ loop.left > 0 /\ result = Unset /\ result' = result
      /\ loop'.phase = "tools" /\ loop'.left = loop.left - 1
      /\ loop'.iteration = loop.iteration
  BY DEF Inv, LoopInv, QuestionInv, Took
<1>2. /\ loop.iteration <= MaxIterations /\ loop.left <= MaxBatch
      /\ session.calls + loop.left <= Granted(loop.iteration)
  BY DEF FindingsInv, CallsInv
<1>3. /\ loop.left - 1 <= MaxBatch
      /\ (session.calls + 1) + (loop.left - 1) <= Granted(loop.iteration)
  BY <1>2, Counts
<1>4. CallsInv'
  BY <1>1, <1>2, <1>3 DEF CallsInv
<1>5. ResultInv'
  BY <1>1 DEF FindingsInv, ResultInv, AnswerRecordsFindings, Unset
<1> QED  BY <1>4, <1>5

\* What a search leaves of the session.
LEMMA SessionAfterFacts ==
  ASSUME FindingsInv, NEW provider \in Providers, NEW up \in SUBSET Providers,
         NEW items \in SUBSET Products
  PROVE  LET s == SessionAfter(provider, up, items)
         IN /\ s \in [calls : Nat, authorized : SUBSET Products,
                      exhausted : SUBSET Providers]
            /\ s.calls = session.calls + 1
            /\ s.authorized \subseteq session.authorized \cup items
<1>1. /\ session \in [calls : Nat, authorized : SUBSET Products,
                      exhausted : SUBSET Providers]
      /\ input.forced \subseteq Providers
  BY DEF FindingsInv, ShapeInv
<1>2. Active(provider) \subseteq Providers
  BY <1>1 DEF Active, Selected
<1> QED  BY <1>1, <1>2 DEF SessionAfter

LEMMA SearchKeepsFindings ==
  ASSUME Inv, FindingsInv, SearchProducts
  PROVE  FindingsInv'
<1>1. CASE RefusesUnassessed \/ Refuses
  BY <1>1, RefusalKeepsFindings
<1>2. ASSUME Took, UNCHANGED <<input, askUser, result>>, NEW provider \in Providers,
             session' = SessionAfter(provider, {}, {}),
             seen' = [seen EXCEPT !.unavailable = TRUE], UNCHANGED recommendations
      PROVE  FindingsInv'
  <2>1. /\ session' \in [calls : Nat, authorized : SUBSET Products,
                         exhausted : SUBSET Providers]
        /\ session'.calls = session.calls + 1
        /\ session'.authorized \subseteq session.authorized
    <3>1. {} \in SUBSET Providers /\ {} \in SUBSET Products
      OBVIOUS
    <3>2. /\ SessionAfter(provider, {}, {}) \in
               [calls : Nat, authorized : SUBSET Products, exhausted : SUBSET Providers]
          /\ SessionAfter(provider, {}, {}).calls = session.calls + 1
          /\ SessionAfter(provider, {}, {}).authorized \subseteq session.authorized \cup {}
      BY <1>2, <3>1, SessionAfterFacts
    <3> QED  BY <1>2, <3>2
  <2>2. seen'.recorded = seen.recorded /\ "recorded" \in DOMAIN seen'
    BY <1>2 DEF FindingsInv, ShapeInv
  <2>3. CallsInv' /\ ResultInv'
    BY <1>2, <2>1, CatalogCallCounts
  <2>4. ShapeInv' /\ ListInv'
    BY <1>2, <2>1, <2>2 DEF FindingsInv, ShapeInv, ListInv
  <2> QED  BY <2>3, <2>4 DEF FindingsInv
<1>3. ASSUME Took, UNCHANGED <<input, askUser, result>>, NEW provider \in Providers,
             NEW up \in SUBSET Active(provider), NEW items \in Pages(up),
             session' = SessionAfter(provider, up, items),
             NEW ids \in Added(recommendations.productIds, items),
             recommendations' = [recommendations EXCEPT !.productIds = ids],
             seen' = [seen EXCEPT
               !.shown = seen.shown \cup items,
               !.strayed = seen.strayed \/ loop.choice # "searchProducts"]
      PROVE  FindingsInv'
  <2> DEFINE old == recommendations.productIds
             last == seen.recorded
  <2>1. items \in SUBSET Products /\ up \in SUBSET Providers
    BY DEF Pages, Active, Selected, FindingsInv, ShapeInv
  <2>2. /\ session' \in [calls : Nat, authorized : SUBSET Products,
                         exhausted : SUBSET Providers]
        /\ session'.calls = session.calls + 1
        /\ session'.authorized \subseteq session.authorized \cup items
    BY <1>3, <2>1, SessionAfterFacts
  <2>3. seen'.recorded = last /\ "recorded" \in DOMAIN seen'
    BY <1>3 DEF FindingsInv, ShapeInv
  <2>4. CallsInv' /\ ResultInv'
    BY <1>3, <2>2, CatalogCallCounts
  <2>5. ShapeInv'
    BY <1>3, <2>2, <2>3 DEF FindingsInv, ShapeInv
  <2>6. /\ old \in Seq(Products) /\ Distinct(old) /\ session.authorized \subseteq ToSet(old)
        /\ last \in Seq(Products) /\ Len(last) <= Len(old)
        /\ \A i \in 1..Len(last) : old[i] = last[i]
        /\ recommendations.aiSummaries = ToSet(last)
    BY DEF Inv, RecommendationsInv, FindingsInv, ListInv
  <2>7. /\ recommendations'.productIds = ids
        /\ recommendations'.aiSummaries = recommendations.aiSummaries
    BY <1>3 DEF Inv, RecommendationsInv
  <2>8. /\ ids \in Seq(Products) /\ Distinct(ids) /\ Len(old) <= Len(ids)
        /\ \A i \in 1..Len(old) : ids[i] = old[i]
        /\ ToSet(old) \cup items \subseteq ToSet(ids)
    BY <2>1, <2>6, AddedIsSequence, AddedFacts
  <2> HIDE DEF old, last
  <2>9. /\ Len(last) <= Len(ids)
        /\ \A i \in 1..Len(last) : ids[i] = last[i]
    <3>1. Len(last) \in Nat /\ Len(old) \in Nat /\ Len(ids) \in Nat
      BY <2>6, <2>8
    <3>2. \A i \in 1..Len(last) : i \in 1..Len(old)
      BY <2>6, <3>1
    <3> QED  BY <2>6, <2>8, <3>1, <3>2
  <2>10. ListInv'
    BY <2>2, <2>3, <2>6, <2>7, <2>8, <2>9 DEF ListInv
  <2> QED  BY <2>4, <2>5, <2>10 DEF FindingsInv
<1> QED  BY <1>1, <1>2, <1>3 DEF SearchProducts

LEMMA LookUpKeepsFindings ==
  ASSUME Inv, FindingsInv, GetProduct
  PROVE  FindingsInv'
<1>1. CASE RefusesUnassessed \/ Refuses
  BY <1>1, RefusalKeepsFindings
<1>2. CASE /\ Took /\ UNCHANGED <<input, recommendations, askUser, result>>
           /\ session' = [session EXCEPT !.calls = session.calls + 1]
           /\ \E id \in Products : \E cards \in SUBSET Readable(id) :
                seen' = [seen EXCEPT
                  !.shown = @ \cup IF session.calls < MaxToolCalls THEN cards ELSE {},
                  !.wasted = More(@)]
  <2>1. /\ session' \in [calls : Nat, authorized : SUBSET Products,
                         exhausted : SUBSET Providers]
        /\ session'.calls = session.calls + 1
        /\ session'.authorized = session.authorized
    BY <1>2 DEF FindingsInv, ShapeInv
  <2>2. seen'.recorded = seen.recorded /\ "recorded" \in DOMAIN seen'
    BY <1>2 DEF FindingsInv, ShapeInv
  <2>3. CallsInv' /\ ResultInv'
    BY <1>2, <2>1, CatalogCallCounts
  <2>4. ShapeInv' /\ ListInv'
    BY <1>2, <2>1, <2>2 DEF FindingsInv, ShapeInv, ListInv
  <2> QED  BY <2>3, <2>4 DEF FindingsInv
<1> QED  BY <1>1, <1>2 DEF GetProduct

\* The list that may be recorded is the products found, so far.
LEMMA RecordKeepsFindings ==
  ASSUME Inv, FindingsInv, RecordProductRecommendations
  PROVE  FindingsInv'
<1>1. CASE RefusesUnassessed \/ Refuses
  BY <1>1, RefusalKeepsFindings
<1>2. ASSUME NEW list \in Lists, Recordable(list), Took,
             UNCHANGED <<input, askUser, session, result>>,
             recommendations' = [recommendations EXCEPT !.aiSummaries = ToSet(list)],
             seen' = [seen EXCEPT
               !.recorded = list,
               !.strayed = seen.strayed \/ loop.choice # "recordProductRecommendations"]
      PROVE  FindingsInv'
  <2>1. seen'.recorded = list /\ "recorded" \in DOMAIN seen'
    BY <1>2 DEF FindingsInv, ShapeInv
  <2>2. /\ list = recommendations.productIds /\ list \in Seq(Products)
        /\ recommendations'.productIds = list
        /\ recommendations'.aiSummaries = ToSet(list)
    BY <1>2 DEF Recordable, Inv, RecommendationsInv
  <2>3. ListInv'
    <3>1. Len(list) <= Len(list)
      BY <2>2
    <3> QED  BY <1>2, <2>1, <2>2, <3>1 DEF FindingsInv, ListInv
  <2>4. ShapeInv'
    BY <1>2, <2>1 DEF FindingsInv, ShapeInv
  <2>5. /\ loop.phase = "tools" /\ loop.left > 0 /\ result = Unset /\ result' = result
        /\ loop'.phase = "tools" /\ loop'.left = loop.left - 1
        /\ loop'.iteration = loop.iteration
    BY <1>2 DEF Inv, LoopInv, QuestionInv, Took
  <2>6. CallsInv'
    <3>1. /\ loop.iteration <= MaxIterations /\ loop.left <= MaxBatch
          /\ session.calls + loop.left <= Granted(loop.iteration)
      BY DEF FindingsInv, CallsInv
    <3>2. /\ loop.left - 1 <= MaxBatch
          /\ session.calls + (loop.left - 1) <= Granted(loop.iteration)
      BY <3>1, Counts
    <3> QED  BY <1>2, <2>5, <3>1, <3>2 DEF CallsInv
  <2>7. ResultInv'
    BY <2>5 DEF FindingsInv, ResultInv, AnswerRecordsFindings, Unset
  <2> QED  BY <2>3, <2>4, <2>6, <2>7 DEF FindingsInv
<1> QED  BY <1>1, <1>2 DEF RecordProductRecommendations, Accepts

LEMMA FindingsKept == Inv /\ FindingsInv /\ [Next]_vars => FindingsInv'
<1> SUFFICES ASSUME Inv, FindingsInv, [Next]_vars PROVE FindingsInv'
  OBVIOUS
<1>1. CASE AssessShoppingAmbiguity
  <2>1. Refuses \/ /\ Took /\ UNCHANGED <<input, result, recommendations, askUser, session>>
                   /\ UNCHANGED seen \/ Strays
    BY <1>1 DEF AssessShoppingAmbiguity, Accepts
  <2>2. askUser \in Dimensions \cup {None}
    BY DEF FindingsInv, ShapeInv
  <2> QED  BY <2>1, <2>2, RefusalKeepsFindings, ToolKeepsFindings
<1>2. CASE AskUser
  <2>1. \/ RefusesUnassessed \/ Refuses
        \/ /\ Took /\ UNCHANGED <<input, result, recommendations, session, seen>>
           /\ askUser' \in Dimensions
    BY <1>2 DEF AskUser, Accepts
  <2> QED  BY <2>1, RefusalKeepsFindings, ToolKeepsFindings
<1>3. CASE UNCHANGED vars
  BY <1>3 DEF vars, FindingsInv, ShapeInv, CallsInv, ListInv, ResultInv,
              AnswerRecordsFindings
<1> QED
  BY <1>1, <1>2, <1>3, LoopKeepsFindings, SearchKeepsFindings, LookUpKeepsFindings,
     RecordKeepsFindings DEF Next

\* What the turn stores is what its searches found, and what it shows is of the
\* shops the user selected, whatever the model called and in whatever order.
THEOREM FindingsAreUsed == Spec => []OnlyFindingsAreUsed
<1>1. ASSUME Inv, FindingsInv, ShownWithinSelection PROVE OnlyFindingsAreUsed
  <2>1. recommendations \in [productIds : Lists, aiSummaries : SUBSET Products]
    <3>1. recommendations.productIds \in Seq(Products) /\ Distinct(recommendations.productIds)
      BY <1>1 DEF Inv, RecommendationsInv, FindingsInv, ListInv
    <3>2. recommendations.productIds \in Lists
      BY <3>1, DistinctIsList
    <3> QED  BY <1>1, <3>2 DEF Inv, RecommendationsInv
  <2>2. session.calls \in 0..(MaxIterations * MaxBatch)
    <3>1. /\ Granted(loop.iteration) <= Granted(MaxIterations)
          /\ Granted(MaxIterations) \in Nat
      BY <1>1, Counts, GrantedFacts
    <3>2. session.calls + loop.left <= Granted(loop.iteration)
      BY <1>1 DEF FindingsInv, CallsInv
    <3>3. session.calls \in 0..Granted(MaxIterations)
      BY <1>1, <3>1, <3>2, Counts
    <3> QED  BY <3>3 DEF Granted
  <2>3. loop \in [phase : {"calling", "tools", "finished"},
                  iteration : 0..MaxIterations + 1, left : 0..MaxBatch,
                  choice : {None, "assessShoppingAmbiguity", "askUser",
                            "searchProducts", "recordProductRecommendations"}]
    <3>1. loop.iteration \in 0..MaxIterations + 1 /\ loop.left \in 0..MaxBatch
      BY <1>1, Counts DEF FindingsInv, CallsInv
    <3> QED  BY <1>1, <3>1 DEF Inv, LoopInv, ToolChoices
  <2>4. TypeOK
    BY <1>1, <2>1, <2>2, <2>3
       DEF TypeOK, Inv, AssessmentInv, FindingsInv, ShapeInv, ResultInv
  <2> QED  BY <1>1, <2>4 DEF OnlyFindingsAreUsed, FindingsInv, ResultInv
<1> QED
  BY <1>1, InductiveInvariant, SelectionHolds, FindingsInit, FindingsKept, PTL DEF Spec
=============================================================================
