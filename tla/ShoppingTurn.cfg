\* Two retailers, one answer of which holds one product; more products than may
\* be recorded, and more model calls than catalog calls.
CONSTANTS
  p1 = p1  p2 = p2  p3 = p3
  daiso = daiso  oliveyoung = oliveyoung
  purpose = purpose  budget = budget
  Products = {p1, p2, p3}
  Providers = {daiso, oliveyoung}
  ProviderOf <- MCProviderOf
  Dimensions = {purpose, budget}
  MaxIterations = 5
  MaxToolCalls = 3
  MaxRecommendations = 2
  PerProvider = 1
  MaxBatch = 2
  None = None
SPECIFICATION Spec
INVARIANTS
  OnlyFindingsAreUsed
  ForcedChoiceIsAcceptable
  OneMisstepIsSurvived
PROPERTY ToolsRespectAssessment
\* The turn ends.
CHECK_DEADLOCK FALSE
