\* The viewer's walk and one tool's search of a shop of two products.
CONSTANTS
  NoEstimate = NoEstimate
  Viewer = viewer
  Tools = {tool}
  Ids = {1, 2}
  Lists <- MCLists
  Tables <- MCTables
  Budgets = {1}
  MaxSize = 2
  ToolSize = 2
  Batch = 1
  None = None
SPECIFICATION FairSpec
INVARIANT AnswersAreRight
PROPERTY SearchesEnd
CHECK_DEADLOCK FALSE
