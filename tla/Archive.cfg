\* Four messages, archived three at a time and read in pages of up to three.
CONSTANTS
  MaxMessages = 4
  PageSize = 3
  Limit = 3
  MaxFaults = 1
SPECIFICATION FairSpec
INVARIANTS
  MessagesKept
  PagesAreRight
PROPERTY ArchiveProgress
CHECK_DEADLOCK FALSE
