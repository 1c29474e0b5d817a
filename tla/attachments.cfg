CONSTANTS
  c1 = c1  c2 = c2
  Calls <- TwoCalls
  Services <- ChangesBesideDeletes
  Predefined <- OneThumbnail
  MaxFiles = 2
SPECIFICATION FairSpec
INVARIANTS AttachmentsTyped RowsHaveObjects
 
CHECK_DEADLOCK FALSE
