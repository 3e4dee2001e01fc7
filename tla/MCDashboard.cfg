\* A visit and two clicks, over a store of up to two jobs in pages of one.
SPECIFICATION FairSpec
CONSTANTS
  Clicks = {c1, c2}
  Visit = Visit
  PageSize = 1
  MaxJobs = 2
INVARIANTS
  TypeOK
  RowsHaveDetails
  StaleIsAnnounced
  IngestionsBounded
PROPERTIES
  ButtonComesBack
\* The page comes to rest when every answer is in and the user is done.
CHECK_DEADLOCK FALSE
