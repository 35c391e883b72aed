SPECIFICATION FairSpec
CONSTANTS
  Requests <- Queries
  Behind = "NUL"
INVARIANTS TypeOK FirstOfEachKey AcceptsWellFormed
PROPERTY Ends
CHECK_DEADLOCK FALSE
