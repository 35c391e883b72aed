SPECIFICATION FairSpec
CONSTANTS
  Kinds = {"thread", "child"}
  Pieces = 6
  Size = 2
  Room = 5
INVARIANTS TypeOK OnceInOrder ChildWritesPrefix BeginsWhole
PROPERTY WriterEnds
CHECK_DEADLOCK FALSE
