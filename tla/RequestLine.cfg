SPECIFICATION FairSpec
CONSTANTS
  Inis <- AllInis
  Names <- ShortNames
  Cases <- Pairs
  Beyond <- Rests
  Directory <- Dir
  Regular <- Files
  Unreachable <- TooLong
INVARIANTS TypeOK LoadedExactly TypedByEnding RefusedUnlessRequest AnsweredByFile
PROPERTIES Settles Answers
CHECK_DEADLOCK FALSE
