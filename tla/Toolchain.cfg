CONSTANTS
  W = 8
  PcMod = 65536
  OffsetMod = 65536
  LineMod = 256
  IntMax = 9999
  Names <- MCNames
  LabelName <- MCLabelName
  MaxWords = 3
  MaxCharacters = 3
  MaxCommentCharacters = 5
  MaxNumberCharacters = 6
  MaxLines = 2
  MaxInstructions = 2
  Scenarios <- MCScenarios
SPECIFICATION Spec
INVARIANTS
  TypeOK
  TokensRead
  NothingLost
  RejectsOnlyMalformed
  MessagesShowTheirLine
  ArgumentsKept
  ProgramsSurvive
  ListingReadsBack
PROPERTIES
  FilesHoldPrograms
  Ends
\* The last invocation ends.
CHECK_DEADLOCK FALSE
