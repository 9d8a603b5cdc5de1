SPECIFICATION FairSpec
CONSTANTS
  Structs <- MCStructs
  Others <- MCOthers
  Scalars <- MCScalars
  Unprintable = {"pointer"}
  Fields <- Contents
  ScalarSize <- Sizes
  alignof <- MCalignof
  sizeof <- MCsizeof
  offsetof <- MCoffsetof
  layout <- MClayout
  before <- MCbefore
  depth <- MCdepth
  REFLECT_MAX_FIELDS = 4
  ArgumentFormats <- MCFormats
  Number <- MCNumber
  NoArgument = NoArgument
  MaxMessages = 3
INVARIANTS CountsFields FormatIsLayout FieldsAsLaidOut FieldsApart EntryCopied
PROPERTIES PrintedOnce NewestPrinted
CHECK_DEADLOCK FALSE
