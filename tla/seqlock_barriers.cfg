SPECIFICATION BSpec
CONSTANTS
  Words <- TwoWords
  Threads <- OneThread
  Handles <- OneHandle
  HandleOf <- SoleHandle
  SeqModulus = 4
  MaxWrites = 5
  BufferSize = 8
INVARIANTS TypeOK AcceptedUntorn
PROPERTIES ImplementsSeqLock
