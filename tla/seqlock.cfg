SPECIFICATION FairSpec
CONSTANTS
  w1 = w1
  w2 = w2
  t1 = t1
  t2 = t2
  h1 = h1
  h2 = h2
  Words <- TwoWords
  Threads <- TwoThreads
  Handles <- TwoHandles
  HandleOf <- OwnHandle
  SeqModulus = 8
  MaxWrites = 3
INVARIANTS IInv
PROPERTIES AnswersInOrder ImplementsLatestEntry ReadReturns
