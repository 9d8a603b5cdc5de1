SPECIFICATION CrashSpec
CONSTANTS
  w1 = w1
  w2 = w2
  t1 = t1
  h1 = h1
  Words <- TwoWords
  Threads <- OneThread
  Handles <- OneHandle
  HandleOf <- SoleHandle
  SeqModulus = 16
  MaxWrites = 3
INVARIANTS ReadsWholeMessages
CHECK_DEADLOCK FALSE
