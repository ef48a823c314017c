SPECIFICATION FairSpec
CONSTANTS
  Entries = {e1, e2, e3}
  Workers = {w1, w2}
  BufferSize = 2
  Nothing = Nothing
INVARIANTS
  LogIsAccountedFor
PROPERTIES
  WriterFinishes
  ImplementsAsyncSink
CHECK_DEADLOCK FALSE
