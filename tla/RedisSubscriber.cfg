\* Three messages of every kind, any number of connections, crashes and restarts.
SPECIFICATION FairSpec
CONSTANT MaxMessages = 3
INVARIANTS
  TypeOK
  StoreOutlivesTask
  ClosedUnlessError
  Released
PROPERTIES
  QuietAfterTheEnd
  ShutdownEnds
  ArrivedIsArchived
  AtMostOnce
CHECK_DEADLOCK FALSE
