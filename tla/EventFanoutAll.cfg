\* What README.md says of a broadcast, on the instance of EventFanout.cfg.
SPECIFICATION Spec
CONSTANTS
  Conns = {c1, c2}
  Sources = {s1}
  Subscriber = s1
  MaxLen = 2
  MaxEvents = 3
  NoConn = NoConn
  NoSource = NoSource
INVARIANTS
  BroadcastReachesEveryClient
CHECK_DEADLOCK FALSE
