\* Two browsers, the subscriber and a poster, a buffer smaller than the number
\* of events; no symmetry under temporal properties.
SPECIFICATION FairSpec
CONSTANTS
  Conns = {c1, c2}
  Sources = {s1, s2}
  Subscriber = s1
  MaxLen = 2
  MaxEvents = 3
  NoConn = NoConn
  NoSource = NoSource
INVARIANTS
  TypeOK
  NothingMissed
  SourceOrder
  LeakIsHarmless
PROPERTIES
  OnlyDeadAreDropped
  BroadcastAdvances
  BroadcastEnds
  ReplayThenLive
\* Every browser may be gone and every event handled: nothing is left to do.
CHECK_DEADLOCK FALSE
