\* A right and a wrong token, two websockets, one search of the archive.
SPECIFICATION FairSpec
CONSTANTS
  good = good
  bad = bad
  Tokens = {good, bad}
  ViewerToken = good
  DeveloperToken = NoToken
  NoToken = NoToken
  Filters <- MCFilters
  MaxReplay = 2
  MaxShown = 1
  MaxSockets = 2
  MaxEvents = 2
  MaxSearches = 1
INVARIANTS
  TypeOK
  OneWantedSocket
  LabelTellsSocket
  ShownAsSent
  BothViewsAgree
PROPERTIES
  ConnectingEnds
CHECK_DEADLOCK FALSE
