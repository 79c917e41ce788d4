\* docs/live-testing.md: the connection state shows Online.
SPECIFICATION Spec
CONSTANTS
  good = good
  bad = bad
  Tokens = {good, bad}
  ViewerToken = good
  DeveloperToken = NoToken
  NoToken = NoToken
  Filters <- MCFilters
  MaxReplay = 2
  MaxShown = 1
  MaxSockets = 2
  MaxEvents = 2
  MaxSearches = 0
INVARIANT OpenIsNotOffline
CHECK_DEADLOCK FALSE
