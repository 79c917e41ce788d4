\* The same instance: a lower bound given in another zone than the rows.
SPECIFICATION Spec
CONSTANTS
  a = a
  b = b
  c = c
  NoStamp = NoStamp
  Ids <- MCIds
  Stamps <- MCStamps
  Statuses <- MCStatuses
  Filters <- MCFilters
  ReplaySize = 2
  MaxLimit = 3
  PageSize = 1
  MaxEvents = 4
SYMMETRY Symmetry
INVARIANT SinceIsALowerBound
CHECK_DEADLOCK FALSE
