\* Four events with three ids, a buffer of two, pages of one row.
SPECIFICATION Spec
CONSTANTS
  a = a
  b = b
  c = c
  NoStamp = NoStamp
  Ids <- MCIds
  Stamps <- MCStamps
  Statuses <- MCStatuses
  Filters <- MCFilters
  ReplaySize = 2
  MaxLimit = 3
  PageSize = 1
  MaxEvents = 4
SYMMETRY Symmetry
INVARIANTS
  TypeOK
  ArchiveIsLastWord
  ReplayIsStable
  PagesCover
  PagesAreTheResult
CHECK_DEADLOCK FALSE
