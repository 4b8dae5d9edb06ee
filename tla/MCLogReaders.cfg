\* Four entries, pages of one, reports of at most two; two units make an hour
\* and two hours a day.
CONSTANTS
  Ids = {i1, i2, i3, i4}
  Kinds <- MCKinds
  Orders <- MCOrders
  Filter = "app"
  PageSize = 1
  MaxDelay = 1
  MaxTime = 4
  MaxChanges = 3
  MaxLimit = 2
  DefaultLimit = 1
  HourLength = 2
  DayLength = 4
  MaxHours = 2
  DefaultHours = 1
  MaxSources = 2
  DefaultSources = 1
SPECIFICATION Spec
SYMMETRY Symmetry
INVARIANTS
  TypeOK
  PagingIsOffByWhatChanged
  
  
  TrendsMissTheFirstHour
