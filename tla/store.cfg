SPECIFICATION Spec
CONSTANTS
  Formats = {"csv", "json", "sqlite", "postgres"}
  Writers = {w1, w2}
  MaxResults = 4
  Columns = 2
  Long = {4}
  Filters = {{1, 2, 3, 4}, {1, 3}}
  PageSize = 1
INVARIANTS TypeOK Exact AckedSurvive LossBounded PagingMissesNothing PagesNewestFirst
