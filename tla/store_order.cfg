SPECIFICATION Spec
CONSTANTS
  Formats = {"csv", "json"}
  Writers = {w1, w2}
  MaxResults = 2
  Columns = 2
  Long = {}
  Filters = {}
  PageSize = 1
INVARIANTS NewestFirst
