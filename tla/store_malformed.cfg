SPECIFICATION Spec
CONSTANTS
  Formats = {"csv"}
  Writers = {w1, w2}
  MaxResults = 2
  Columns = 2
  Long = {}
  Filters = {}
  PageSize = 1
INVARIANTS MalformedSkipped
