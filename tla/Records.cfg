CONSTANTS
  Absent = absent
  Empty = empty
  Bad = bad
  Logs <- MCLogs
  Values <- MCValues
  MaxHolder = 1
  MaxEdits = 1
SPECIFICATION Spec
INVARIANTS TypeOK CheckedIsRecorded WithholdingIsSafe SpecDriftShows GuessableOnlyBefore NothingUncounted
