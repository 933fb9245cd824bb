CONSTANTS
  Calls = {"token"}
  Logs <- MCLogs
  Others <- MCOthers
  Stray <- MCStray
  MaxSize = 5
  MaxPath = 4
  MaxDepth = 2
  High = 4
  MaxCount = 2
  MaxOctets = 2
  MaxSub = 9
  MaxRead = 3
  MaxRoom = 9
  Safe = 8
  MaxMembers = 3
  Links = {l1, l2}
  OwnCerts <- MCOwnCerts
  OtherCerts <- MCOtherCerts
  Habits <- MCHabits
  MaxTime = 1
  MaxStamps = 1
  MaxEdits = 0
SPECIFICATION ReadersSpec
INVARIANT OrderMeansNothing
\* The functions return and are done.
CHECK_DEADLOCK FALSE
