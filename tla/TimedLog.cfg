CONSTANTS
  Second = 3
  Year = 40
  Skew = 2
  Profiles <- EachProfile
  Cadences = {4}
  Pauses = {1}
  Lates = {0, 5}
  Lags = {2}
  MaxEntries = 3
  MaxSkip = 1
  MaxTokens = 1
  MaxBacks = 1
  MaxEdits = 1
SPECIFICATION Spec
INVARIANTS TypeOK PopulationKept CoverageIsSchedule MembersMeanLog HonestTimesVerify StalenessNotFlattered
