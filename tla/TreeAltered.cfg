CONSTANTS
  c1 = c1
  c2 = c2
  b1 = b1
  p1 = p1
  Records <- MCRecords
  Core = {c1, c2}
  Beside = {b1}
  Pack = {p1, p2}
  Owner = owner
  Installs = {owner, other}
  NoInstall = none
  MaxLog = 2
  MaxShown = 2
  MaxAnchors = 1
  MaxRestores = 1
  MaxEdits = 1
SPECIFICATION Spec
INVARIANTS RootMeansRecorded LeafMeansEntry GrowthMeansPrefix
PROPERTY EveryTreeJudged
