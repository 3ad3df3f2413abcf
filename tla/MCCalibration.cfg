SPECIFICATION Spec
CONSTANTS
  NoRow = NoRow
  NoB = NoB
  NoP = NoP
  Sessions = {s1, s2}
  Rows = {}
  Values = {}
  Entries <- MCEntries
  Serialized = TRUE
  Stores <- MCStores
  Archives <- MCArchives
  SettledBets <- MCSettledBets
  PlayerProp = "prop"
  NoBook = NoB
  NoProp = NoP
  Unit = 10
  MinSampleSize = 2
  BucketWidth = 3
INVARIANTS
  TypeOK
  CorrectionIsCalibrated
  OverallWithinMarkets
  ReportMatchesFactors
  BucketsBracketPredictions
  FilterIsASegment
