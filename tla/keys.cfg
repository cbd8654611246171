CONSTANTS
  MaxTyped = 1
  BatchSize = 1
  HeldMax = 2
  MaxOdd = 1
  Plain = {}
  HostKeys = {"c"}
  Releases = FALSE
SPECIFICATION KeysSpec
INVARIANTS NoStuckKey GesturesKeepSides RecordIsKept
PROPERTY EpochReleases
