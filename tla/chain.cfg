CONSTANTS
  Apps = {"main", "a"}
  Owner = "main"
  Terms = {"int"}
  Stops = {"tstp"}
  Faults = {"segv"}
  Cont = "cont"
  Application <- OneKind
  Events = {}
  Installed = TRUE
  PipeSize = 2
  MaxSignals = 3
SPECIFICATION ChainSpec
INVARIANTS OneShot InformationOnce RecordIsLive WrappersInPlace
PROPERTY RegistrationsKept
CHECK_DEADLOCK FALSE
