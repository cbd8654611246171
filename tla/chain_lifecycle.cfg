CONSTANTS
  Apps = {"main", "a"}
  Owner = "main"
  Terms = {"int"}
  Stops = {"tstp"}
  Faults = {}
  Cont = "cont"
  Application <- OneKind
  Events = {"install", "uninstall"}
  Installed = FALSE
  PipeSize = 1
  MaxSignals = 2
SPECIFICATION LifecycleSpec
INVARIANTS TypeOK PerformedOnce
PROPERTY EverythingSettles
CHECK_DEADLOCK FALSE
