SPECIFICATION SnapshotSpec
CONSTANTS
  Callers = {a, b}
  Lifecycle = a
  Handlers = {h1, h2}
  Signals = {usr1, usr2}
  Kinds = {"file", "fifo"}
  Formats = {"png"}
  Units = 2
  Room = 2
  MaxCalls = 7
  MaxApp = 1
  MaxFaults = 1
  AppRaces = FALSE
  None = None
INVARIANTS WorkerOwnsConfiguration ConfigurationIsWhole ShutdownClears CapturesAreCounted FontOfFrame
PROPERTIES CaptureIsTransfer SnapshotProgress
CHECK_DEADLOCK FALSE
