CONSTANTS
  h1 = h1
  Workers = {}
  Handlers = {h1}
  InputTty = TRUE
  OutputTty = TRUE
  Operations = {}
  Signals = {}
  Modes <- RawOnly
  PipeCapacity = 1
  PipeMayFill = FALSE
  IoMayFail = FALSE
SPECIFICATION RaceSpec
INVARIANT StoppedMeansReleased
