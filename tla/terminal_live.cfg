CONSTANTS
  h1 = h1
  w1 = w1
  Workers = {w1}
  Handlers = {h1}
  InputTty = TRUE
  OutputTty = TRUE
  Operations = {}
  Signals = {}
  Modes <- RawOnly
  PipeCapacity = 1
  PipeMayFill = FALSE
  IoMayFail = FALSE
SPECIFICATION LiveSpec
PROPERTIES PolledRestoreHappens NothingHangs
